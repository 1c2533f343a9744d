------------------------ MODULE GeneratedClientProofs ------------------------
(***************************************************************************)
(* Theorems about GeneratedClient, for any models, calls, tasks and        *)
(* bounds.                                                                 *)
(*                                                                         *)
(* IInv is the inductive invariant.  The rows of a table keep their keys   *)
(* (TypeOK), and a call that waits has built its statement out of its      *)
(* inputs and its clock, whatever happened to the tables since (Waiting).  *)
(* Most steps differ only in what they answer, so the proofs look at a     *)
(* step as an effect on the tables and an effect on the call (Effects).    *)
(***************************************************************************)
EXTENDS GeneratedClient, FiniteSetTheorems, SequenceTheorems, WellFoundedInduction, TLAPS

Fields == {"query", "begun", "now", "made", "items", "row", "records"}

Given(q) == {Inputs(q)[i] : i \in DOMAIN Inputs(q)}

\* What is left of the inputs, and the row made of the first that is left.
BuiltFrom(b) ==
    LET q == b.query IN
    /\ b.made \in Nat
    /\ q.op # "create_many" \/ b.items = << >> => b.made = 0
    /\ b.items \in Seq(Given(q))
    /\ b.made + Len(b.items) = Len(Inputs(q))
    /\ \A i \in 1 .. Len(b.items) : b.items[i] = Inputs(q)[b.made + i]
    /\ b.items # << >> => \E f \in Nat : b.row = CreatedRow(q.model, b.items[1], b.now, f)

Waiting ==
    /\ DOMAIN call = Clients
    /\ DOMAIN answer = Clients
    /\ \A c \in Clients : call[c] # Null =>
         /\ DOMAIN call[c] = Fields
         /\ BuiltFrom(call[c])
         /\ IsList(call[c].records)

IInv == TypeOK /\ Waiting

\* What a step does to the tables ...
Inserts(c) ==
    LET m == Query(c).model IN
    /\ Query(c).op \in {"create", "create_many", "on_conflict_ignore", "upsert"}
    /\ call[c].items # << >>
    /\ Clashes(m, tables[m], call[c].row) = {}
    /\ tables' = [tables EXCEPT ![m] = @ \cup {call[c].row}]

Updates(c) ==
    LET m == Query(c).model
        set == Query(c).set
    IN  /\ "set" \in DOMAIN Query(c)
        /\ \E matched \in SUBSET tables[m] :
             /\ UpdateClashes(m, tables[m], matched, set, call[c].now) = {}
             /\ tables' = [tables EXCEPT ![m] = Updated(m, @, matched, set, call[c].now)]

Deletes(c) == \E gone : tables' = [tables EXCEPT ![Query(c).model] = @ \ gone]

TablesEffect(c) == UNCHANGED tables \/ Inserts(c) \/ Updates(c) \/ Deletes(c)

\* ... and to the call.
Answers(c) ==
    /\ call' = [call EXCEPT ![c] = Null]
    /\ \E kind, rows, made : answer' = [answer EXCEPT ![c] = Answer(kind, Query(c), rows, made)]
    /\ UNCHANGED <<clock, fresh, left>>

BuildsNext(c) ==
    /\ Query(c).op = "create_many"
    /\ Len(call[c].items) > 1
    /\ call' = [call EXCEPT ![c] =
                  Build(Query(c), Tail(call[c].items), call[c].begun, call[c].made + 1)]
    /\ fresh' = fresh + 1
    /\ Inserts(c)
    /\ UNCHANGED <<clock, left, answer>>

Loads(c) ==
    /\ Query(c).include
    /\ \E s \in Seq(tables[Query(c).model]) : call' = [call EXCEPT ![c].records = s]
    /\ UNCHANGED <<tables, clock, fresh, left, answer>>

CallEffect(c) == Answers(c) \/ BuildsNext(c) \/ Loads(c)

-----------------------------------------------------------------------------
(* What the assumptions say of one call.                                   *)

LEMMA InputsFit ==
  ASSUME NEW q \in Queries
  PROVE  /\ q.model \in Models
         /\ Inputs(q) \in Seq(Given(q))
         /\ \A i \in 1 .. Len(Inputs(q)) : DataFits(q.model, Inputs(q)[i])
         /\ q.op \in {"create", "on_conflict_ignore", "upsert"} => Len(Inputs(q)) = 1
         /\ q.op \notin {"create", "create_many", "on_conflict_ignore", "upsert"} => Inputs(q) = << >>
<1>1. q.model \in Models /\ Admitted(q)
  BY GeneratedClientAssumption
<1>2. CASE q.op = "create_many"
  <2>1. "items" \in DOMAIN q
    BY <1>1, <1>2 DEF Admitted, Arguments
  <2>2. Inputs(q) = q.items
    BY <1>2 DEF Inputs
  <2>3. q.items \in Seq({q.items[i] : i \in DOMAIN q.items})
    BY <1>1, <2>1 DEF Admitted, IsList
  <2>4. \A i \in DOMAIN q.items : DataFits(q.model, q.items[i])
    BY <1>1, <2>1 DEF Admitted
  <2>5. DOMAIN q.items = 1 .. Len(q.items)
    BY <2>3
  <2>6. QED
    BY <1>1, <1>2, <2>2, <2>3, <2>4, <2>5 DEF Given
<1>3. CASE q.op \in {"create", "on_conflict_ignore", "upsert"}
  <2>1. "data" \in DOMAIN q
    BY <1>1, <1>3 DEF Admitted, Arguments
  <2>2. Inputs(q) = <<q.data>>
    BY <1>3 DEF Inputs
  <2>3. DataFits(q.model, q.data)
    BY <1>1, <2>1 DEF Admitted
  <2>4. Given(q) = {q.data}
    BY <2>2 DEF Given
  <2>5. <<q.data>> \in Seq({q.data}) /\ Len(<<q.data>>) = 1 /\ <<q.data>>[1] = q.data
    OBVIOUS
  <2>6. QED
    BY <1>1, <1>3, <2>2, <2>3, <2>4, <2>5
<1>4. CASE q.op \notin {"create", "create_many", "on_conflict_ignore", "upsert"}
  <2>1. Inputs(q) = << >>
    BY <1>4 DEF Inputs
  <2>2. QED
    BY <1>1, <1>4, <2>1
<1>5. QED
  BY <1>2, <1>3, <1>4

LEMMA ArgumentsGiven ==
  ASSUME NEW q \in Queries
  PROVE  /\ q.op \in {"upsert", "update", "update_first", "update_many"} => "set" \in DOMAIN q
         /\ q.op \in {"find_unique", "find_first", "find_many"} => "include" \in DOMAIN q
         /\ q.op = "find_many" => "take" \in DOMAIN q
         /\ q.op = "upsert" => DOMAIN q.unique \in Meta[q.model].unique
<1>1. q.op \in DOMAIN Arguments /\ DOMAIN q = {"op", "model"} \cup Arguments[q.op]
  BY GeneratedClientAssumption DEF Admitted
<1>2. /\ Arguments["upsert"] = {"unique", "data", "set"}
      /\ Arguments["update"] = {"unique", "set"}
      /\ Arguments["update_first"] = {"where", "set"}
      /\ Arguments["update_many"] = {"where", "set"}
      /\ Arguments["find_unique"] = {"unique", "select", "include"}
      /\ Arguments["find_first"] = {"where", "orders", "select", "include"}
      /\ Arguments["find_many"] = {"where", "orders", "take", "skip", "select", "include"}
  BY DEF Arguments
<1>3. q.op = "upsert" => DOMAIN q.unique \in Meta[q.model].unique
  <2>1. "unique" \in DOMAIN q => DOMAIN q.unique \in Meta[q.model].unique
    BY GeneratedClientAssumption DEF Admitted
  <2>2. QED
    BY <1>1, <1>2, <2>1
<1>4. QED
  BY <1>1, <1>2, <1>3

LEMMA SetsFit ==
  ASSUME NEW q \in Queries, "set" \in DOMAIN q
  PROVE  DOMAIN q.set \subseteq Meta[q.model].settable
BY GeneratedClientAssumption DEF Admitted

\* A row made of an input has the columns of its model and an id.
LEMMA CreatedRowHasId ==
  ASSUME NEW m \in Models, NEW data, DataFits(m, data), NEW now \in Nat, NEW f \in Nat
  PROVE  /\ DOMAIN CreatedRow(m, data, now, f) = Columns(m)
         /\ CreatedRow(m, data, now, f).id # Null
         /\ \A col \in Meta[m].updatedAt : CreatedRow(m, data, now, f)[col] = now
         /\ \A col \in DOMAIN data : CreatedRow(m, data, now, f)[col] = data[col]
         /\ "id" \notin DOMAIN data => CreatedRow(m, data, now, f).id = f
<1> DEFINE row == CreatedRow(m, data, now, f)
<1> USE ModelQueriesAssumption
<1>1. DOMAIN row = Columns(m)
  BY DEF CreatedRow
<1>2. \A col \in Columns(m) :
         row[col] = IF col \in Meta[m].updatedAt THEN now
                    ELSE IF col \in DOMAIN data THEN data[col]
                    ELSE DefaultValue(Meta[m].defaults[col], now, f)
  BY DEF CreatedRow
<1>3. "id" \in Columns(m) /\ "id" \notin Meta[m].updatedAt
  OBVIOUS
<1>4. \A col \in DOMAIN data : col \in Columns(m) /\ col \notin Meta[m].updatedAt
  BY DEF DataFits
<1>5. CASE "id" \in DOMAIN data
  <2>1. row.id = data["id"] /\ data["id"] # Null
    BY <1>2, <1>3, <1>5 DEF DataFits
  <2>2. QED
    BY <1>1, <1>2, <1>4, <1>5, <2>1
<1>6. CASE "id" \notin DOMAIN data
  <2>1. Meta[m].defaults["id"] = <<"uuid">>
    BY <1>6 DEF DataFits
  <2>2. DefaultValue(Meta[m].defaults["id"], now, f) = f
    BY <2>1 DEF DefaultValue
  <2>3. row.id = f
    BY <1>2, <1>3, <1>6, <2>2
  <2>4. f # Null
    BY GeneratedClientAssumption
  <2>5. QED
    BY <1>1, <1>2, <1>4, <2>3, <2>4
<1>7. QED
  BY <1>5, <1>6

\* An update keeps the columns and the id of a row, and stamps it.
LEMMA SetRowKeepsId ==
  ASSUME NEW m \in Models, NEW set, NEW now, NEW r,
         DOMAIN set \subseteq Meta[m].settable, DOMAIN r = Columns(m)
  PROVE  /\ DOMAIN SetRow(m, set, now, r) = Columns(m)
         /\ SetRow(m, set, now, r).id = r.id
         /\ \A col \in Meta[m].updatedAt : SetRow(m, set, now, r)[col] = now
         /\ \A col \in DOMAIN set : SetRow(m, set, now, r)[col] = set[col]
         /\ \A col \in Columns(m) : col \notin DOMAIN set \cup Meta[m].updatedAt
                => SetRow(m, set, now, r)[col] = r[col]
BY ModelQueriesAssumption DEF SetRow

-----------------------------------------------------------------------------
(* Steps by their effects.                                                 *)

\* Every ending of a call is an answer.
LEMMA ReturnsAnswers ==
  ASSUME NEW c \in Clients, NEW kind, NEW rows, NEW made, Returns(c, kind, rows, made)
  PROVE  Answers(c)
BY DEF Returns, Answers

\* A call that has one input has not inserted anything yet.
LEMMA OneInput ==
  ASSUME IInv, NEW c \in Clients, call[c] # Null
  PROVE  /\ Query(c) \in Queries
         /\ Query(c).model \in Models
         /\ call[c].items \in Seq(Given(Query(c)))
         /\ Query(c).op \in {"create", "on_conflict_ignore", "upsert"} =>
                call[c].items # << >> /\ Tail(call[c].items) = << >>
<1> DEFINE q == Query(c)
           items == call[c].items
<1>1. q \in Queries /\ BuiltFrom(call[c])
  BY DEF IInv, TypeOK, Waiting, Query
<1>2. items \in Seq(Given(q))
  BY <1>1 DEF BuiltFrom, Query
<1>3. ASSUME q.op \in {"create", "on_conflict_ignore", "upsert"}
      PROVE  Len(items) = 1
  <2>1. call[c].made = 0 /\ call[c].made + Len(items) = Len(Inputs(q))
    BY <1>1, <1>3 DEF BuiltFrom, Query
  <2>2. Len(Inputs(q)) = 1
    BY <1>1, <1>3, InputsFit
  <2>3. QED
    BY <1>2, <2>1, <2>2
<1>4. ASSUME Len(items) = 1
      PROVE  items # << >> /\ Tail(items) = << >>
  <2>1. items # << >>
    BY <1>4
  <2>2. Tail(items) \in Seq(Given(q)) /\ Len(Tail(items)) = 0
    BY <1>2, <1>4, <2>1, HeadTailProperties
  <2>3. QED
    BY <2>1, <2>2, EmptySeq
<1>5. QED
  BY <1>1, <1>2, <1>3, <1>4, InputsFit

\* Inserts of a single row, of a batch and on a conflict.
LEMMA InsertEffects ==
  ASSUME IInv, NEW c \in Clients,
         Create(c) \/ CreateNothing(c) \/ CreateRefused(c) \/ CreateIgnore(c)
  PROVE  call[c] # Null /\ TablesEffect(c) /\ CallEffect(c)
<1>1. call[c] # Null
  BY DEF Create, CreateNothing, CreateRefused, CreateIgnore, Runs
<1>2. CASE Create(c)
  <2>1. /\ Query(c).op \in {"create", "create_many"}
        /\ call[c].items # << >>
        /\ Clashes(Query(c).model, tables[Query(c).model], call[c].row) = {}
        /\ tables' = [tables EXCEPT ![Query(c).model] = tables[Query(c).model] \cup {call[c].row}]
    BY <1>2 DEF Create, Runs, Query, Changes
  <2>2. Inserts(c)
    BY <2>1 DEF Inserts
  <2>3. CASE Returns(c, "ok", {call[c].row}, call[c].made + 1)
    BY <1>1, <2>2, <2>3, ReturnsAnswers DEF TablesEffect, CallEffect
  <2>4. CASE ~Returns(c, "ok", {call[c].row}, call[c].made + 1)
    <3>1. /\ Tail(call[c].items) # << >>
          /\ call' = [call EXCEPT ![c] =
                        Build(Query(c), Tail(call[c].items), call[c].begun, call[c].made + 1)]
          /\ fresh' = fresh + 1
          /\ UNCHANGED <<clock, left, answer>>
      BY <1>2, <2>4 DEF Create, Waiting, IInv
    <3>2. Query(c).op = "create_many"
      BY <1>1, <2>1, <3>1, OneInput
    <3>3. Len(call[c].items) > 1
      BY <1>1, <2>1, <3>1, OneInput
    <3>4. QED
      BY <1>1, <2>2, <3>1, <3>2, <3>3 DEF TablesEffect, CallEffect, BuildsNext
  <2>5. QED
    BY <2>3, <2>4
<1>3. CASE CreateNothing(c) \/ CreateRefused(c)
  BY <1>1, <1>3, ReturnsAnswers DEF CreateNothing, CreateRefused, TablesEffect, CallEffect
<1>4. CASE CreateIgnore(c)
  <2> DEFINE m == Query(c).model
  <2>1. Query(c).op = "on_conflict_ignore" /\ call[c].items # << >>
    BY <1>1, <1>4, OneInput DEF CreateIgnore, Runs, Query
  <2>2. \/ UNCHANGED tables
        \/ /\ Clashes(m, tables[m], call[c].row) = {}
           /\ tables' = [tables EXCEPT ![m] = tables[m] \cup {call[c].row}]
    BY <1>4 DEF CreateIgnore, Changes
  <2>3. TablesEffect(c)
    BY <2>1, <2>2 DEF TablesEffect, Inserts
  <2>4. Answers(c)
    BY <1>4, ReturnsAnswers DEF CreateIgnore
  <2>5. QED
    BY <1>1, <2>3, <2>4 DEF CallEffect
<1>5. QED
  BY <1>2, <1>3, <1>4

LEMMA UpsertEffects ==
  ASSUME IInv, NEW c \in Clients, Upsert(c)
  PROVE  call[c] # Null /\ TablesEffect(c) /\ CallEffect(c)
<1> DEFINE m == Query(c).model
           met == {r \in tables[m] : Agree(ConflictTarget(Query(c).unique), r, call[c].row)}
           set == Query(c).set
<1>1. call[c] # Null /\ Query(c).op = "upsert"
  BY DEF Upsert, Runs, Query
<1>2. call[c].items # << >>
  BY <1>1, OneInput
<1>3. "set" \in DOMAIN Query(c)
  BY <1>1, OneInput, ArgumentsGiven
<1>4. \/ UNCHANGED tables
      \/ /\ Clashes(m, tables[m], call[c].row) = {}
         /\ tables' = [tables EXCEPT ![m] = tables[m] \cup {call[c].row}]
      \/ /\ UpdateClashes(m, tables[m], met, set, call[c].now) = {}
         /\ tables' = [tables EXCEPT ![m] = Updated(m, tables[m], met, set, call[c].now)]
  BY DEF Upsert, Changes
<1>5. TablesEffect(c)
  BY <1>1, <1>2, <1>3, <1>4 DEF TablesEffect, Inserts, Updates
<1>6. Answers(c)
  BY ReturnsAnswers DEF Upsert
<1>7. QED
  BY <1>1, <1>5, <1>6 DEF CallEffect

LEMMA UpdateEffects ==
  ASSUME IInv, NEW c \in Clients,
         Update(c) \/ UpdateFirst(c) \/ UpdateMany(c) \/ UpdateRefused(c)
  PROVE  call[c] # Null /\ TablesEffect(c) /\ CallEffect(c)
<1> DEFINE m == Query(c).model
           set == Query(c).set
<1>1. call[c] # Null /\ Query(c).op \in {"update", "update_first", "update_many"}
  BY DEF Update, UpdateFirst, UpdateMany, UpdateRefused, Runs, Query
<1>2. "set" \in DOMAIN Query(c)
  BY <1>1, OneInput, ArgumentsGiven
<1>3. Matched(c) \in SUBSET tables[m]
  BY DEF Matched, Named, FindMany
<1>4. \/ UNCHANGED tables
      \/ /\ UpdateClashes(m, tables[m], Matched(c), set, call[c].now) = {}
         /\ tables' = [tables EXCEPT ![m] = Updated(m, tables[m], Matched(c), set, call[c].now)]
  BY DEF Update, UpdateFirst, UpdateMany, UpdateRefused, UpdateRows, Changes
<1>5. TablesEffect(c)
  BY <1>2, <1>3, <1>4 DEF TablesEffect, Updates
<1>6. Answers(c)
  BY ReturnsAnswers DEF Update, UpdateFirst, UpdateMany, UpdateRefused
<1>7. QED
  BY <1>1, <1>5, <1>6 DEF CallEffect

LEMMA DeleteEffects ==
  ASSUME IInv, NEW c \in Clients, Delete(c)
  PROVE  call[c] # Null /\ TablesEffect(c) /\ CallEffect(c)
<1>1. call[c] # Null
  BY DEF Delete, Runs
<1>2. TablesEffect(c)
  BY DEF Delete, Changes, TablesEffect, Deletes
<1>3. Answers(c)
  BY ReturnsAnswers DEF Delete
<1>4. QED
  BY <1>1, <1>2, <1>3 DEF CallEffect

\* The rows a SELECT comes back with are a list.
LEMMA OrderedAreLists ==
  ASSUME NEW rows, IsFiniteSet(rows), NEW orders, NEW s \in Ordered(rows, orders)
  PROVE  s \in Seq(rows)
<1>1. Cardinality(rows) \in Nat
  BY FS_CardinalityType
<1>2. s \in [1 .. Cardinality(rows) -> rows]
  BY DEF Ordered
<1>3. QED
  BY <1>1, <1>2

LEMMA PagesAreLists ==
  ASSUME NEW rows, NEW s \in Seq(rows), NEW take \in Nat \cup {Null}, NEW skip \in Nat \cup {Null}
  PROVE  Page(s, take, skip) \in Seq(rows)
<1> DEFINE first == IF skip = Null THEN 0 ELSE skip
           last == IF take = Null THEN Len(s) ELSE first + take
           end == IF last < Len(s) THEN last ELSE Len(s)
<1>1. first \in Nat /\ end \in Nat /\ end <= Len(s)
  OBVIOUS
<1>2. Page(s, take, skip) = SubSeq(s, first + 1, end)
  BY DEF Page
<1> HIDE DEF first, end
<1>3. SubSeq(s, first + 1, end) \in Seq(rows)
  BY <1>1
<1>4. QED
  BY <1>2, <1>3

LEMMA RecordsAreLists ==
  ASSUME IInv, NEW c \in Clients, Find(c), NEW s \in Records(c)
  PROVE  s \in Seq(tables[Query(c).model])
<1> DEFINE q == Query(c)
           rows == tables[q.model]
<1>1. q \in Queries /\ q.model \in Models /\ q.op \in {"find_unique", "find_first", "find_many"}
  BY OneInput DEF Find, Runs, Query
<1>2. Admitted(q)
  BY <1>1, GeneratedClientAssumption
<1>3. IsFiniteSet(rows)
  BY <1>1 DEF IInv, TypeOK, Keyed
<1>4. ASSUME NEW found \in SUBSET rows, NEW orders, NEW t \in Ordered(found, orders)
      PROVE  t \in Seq(rows)
  <2>1. IsFiniteSet(found)
    BY <1>3, FS_Subset
  <2>2. t \in Seq(found)
    BY <2>1, OrderedAreLists
  <2>3. QED
    BY <2>2
<1> HIDE DEF rows, q
<1>5. Named(q.unique, rows) \in SUBSET rows /\ FindMany(rows, q.where) \in SUBSET rows
  BY DEF Named, FindMany
<1>6. CASE q.op = "find_unique"
  BY <1>4, <1>5, <1>6 DEF Records, q, rows
<1>7. CASE q.op = "find_first"
  <2>1. PICK t \in Ordered(FindMany(rows, q.where), q.orders) : s = Page(t, 1, Null)
    BY <1>7 DEF Records, q, rows
  <2>2. t \in Seq(rows)
    BY <1>4, <1>5
  <2>3. QED
    BY <2>1, <2>2, PagesAreLists DEF rows, q
<1>8. CASE q.op = "find_many"
  <2>1. PICK t \in Ordered(FindMany(rows, q.where), q.orders) : s = Page(t, q.take, q.skip)
    BY <1>8 DEF Records, q, rows
  <2>2. t \in Seq(rows)
    BY <1>4, <1>5
  <2>3. "take" \in DOMAIN q
    BY <1>1, <1>8, ArgumentsGiven
  <2>4. {q.take, q.skip} \subseteq Nat \cup {Null}
    BY <1>2, <2>3 DEF Admitted
  <2>5. QED
    BY <2>1, <2>2, <2>4, PagesAreLists DEF rows, q
<1>9. QED
  BY <1>1, <1>6, <1>7, <1>8

LEMMA FindEffects ==
  ASSUME IInv, NEW c \in Clients,
         \/ Find(c) \/ LoadRelation(c) \/ CountRows(c) \/ AggregateRows(c) \/ GroupRows(c)
         \/ ConnectionFails(c)
  PROVE  call[c] # Null /\ TablesEffect(c) /\ CallEffect(c)
<1>1. call[c] # Null
  BY DEF Find, LoadRelation, CountRows, AggregateRows, GroupRows, ConnectionFails, Runs
<1>2. UNCHANGED tables
  BY DEF Find, LoadRelation, CountRows, AggregateRows, GroupRows, ConnectionFails
<1>3. CASE Find(c)
  <2>1. CASE \E s \in Records(c) :
               /\ LoadsRelations(Query(c))
               /\ call' = [call EXCEPT ![c].records = s]
               /\ UNCHANGED <<clock, fresh, left, answer>>
    <3>1. PICK s \in Records(c) :
               /\ LoadsRelations(Query(c))
               /\ call' = [call EXCEPT ![c].records = s]
               /\ UNCHANGED <<clock, fresh, left, answer>>
      BY <2>1
    <3>2. s \in Seq(tables[Query(c).model])
      BY <1>3, RecordsAreLists
    <3>3. Loads(c)
      BY <1>2, <3>1, <3>2 DEF Loads, LoadsRelations
    <3>4. QED
      BY <1>1, <1>2, <3>3 DEF TablesEffect, CallEffect
  <2>2. CASE \E kind, rows, made : Returns(c, kind, rows, made)
    BY <1>1, <1>2, <2>2, ReturnsAnswers DEF TablesEffect, CallEffect
  <2>3. QED
    BY <1>3, <2>1, <2>2 DEF Find
<1>4. CASE ~Find(c)
  <2>1. Answers(c)
    BY <1>4, ReturnsAnswers DEF LoadRelation, CountRows, AggregateRows, GroupRows, ConnectionFails
  <2>2. QED
    BY <1>1, <1>2, <2>1 DEF TablesEffect, CallEffect
<1>5. QED
  BY <1>3, <1>4

LEMMA StepEffects ==
  ASSUME IInv, NEW c \in Clients, Step(c)
  PROVE  call[c] # Null /\ TablesEffect(c) /\ CallEffect(c)
BY InsertEffects, UpsertEffects, UpdateEffects, DeleteEffects, FindEffects DEF Step

-----------------------------------------------------------------------------
(* The tables keep their keys.                                             *)

LEMMA InsertKeepsKeys ==
  ASSUME NEW m \in Models, NEW rows, Keyed(m, rows),
         NEW row, DOMAIN row = Columns(m), row.id # Null, Clashes(m, rows, row) = {}
  PROVE  Keyed(m, rows \cup {row})
<1>1. \A key \in Meta[m].unique : \A r \in rows : ~Agree(key, r, row) /\ ~Agree(key, row, r)
  BY DEF Clashes, Agree
<1>2. \A r \in rows : r.id # row.id
  BY <1>1, ModelQueriesAssumption DEF Keyed, Agree
<1>3. IsFiniteSet(rows \cup {row})
  BY FS_AddElement DEF Keyed
<1>4. QED
  BY <1>1, <1>2, <1>3 DEF Keyed

LEMMA UpdateKeepsKeys ==
  ASSUME NEW m \in Models, NEW rows, Keyed(m, rows), NEW matched \in SUBSET rows,
         NEW set, DOMAIN set \subseteq Meta[m].settable, NEW now,
         UpdateClashes(m, rows, matched, set, now) = {}
  PROVE  Keyed(m, Updated(m, rows, matched, set, now))
<1> DEFINE after == Updated(m, rows, matched, set, now)
<1>1. \A r \in matched : DOMAIN SetRow(m, set, now, r) = Columns(m) /\ SetRow(m, set, now, r).id = r.id
  BY SetRowKeepsId DEF Keyed
<1>2. \A r \in after : DOMAIN r = Columns(m) /\ r.id # Null
  BY <1>1 DEF Keyed, Updated
<1>3. \A r, s \in after : r.id = s.id => r = s
  <2>1. \A r \in matched, s \in rows \ matched : r.id # s.id
    BY DEF Keyed
  <2>2. \A r, s \in matched : r.id = s.id => r = s
    BY DEF Keyed
  <2>3. \A r, s \in rows \ matched : r.id = s.id => r = s
    BY DEF Keyed
  <2>4. QED
    BY <1>1, <2>1, <2>2, <2>3 DEF Updated
<1>4. \A r, s \in after : r.id # s.id => \A key \in Meta[m].unique : ~Agree(key, r, s)
  BY DEF UpdateClashes
<1>5. IsFiniteSet(after)
  <2>1. IsFiniteSet(rows \ matched) /\ IsFiniteSet(matched)
    BY FS_Subset DEF Keyed
  <2>2. IsFiniteSet({SetRow(m, set, now, r) : r \in matched})
    <3> DEFINE f == [r \in matched |-> SetRow(m, set, now, r)]
               image == {SetRow(m, set, now, r) : r \in matched}
    <3>1. f \in Surjection(matched, image)
      BY DEF Surjection
    <3> HIDE DEF f, image
    <3>2. IsFiniteSet(image)
      BY <2>1, <3>1, FS_Surjection
    <3>3. QED
      BY <3>2 DEF image
  <2>3. QED
    BY <2>1, <2>2, FS_Union DEF Updated
<1>6. QED
  BY <1>2, <1>3, <1>4, <1>5 DEF Keyed

LEMMA DeleteKeepsKeys ==
  ASSUME NEW m \in Models, NEW rows, Keyed(m, rows), NEW gone
  PROVE  Keyed(m, rows \ gone)
<1>1. IsFiniteSet(rows \ gone)
  BY FS_Subset DEF Keyed
<1>2. QED
  BY <1>1 DEF Keyed

\* The row that waits to be inserted is made of the first input that is left.
LEMMA RowOfInput ==
  ASSUME IInv, NEW c \in Clients, call[c] # Null, call[c].items # << >>
  PROVE  LET row == call[c].row
             m == Query(c).model
             data == call[c].items[1]
         IN  /\ DOMAIN row = Columns(m)
             /\ row.id # Null
             /\ \A col \in Meta[m].updatedAt : row[col] = call[c].now
             /\ \A col \in DOMAIN data : row[col] = data[col]
             /\ data = Inputs(Query(c))[call[c].made + 1]
             /\ call[c].made < Len(Inputs(Query(c)))
             /\ "id" \notin DOMAIN data => row.id \in Nat
<1> DEFINE q == Query(c)
           items == call[c].items
<1>1. q \in Queries /\ BuiltFrom(call[c])
  BY DEF IInv, TypeOK, Waiting, Query
<1>2. items \in Seq(Given(q)) /\ items # << >>
  BY <1>1 DEF BuiltFrom, Query
<1>3. Len(items) \in Nat /\ Len(items) > 0
  BY <1>2
<1>4. /\ items[1] = Inputs(q)[call[c].made + 1]
      /\ call[c].made \in Nat
      /\ call[c].made + Len(items) = Len(Inputs(q))
  BY <1>1, <1>3 DEF BuiltFrom, Query
<1>5. DataFits(q.model, items[1]) /\ q.model \in Models
  <2>1. Inputs(q) \in Seq(Given(q)) /\ q.model \in Models
    BY <1>1, InputsFit
  <2>2. call[c].made + 1 \in 1 .. Len(Inputs(q))
    BY <1>3, <1>4
  <2>3. QED
    BY <1>1, <1>4, <2>1, <2>2, InputsFit
<1>6. PICK f \in Nat : call[c].row = CreatedRow(q.model, items[1], call[c].now, f)
  BY <1>1, <1>2 DEF BuiltFrom, Query
<1>7. call[c].now \in Nat
  BY GeneratedClientAssumption DEF IInv, TypeOK
<1>8. QED
  BY <1>3, <1>4, <1>5, <1>6, <1>7, CreatedRowHasId

LEMMA TablesStayKeyed ==
  ASSUME IInv, NEW c \in Clients, call[c] # Null, TablesEffect(c)
  PROVE  DOMAIN tables' = Models /\ \A m \in Models : Keyed(m, tables'[m])
<1> DEFINE m == Query(c).model
<1>1. Query(c) \in Queries /\ m \in Models
  BY OneInput
<1>2. DOMAIN tables = Models /\ \A n \in Models : Keyed(n, tables[n])
  BY DEF IInv, TypeOK
<1>3. ASSUME NEW rows, Keyed(m, rows), tables' = [tables EXCEPT ![m] = rows]
      PROVE  DOMAIN tables' = Models /\ \A n \in Models : Keyed(n, tables'[n])
  BY <1>1, <1>2, <1>3
<1>4. CASE UNCHANGED tables
  BY <1>2, <1>4
<1>5. CASE Inserts(c)
  <2>1. DOMAIN call[c].row = Columns(m) /\ call[c].row.id # Null
    BY <1>5, RowOfInput DEF Inserts
  <2>2. Keyed(m, tables[m] \cup {call[c].row})
    BY <1>1, <1>2, <1>5, <2>1, InsertKeepsKeys DEF Inserts
  <2>3. QED
    BY <1>3, <1>5, <2>2 DEF Inserts
<1>6. CASE Updates(c)
  <2>1. PICK matched \in SUBSET tables[m] :
          /\ UpdateClashes(m, tables[m], matched, Query(c).set, call[c].now) = {}
          /\ tables' = [tables EXCEPT ![m] =
                          Updated(m, tables[m], matched, Query(c).set, call[c].now)]
    BY <1>6 DEF Updates
  <2>2. DOMAIN Query(c).set \subseteq Meta[m].settable
    BY <1>1, <1>6, SetsFit DEF Updates
  <2>3. Keyed(m, Updated(m, tables[m], matched, Query(c).set, call[c].now))
    BY <1>1, <1>2, <2>1, <2>2, UpdateKeepsKeys
  <2>4. QED
    BY <1>3, <2>1, <2>3
<1>7. CASE Deletes(c)
  <2>1. PICK gone : tables' = [tables EXCEPT ![m] = tables[m] \ gone]
    BY <1>7 DEF Deletes
  <2>2. Keyed(m, tables[m] \ gone)
    BY <1>1, <1>2, DeleteKeepsKeys
  <2>3. QED
    BY <1>3, <2>1, <2>2
<1>8. QED
  BY <1>4, <1>5, <1>6, <1>7 DEF TablesEffect

-----------------------------------------------------------------------------
(* The calls that wait.                                                    *)

LEMMA BuildIsBuilt ==
  ASSUME NEW q, NEW items \in Seq(Given(q)), NEW begun, NEW made \in Nat,
         fresh \in Nat,
         made + Len(items) = Len(Inputs(q)),
         \A i \in 1 .. Len(items) : items[i] = Inputs(q)[made + i],
         q.op # "create_many" \/ items = << >> => made = 0
  PROVE  LET b == Build(q, items, begun, made) IN
         /\ DOMAIN b = Fields
         /\ b.query = q /\ b.begun = begun /\ b.now = clock /\ b.made = made
         /\ b.records = << >>
         /\ BuiltFrom(b)
<1> DEFINE b == Build(q, items, begun, made)
<1>1. /\ DOMAIN b = Fields
      /\ b.query = q /\ b.begun = begun /\ b.now = clock /\ b.made = made /\ b.items = items
      /\ b.records = << >>
  BY DEF Build, Fields
<1>2. ASSUME items # << >>
      PROVE  b.row = CreatedRow(q.model, items[1], clock, fresh)
  <2>1. Head(items) = items[1]
    BY <1>2
  <2>2. QED
    BY <1>2, <2>1 DEF Build
<1> HIDE DEF b
<1>3. BuiltFrom(b)
  BY <1>1, <1>2 DEF BuiltFrom
<1>4. QED
  BY <1>1, <1>3 DEF b

\* What IInv says of one call, at a moment.
CallFits(b, moment) ==
    /\ DOMAIN b = Fields
    /\ b.query \in Queries
    /\ b.begun \in 0 .. moment
    /\ b.now \in b.begun .. moment
    /\ BuiltFrom(b)
    /\ IsList(b.records)
    /\ Len(b.records) > 0 => b.query.include

LEMMA CallsFit ==
  IInv <=> /\ DOMAIN tables = Models /\ \A m \in Models : Keyed(m, tables[m])
           /\ clock \in 0 .. MaxClock
           /\ fresh \in Nat
           /\ left \in 0 .. MaxCalls
           /\ DOMAIN call = Clients
           /\ DOMAIN answer = Clients
           /\ \A c \in Clients : call[c] # Null => CallFits(call[c], clock)
           /\ \A c \in Clients : answer[c] # Null => answer[c].query \in Queries
BY DEF IInv, TypeOK, Waiting, CallFits, Query

LEMMA CallsFitNext ==
  IInv' <=> /\ DOMAIN tables' = Models /\ \A m \in Models : Keyed(m, tables'[m])
            /\ clock' \in 0 .. MaxClock
            /\ fresh' \in Nat
            /\ left' \in 0 .. MaxCalls
            /\ DOMAIN call' = Clients
            /\ DOMAIN answer' = Clients
            /\ \A c \in Clients : call'[c] # Null => CallFits(call'[c], clock')
            /\ \A c \in Clients : answer'[c] # Null => answer'[c].query \in Queries
BY DEF IInv, TypeOK, Waiting, CallFits, Query

LEMMA EmptyIsList == IsList(<< >>) /\ Len(<< >>) = 0
BY DEF IsList

LEMMA StepKeeps ==
  ASSUME IInv, NEW c \in Clients, Step(c)
  PROVE  IInv'
<1> DEFINE q == Query(c)
           items == call[c].items
<1>1. call[c] # Null /\ TablesEffect(c) /\ CallEffect(c)
  BY StepEffects
<1>2. DOMAIN tables' = Models /\ \A m \in Models : Keyed(m, tables'[m])
  BY <1>1, TablesStayKeyed
<1>3. q \in Queries /\ CallFits(call[c], clock)
  BY <1>1, OneInput, CallsFit
<1>4. CASE Answers(c)
  <2>1. PICK kind, rows, made :
           answer' = [answer EXCEPT ![c] = Answer(kind, q, rows, made)]
    BY <1>4 DEF Answers
  <2>2. /\ call' = [call EXCEPT ![c] = Null]
        /\ clock' = clock /\ fresh' = fresh /\ left' = left
    BY <1>4 DEF Answers
  <2>3. Answer(kind, q, rows, made).query = q
    BY DEF Answer
  <2>4. \A d \in Clients : call'[d] # Null => CallFits(call'[d], clock')
    BY <2>2, CallsFit
  <2>5. DOMAIN answer' = Clients /\ \A d \in Clients : answer'[d] # Null => answer'[d].query \in Queries
    BY <1>3, <2>1, <2>3, CallsFit
  <2>6. QED
    BY <1>2, <2>2, <2>4, <2>5, CallsFit, CallsFitNext
<1>5. CASE BuildsNext(c)
  <2> DEFINE rest == Tail(items)
             made == call[c].made + 1
             b == Build(q, rest, call[c].begun, made)
  <2>1. /\ q.op = "create_many" /\ Len(items) > 1
        /\ call' = [call EXCEPT ![c] = b]
        /\ fresh' = fresh + 1
        /\ clock' = clock /\ left' = left /\ answer' = answer
    BY <1>5 DEF BuildsNext
  <2>2. items \in Seq(Given(q)) /\ call[c].made \in Nat
    BY <1>3 DEF CallFits, BuiltFrom, Query
  <2>3. call[c].made + Len(items) = Len(Inputs(q))
    BY <1>3 DEF CallFits, BuiltFrom, Query
  <2>4. \A i \in 1 .. Len(items) : items[i] = Inputs(q)[call[c].made + i]
    BY <1>3 DEF CallFits, BuiltFrom, Query
  <2>5. /\ rest \in Seq(Given(q))
        /\ Len(rest) = Len(items) - 1
        /\ \A i \in 1 .. Len(items) - 1 : rest[i] = items[i + 1]
    BY <2>1, <2>2
  <2>6. \A i \in 1 .. Len(rest) : rest[i] = Inputs(q)[made + i]
    <3>1. TAKE i \in 1 .. Len(rest)
    <3>2. i \in 1 .. Len(items) - 1 /\ i + 1 \in 1 .. Len(items)
      BY <2>2, <2>5
    <3>3. rest[i] = items[i + 1] /\ items[i + 1] = Inputs(q)[call[c].made + (i + 1)]
      BY <2>4, <2>5, <3>2
    <3>4. call[c].made + (i + 1) = (call[c].made + 1) + i
      BY <2>2, <3>2
    <3>5. QED
      BY <3>3, <3>4
  <2>7. made + Len(rest) = Len(Inputs(q)) /\ made \in Nat
    BY <2>2, <2>3, <2>5
  <2>8. fresh \in Nat
    BY CallsFit
  <2>9. /\ DOMAIN b = Fields
        /\ b.query = q /\ b.begun = call[c].begun /\ b.now = clock
        /\ b.records = << >>
        /\ BuiltFrom(b)
    <3>1. q.op # "create_many" \/ rest = << >> => made = 0
      <4>1. Len(rest) > 0
        BY <2>1, <2>2, <2>5
      <4> HIDE DEF rest
      <4>2. rest # << >>
        BY <4>1
      <4>3. QED
        BY <2>1, <4>2
    <3>2. rest \in Seq(Given(q)) /\ made \in Nat
      BY <2>5, <2>7
    <3> HIDE DEF rest, made, q
    <3>3. QED
      BY <2>6, <2>7, <2>8, <3>1, <3>2, BuildIsBuilt
  <2> HIDE DEF b
  <2>10. call[c].begun \in 0 .. clock /\ clock \in Nat
    BY <1>3, CallsFit, GeneratedClientAssumption DEF CallFits
  <2>11. CallFits(b, clock)
    BY <1>3, <2>9, <2>10, EmptyIsList DEF CallFits
  <2>12. \A d \in Clients : call'[d] # Null => CallFits(call'[d], clock')
    BY <2>1, <2>11, CallsFit
  <2>13. QED
    BY <1>2, <2>1, <2>8, <2>12, CallsFit, CallsFitNext
<1>6. CASE Loads(c)
  <2>1. PICK s \in Seq(tables[q.model]) : call' = [call EXCEPT ![c].records = s]
    BY <1>6 DEF Loads
  <2>2. /\ q.include
        /\ UNCHANGED <<tables, clock, fresh, left, answer>>
    BY <1>6 DEF Loads
  <2> DEFINE b == [call[c] EXCEPT !.records = s]
  <2>3. /\ DOMAIN b = Fields
        /\ b.query = q /\ b.begun = call[c].begun /\ b.now = call[c].now
        /\ b.made = call[c].made /\ b.items = call[c].items /\ b.row = call[c].row
        /\ b.records = s
    BY <1>3 DEF CallFits, Fields, Query
  <2>4. IsList(s)
    BY DEF IsList
  <2>5. call' = [call EXCEPT ![c] = b]
    BY <2>1
  <2> HIDE DEF b
  <2>6. CallFits(b, clock)
    BY <1>3, <2>2, <2>3, <2>4 DEF CallFits, BuiltFrom, Query
  <2>7. \A d \in Clients : call'[d] # Null => CallFits(call'[d], clock')
    BY <2>2, <2>5, <2>6, CallsFit
  <2>8. QED
    BY <1>2, <2>2, <2>5, <2>7, CallsFit, CallsFitNext
<1>7. QED
  BY <1>1, <1>4, <1>5, <1>6 DEF CallEffect

LEMMA ExecKeeps ==
  ASSUME IInv, NEW c \in Clients, Exec(c)
  PROVE  IInv'
<1>1. PICK q \in Queries :
        /\ call' = [call EXCEPT ![c] = Build(q, Inputs(q), clock, 0)]
        /\ fresh' = IF Inputs(q) = << >> THEN fresh ELSE fresh + 1
  BY DEF Exec
<1>2. /\ left > 0 /\ left' = left - 1
      /\ answer' = [answer EXCEPT ![c] = Null]
      /\ tables' = tables /\ clock' = clock
  BY DEF Exec
<1>3. /\ fresh \in Nat /\ left \in 0 .. MaxCalls /\ clock \in 0 .. MaxClock
      /\ MaxCalls \in Nat /\ MaxClock \in Nat
  BY CallsFit, GeneratedClientAssumption
<1> DEFINE items == Inputs(q)
           b == Build(q, items, clock, 0)
<1>4. items \in Seq(Given(q))
  BY InputsFit
<1>5. 0 + Len(items) = Len(Inputs(q)) /\ \A i \in 1 .. Len(items) : items[i] = Inputs(q)[0 + i]
  BY <1>4
<1>6. /\ DOMAIN b = Fields
      /\ b.query = q /\ b.begun = clock /\ b.now = clock
      /\ b.records = << >>
      /\ BuiltFrom(b)
  <2> HIDE DEF items
  <2>1. QED
    BY <1>3, <1>4, <1>5, BuildIsBuilt
<1> HIDE DEF b
<1>7. CallFits(b, clock)
  BY <1>3, <1>6, EmptyIsList DEF CallFits
<1>8. call' = [call EXCEPT ![c] = b]
  BY <1>1 DEF b
<1>9. \A d \in Clients : call'[d] # Null => CallFits(call'[d], clock')
  BY <1>2, <1>7, <1>8, CallsFit
<1>10. fresh' \in Nat /\ left' \in 0 .. MaxCalls
  BY <1>1, <1>2, <1>3
<1>11. QED
  BY <1>2, <1>8, <1>9, <1>10, CallsFit, CallsFitNext

LEMMA TickKeeps ==
  ASSUME IInv, Tick
  PROVE  IInv'
<1>1. clock' \in 0 .. MaxClock /\ clock \in Nat /\ clock' = clock + 1
  BY CallsFit, GeneratedClientAssumption DEF Tick
<1>2. ASSUME NEW b, CallFits(b, clock)
      PROVE  CallFits(b, clock')
  BY <1>1, <1>2 DEF CallFits
<1>3. QED
  BY <1>1, <1>2, CallsFit, CallsFitNext DEF Tick

LEMMA InitHolds == Init => IInv
<1> SUFFICES ASSUME Init PROVE IInv
  OBVIOUS
<1>1. DOMAIN tables = Models /\ \A m \in Models : Keyed(m, tables[m])
  BY GeneratedClientAssumption DEF Init
<1>2. clock \in 0 .. MaxClock /\ fresh \in Nat /\ left \in 0 .. MaxCalls
  BY GeneratedClientAssumption DEF Init
<1>3. /\ DOMAIN call = Clients /\ \A c \in Clients : call[c] = Null
      /\ DOMAIN answer = Clients /\ \A c \in Clients : answer[c] = Null
  BY DEF Init
<1>4. QED
  BY <1>1, <1>2, <1>3, CallsFit

LEMMA NextKeeps == IInv /\ [Next]_vars => IInv'
<1> SUFFICES ASSUME IInv, [Next]_vars PROVE IInv'
  OBVIOUS
<1>1. CASE UNCHANGED vars
  BY <1>1, CallsFit, CallsFitNext DEF vars
<1>2. CASE Next
  BY <1>2, TickKeeps, ExecKeeps, StepKeeps DEF Next
<1>3. QED
  BY <1>1, <1>2

LEMMA Invariant == Spec => []IInv
BY InitHolds, NextKeeps, PTL DEF Spec

\* Whatever the calls and however they interleave, the rows of every table keep
\* their columns and their unique keys, and every waiting call the clock of its
\* statement.
THEOREM ClientTypes == Spec => []TypeOK
<1>1. IInv => TypeOK
  BY DEF IInv
<1>2. QED
  BY <1>1, Invariant, PTL

-----------------------------------------------------------------------------
(* What a step may not do.                                                 *)

\* A row that is new in a table was written by the call that made the step.
LEMMA RowsWritten ==
  ASSUME IInv, NEW c \in Clients, Step(c), NEW m \in Models, NEW r \in tables'[m] \ tables[m]
  PROVE  /\ Query(c).model = m
         /\ call'[c] # call[c]
         /\ \/ Inserts(c) /\ r = call[c].row
            \/ /\ Updates(c)
               /\ \E old \in tables[m] : r = SetRow(m, Query(c).set, call[c].now, old)
<1> DEFINE n == Query(c).model
<1>1. call[c] # Null /\ TablesEffect(c) /\ CallEffect(c)
  BY StepEffects
<1>2. DOMAIN tables = Models /\ DOMAIN call = Clients /\ n \in Models /\ CallFits(call[c], clock)
  BY <1>1, CallsFit, OneInput
<1>3. tables' # tables
  OBVIOUS
<1>4. call'[c] # call[c]
  <2>1. CASE Answers(c)
    BY <1>1, <1>2, <2>1 DEF Answers
  <2>2. CASE BuildsNext(c)
    <3>1. call'[c].made = call[c].made + 1
      BY <1>2, <2>2 DEF BuildsNext, Build
    <3>2. call[c].made \in Nat
      BY <1>2 DEF CallFits, BuiltFrom
    <3>3. QED
      BY <3>1, <3>2
  <2>3. CASE Loads(c)
    BY <1>3, <2>3 DEF Loads
  <2>4. QED
    BY <1>1, <2>1, <2>2, <2>3 DEF CallEffect
<1>5. CASE Inserts(c)
  BY <1>2, <1>4, <1>5 DEF Inserts
<1>6. CASE Updates(c)
  <2>1. PICK matched \in SUBSET tables[n] :
          tables' = [tables EXCEPT ![n] = Updated(n, tables[n], matched, Query(c).set, call[c].now)]
    BY <1>6 DEF Updates
  <2>2. n = m /\ r \in Updated(n, tables[n], matched, Query(c).set, call[c].now)
    BY <1>2, <2>1
  <2>3. QED
    BY <1>4, <1>6, <2>2 DEF Updated
<1>7. CASE Deletes(c)
  BY <1>2, <1>7 DEF Deletes
<1>8. QED
  BY <1>1, <1>3, <1>5, <1>6, <1>7 DEF TablesEffect

\* A row that appears or changes carries in its @updatedAt columns the clock of
\* the statement that wrote it.
THEOREM StampedChanges == Spec => ChangesAreStamped
<1> DEFINE Stamped == \A m \in Models : \A r \in tables'[m] \ tables[m] : \A col \in Meta[m].updatedAt :
         \E c \in Clients :
            /\ call[c] # Null /\ Query(c).model = m
            /\ call'[c] # call[c]
            /\ r[col] = call[c].now /\ r[col] \in call[c].begun .. clock
<1>1. ASSUME IInv, NEW c \in Clients, Step(c)
      PROVE  Stamped
  <2>1. SUFFICES ASSUME NEW m \in Models, NEW r \in tables'[m] \ tables[m], NEW col \in Meta[m].updatedAt
                 PROVE  r[col] = call[c].now /\ call[c] # Null /\ Query(c).model = m /\ call'[c] # call[c]
    BY <1>1, StepEffects, CallsFit DEF CallFits
  <2>2. /\ Query(c).model = m
        /\ call'[c] # call[c]
        /\ \/ Inserts(c) /\ r = call[c].row
           \/ /\ Updates(c)
              /\ \E old \in tables[m] : r = SetRow(m, Query(c).set, call[c].now, old)
    BY <1>1, RowsWritten
  <2>3. call[c] # Null /\ Query(c) \in Queries
    BY <1>1, StepEffects, OneInput
  <2>4. CASE Inserts(c) /\ r = call[c].row
    BY <1>1, <2>2, <2>3, <2>4, RowOfInput DEF Inserts
  <2>5. CASE Updates(c) /\ \E old \in tables[m] : r = SetRow(m, Query(c).set, call[c].now, old)
    <3>1. PICK old \in tables[m] : r = SetRow(m, Query(c).set, call[c].now, old)
      BY <2>5
    <3>2. DOMAIN old = Columns(m)
      BY <1>1, CallsFit DEF Keyed
    <3>3. DOMAIN Query(c).set \subseteq Meta[m].settable
      BY <2>2, <2>3, <2>5, SetsFit DEF Updates
    <3>4. QED
      BY <2>2, <2>3, <3>1, <3>2, <3>3, SetRowKeepsId
  <2>6. QED
    BY <2>2, <2>4, <2>5
<1>2. ASSUME UNCHANGED tables
      PROVE  Stamped
  BY <1>2
<1>3. IInv /\ [Next]_vars => Stamped
  BY <1>1, <1>2 DEF Next, vars, Tick, Exec
<1>4. QED
  BY <1>3, Invariant, PTL DEF Spec, ChangesAreStamped

\* Only the call that makes the step is answered, and it is one of c's own.
LEMMA OneAnswer ==
  ASSUME IInv, NEW c \in Clients, Step(c), NEW d \in Clients, answer'[d] # answer[d]
  PROVE  d = c
<1>1. DOMAIN answer = Clients /\ CallEffect(c)
  BY CallsFit, StepEffects
<1>2. QED
  BY <1>1 DEF CallEffect, Answers, BuildsNext, Loads

LEMMA Answered ==
  IInv /\ [Next]_vars => \A c \in Clients :
      answer'[c] # answer[c] /\ answer'[c] # Null => Step(c)
<1> SUFFICES ASSUME IInv, [Next]_vars, NEW c \in Clients, answer'[c] # answer[c], answer'[c] # Null
             PROVE  Step(c)
  OBVIOUS
<1>1. CASE \E d \in Clients : Step(d)
  BY <1>1, OneAnswer
<1>2. CASE Tick \/ UNCHANGED vars
  BY <1>2 DEF Tick, vars
<1>3. CASE \E d \in Clients : Exec(d)
  BY <1>3, CallsFit DEF Exec
<1>4. QED
  BY <1>1, <1>2, <1>3 DEF Next

LEMMA ReturnsOne ==
  ASSUME IInv, NEW c \in Clients, NEW kind, NEW rows, NEW made, Returns(c, kind, rows, made)
  PROVE  /\ answer'[c].kind \in {kind, "error"}
         /\ answer'[c].made = made
         /\ answer'[c].query = Query(c)
         /\ answer'[c].kind = kind => answer'[c].rows = rows
BY CallsFit DEF Returns, Answer

\* What a step answers tells which step it was.
LEMMA IncludedLoads ==
  ASSUME IInv, NEW c \in Clients, Step(c), answer'[c] # answer[c], answer'[c].kind = "included"
  PROVE  LoadRelation(c)
<1>1. ASSUME NEW kind, NEW rows, NEW made, Returns(c, kind, rows, made)
      PROVE  kind = "included"
  BY <1>1, ReturnsOne
<1>2. QED
  BY <1>1
     DEF Step, Create, CreateNothing, CreateRefused, CreateIgnore, Upsert, Update, UpdateFirst,
         UpdateMany, UpdateRefused, Delete, Find, CountRows, AggregateRows, GroupRows, ConnectionFails

LEMMA LastOne ==
  ASSUME NEW S, NEW s \in Seq(S), s # << >>, Tail(s) = << >>
  PROVE  Len(s) = 1
<1> DEFINE t == Tail(s)
<1>1. Len(t) = Len(s) - 1 /\ Len(s) \in Nat
  BY HeadTailProperties
<1>2. t = << >>
  OBVIOUS
<1> HIDE DEF t
<1>3. Len(t) = 0
  BY <1>2
<1>4. QED
  BY <1>1, <1>3

\* create_many inserts its items in order and stops at the first that is
\* refused: Ok means all of them, and an error leaves those before that one.
THEOREM BatchesInOrder == Spec => BatchInOrder
<1> DEFINE InOrder(c) ==
         LET items == Query(c).items
             made == answer'[c].made
         IN  /\ call[c] # Null /\ answer'[c] # answer[c] /\ answer'[c] # Null
             /\ Query(c).op = "create_many"
             => /\ answer'[c].kind = "ok" => made = Len(items)
                /\ answer'[c].kind = "refused" =>
                      /\ made < Len(items)
                      /\ \A f \in DOMAIN items[made + 1] : call[c].row[f] = items[made + 1][f]
<1>1. ASSUME IInv, [Next]_vars, NEW c \in Clients
      PROVE  InOrder(c)
  <2> DEFINE items == Query(c).items
  <2> SUFFICES ASSUME call[c] # Null, answer'[c] # answer[c], answer'[c] # Null,
                      Query(c).op = "create_many"
               PROVE  /\ answer'[c].kind = "ok" => answer'[c].made = Len(items)
                      /\ answer'[c].kind = "refused" =>
                            /\ answer'[c].made < Len(items)
                            /\ \A f \in DOMAIN items[answer'[c].made + 1] :
                                  call[c].row[f] = items[answer'[c].made + 1][f]
    OBVIOUS
  <2>1. Step(c)
    BY <1>1, Answered
  <2>2. Inputs(Query(c)) = items
    BY DEF Inputs
  <2>3. /\ call[c].made \in Nat
        /\ call[c].items = << >> => call[c].made = 0
        /\ call[c].items \in Seq(Given(Query(c)))
        /\ call[c].made + Len(call[c].items) = Len(items)
    BY <1>1, <2>2, CallsFit DEF CallFits, BuiltFrom, Query
  <2>4. CASE Create(c)
    <3>1. \/ Returns(c, "ok", {call[c].row}, call[c].made + 1) /\ Tail(call[c].items) = << >>
          \/ answer' = answer
      BY <2>4 DEF Create
    <3>2. call[c].items # << >>
      BY <2>4 DEF Create
    <3>3. /\ answer'[c].kind \in {"ok", "error"}
          /\ answer'[c].made = call[c].made + 1
          /\ Tail(call[c].items) = << >>
      BY <1>1, <3>1, ReturnsOne
    <3>4. Len(call[c].items) = 1
      BY <2>3, <3>2, <3>3, LastOne
    <3>5. QED
      BY <2>3, <3>3, <3>4
  <2>5. CASE CreateNothing(c)
    <3>1. Returns(c, "ok", {}, 0) /\ call[c].items = << >>
      BY <2>5 DEF CreateNothing
    <3>2. answer'[c].kind \in {"ok", "error"} /\ answer'[c].made = 0
      BY <1>1, <3>1, ReturnsOne
    <3>3. Len(items) = 0
      BY <2>3, <3>1, EmptyIsList
    <3>4. QED
      BY <3>2, <3>3
  <2>6. CASE CreateRefused(c)
    <3>1. Returns(c, "refused", {}, call[c].made) /\ call[c].items # << >>
      BY <2>6 DEF CreateRefused
    <3>2. answer'[c].kind \in {"refused", "error"} /\ answer'[c].made = call[c].made
      BY <1>1, <3>1, ReturnsOne
    <3>3. /\ \A f \in DOMAIN call[c].items[1] : call[c].row[f] = call[c].items[1][f]
          /\ call[c].items[1] = items[call[c].made + 1]
          /\ call[c].made < Len(items)
      BY <1>1, <2>2, <3>1, RowOfInput
    <3>4. QED
      BY <3>2, <3>3
  <2>7. CASE ConnectionFails(c)
    <3>1. answer'[c].kind = "error"
      BY <1>1, <2>7, ReturnsOne DEF ConnectionFails
    <3>2. QED
      BY <3>1
  <2>8. QED
    BY <2>1, <2>4, <2>5, <2>6, <2>7
       DEF Step, CreateIgnore, Upsert, Update, UpdateFirst, UpdateMany, UpdateRefused, Delete,
           Find, LoadRelation, CountRows, AggregateRows, GroupRows, Runs, Query
<1> HIDE DEF InOrder
<1>2. IInv /\ [Next]_vars => \A c \in Clients : InOrder(c)
  BY <1>1
<1>3. QED
  BY <1>2, Invariant, PTL DEF Spec, BatchInOrder, InOrder

\* An upsert that is refused was refused because of another row than the one it
\* names or of a parent that is missing, if the row it creates bears that name;
\* or, on PostgreSQL, because it has nothing to set.
THEOREM UpsertsMeetTheirRow ==
  ASSUME UpsertsNameTheirRow
  PROVE  Spec => UpsertMeetsItsRow
<1> DEFINE Meets(c) ==
         UpsertRefused(c) => OthersForbid(c) \/ AmbiguousSet(Query(c).model, Query(c).set)
<1>1. ASSUME IInv, [Next]_vars, NEW c \in Clients
      PROVE  Meets(c)
  <2> DEFINE q == Query(c)
             m == q.model
             set == q.set
             now == call[c].now
             row == call[c].row
             rows == tables[m]
             named == Named(q.unique, rows)
             met == {r \in rows : Agree(ConflictTarget(q.unique), r, row)}
  <2> SUFFICES ASSUME call[c] # Null, answer'[c] # answer[c], answer'[c] # Null,
                      answer'[c].kind = "refused", q.op = "upsert", ~AmbiguousSet(m, set)
               PROVE  \E x \in {row} \cup {SetRow(m, set, now, r) : r \in named} :
                        Clashes(m, rows \ named, x) # {} \/ Dangles(tables, m, x)
    BY DEF UpsertRefused, OthersForbid
  <2>1. Upsert(c)
    <3>1. Step(c)
      BY <1>1, Answered
    <3>2. ~ConnectionFails(c)
      BY <1>1, ReturnsOne DEF ConnectionFails
    <3>3. QED
      BY <3>1, <3>2
         DEF Step, Create, CreateNothing, CreateRefused, CreateIgnore, Update, UpdateFirst, UpdateMany,
             UpdateRefused, Delete, Find, LoadRelation, CountRows, AggregateRows, GroupRows, Runs, Query
  <2>2. \/ met = {} /\ (Clashes(m, rows, row) # {} \/ Dangles(tables, m, row))
        \/ /\ met # {}
           /\ UpdateClashes(m, rows, met, set, now) # {} \/ UpdateDangles(tables, m, met, set, now)
    BY <1>1, <2>1, ReturnsOne DEF Upsert
  <2>3. q \in Queries /\ m \in Models /\ Keyed(m, rows) /\ call[c].items # << >>
    BY <1>1, OneInput, CallsFit
  <2>4. \A k \in DOMAIN q.unique : row[k] = q.unique[k] /\ row[k] # Null
    <3>1. /\ \A k \in DOMAIN call[c].items[1] : row[k] = call[c].items[1][k]
          /\ call[c].items[1] = Inputs(q)[call[c].made + 1]
      BY <1>1, <2>3, RowOfInput
    <3>2. call[c].made = 0
      BY <1>1, CallsFit DEF CallFits, BuiltFrom, Query
    <3>3. call[c].items[1] = q.data
      BY <3>1, <3>2 DEF Inputs
    <3>4. QED
      BY <2>3, <3>1, <3>3 DEF UpsertsNameTheirRow
  <2>5. met = named
    BY <2>4 DEF Named, Agree, ConflictTarget
  <2>6. \A r, s \in named : r.id = s.id
    <3>1. DOMAIN q.unique \in Meta[m].unique
      BY <2>3, ArgumentsGiven
    <3>2. \A r, s \in named : Agree(DOMAIN q.unique, r, s)
      BY <2>4 DEF Named, Agree
    <3>3. QED
      BY <2>3, <3>1, <3>2 DEF Keyed, Named
  <2> HIDE DEF met, named, q, m, set, now, row, rows
  <2>7. CASE met = {} /\ (Clashes(m, rows, row) # {} \/ Dangles(tables, m, row))
    <3>1. rows \ named = rows
      BY <2>5, <2>7
    <3>2. QED
      BY <2>7, <3>1
  <2>8. CASE UpdateDangles(tables, m, met, set, now)
    BY <2>5, <2>8 DEF UpdateDangles
  <2>9. CASE UpdateClashes(m, rows, met, set, now) # {}
    <3>1. PICK key \in Meta[m].unique :
            \E r, s \in Updated(m, rows, met, set, now) : r.id # s.id /\ Agree(key, r, s)
      BY <2>9 DEF UpdateClashes
    <3>2. PICK r \in Updated(m, rows, met, set, now), s \in Updated(m, rows, met, set, now) :
            r.id # s.id /\ Agree(key, r, s)
      BY <3>1
    <3>3. ASSUME NEW t \in rows \ named, NEW x \in {SetRow(m, set, now, o) : o \in named},
                 Agree(key, t, x) \/ Agree(key, x, t)
          PROVE  Clashes(m, rows \ named, x) # {}
      BY <3>1, <3>3 DEF Clashes, Agree
    <3>4. ~(r \in rows \ named /\ s \in rows \ named)
      BY <2>3, <3>1, <3>2 DEF Keyed
    <3>5. ~(r \in {SetRow(m, set, now, o) : o \in named} /\ s \in {SetRow(m, set, now, o) : o \in named})
      <4>1. DOMAIN set \subseteq Meta[m].settable
        BY <2>3, ArgumentsGiven, SetsFit DEF set, m
      <4>2. \A o \in named : DOMAIN o = Columns(m)
        BY <2>3 DEF Keyed, named, Named
      <4>3. \A o \in named : SetRow(m, set, now, o).id = o.id
        BY <2>3, <4>1, <4>2, SetRowKeepsId
      <4>4. QED
        BY <2>6, <3>2, <4>3
    <3>6. QED
      BY <2>5, <3>2, <3>3, <3>4, <3>5 DEF Updated
  <2>10. QED
    BY <2>2, <2>7, <2>8, <2>9
<1> HIDE DEF Meets
<1>2. IInv /\ [Next]_vars => \A c \in Clients : Meets(c)
  BY <1>1
<1>3. QED
  BY <1>2, Invariant, PTL DEF Spec, UpsertMeetsItsRow, Meets

\* Of the records of a find, the first that has the key of record i.
LEMMA FirstOfKey ==
  ASSUME NEW rel, NEW records, IsList(records), NEW i \in DOMAIN records
  PROVE  \E j \in DOMAIN records :
            records[j][rel.mine] = records[i][rel.mine] /\ ~Taken(rel, records, j)
<1> DEFINE same == {j \in DOMAIN records : records[j][rel.mine] = records[i][rel.mine]}
<1>1. DOMAIN records = 1 .. Len(records) /\ Len(records) \in Nat
  BY DEF IsList
<1>2. same \subseteq Nat /\ i \in same
  BY <1>1
<1> HIDE DEF same
<1>3. PICK j \in same : \A k \in same : <<k, j>> \notin OpToRel(<, Nat)
  BY <1>2, NatLessThanWellFounded, WFMin
<1>4. \A k \in same : ~(k < j)
  BY <1>2, <1>3 DEF OpToRel
<1>5. \A k \in 1 .. j - 1 : k \in DOMAIN records /\ k < j
  BY <1>1 DEF same
<1>6. ~Taken(rel, records, j)
  BY <1>4, <1>5 DEF Taken, same
<1>7. QED
  BY <1>6 DEF same

\* Whatever happens between the two queries of an include, no record comes with
\* a row of another record, and every row that some record points to when the
\* second query runs comes with a record of its key.
THEOREM IncludesBelong == Spec => IncludedBelongs
<1> DEFINE Belongs(c) ==
         /\ call[c] # Null /\ answer'[c] # answer[c] /\ answer'[c] # Null
         /\ answer'[c].kind = "included"
         => LET rel == Meta[Query(c).model].relation IN
            \A p \in answer'[c].rows :
                /\ \A r \in p.related : r[rel.theirs] = p.data[rel.mine]
                /\ \A r \in Mine(rel, tables[rel.model], p.data) :
                      \E o \in answer'[c].rows : r \in o.related
<1>1. ASSUME IInv, [Next]_vars, NEW c \in Clients
      PROVE  Belongs(c)
  <2> DEFINE rel == Meta[Query(c).model].relation
             records == call[c].records
             related == Related(tables[rel.model], rel, records)
             pairs == {[data |-> records[i], related |-> Attached(rel, related, records, i)]
                         : i \in DOMAIN records}
  <2> SUFFICES ASSUME call[c] # Null, answer'[c] # answer[c], answer'[c] # Null,
                      answer'[c].kind = "included"
               PROVE  \A p \in answer'[c].rows :
                        /\ \A r \in p.related : r[rel.theirs] = p.data[rel.mine]
                        /\ \A r \in Mine(rel, tables[rel.model], p.data) :
                              \E o \in answer'[c].rows : r \in o.related
    OBVIOUS
  <2>1. LoadRelation(c)
    BY <1>1, Answered, IncludedLoads
  <2>2. answer'[c].rows = pairs
    BY <1>1, <2>1, ReturnsOne DEF LoadRelation
  <2>3. IsList(records)
    BY <1>1, CallsFit DEF CallFits
  <2> HIDE DEF records, rel
  <2>4. ASSUME NEW i \in DOMAIN records
        PROVE  /\ \A r \in Attached(rel, related, records, i) : r[rel.theirs] = records[i][rel.mine]
               /\ \E j \in DOMAIN records : \A r \in Mine(rel, tables[rel.model], records[i]) :
                     r \in Attached(rel, related, records, j)
    <3>1. \A r \in Attached(rel, related, records, i) : r[rel.theirs] = records[i][rel.mine]
      BY DEF Attached, Mine
    <3>2. PICK j \in DOMAIN records :
            records[j][rel.mine] = records[i][rel.mine] /\ ~Taken(rel, records, j)
      BY <2>3, FirstOfKey
    <3>3. \A r \in Mine(rel, tables[rel.model], records[i]) : r \in Attached(rel, related, records, j)
      BY <3>2 DEF Attached, Mine, Related
    <3>4. QED
      BY <3>1, <3>3
  <2> HIDE DEF related
  <2>5. SUFFICES ASSUME NEW p \in pairs
                 PROVE  /\ \A r \in p.related : r[rel.theirs] = p.data[rel.mine]
                        /\ \A r \in Mine(rel, tables[rel.model], p.data) :
                              \E o \in pairs : r \in o.related
    BY <2>2
  <2>6. PICK i \in DOMAIN records :
          p = [data |-> records[i], related |-> Attached(rel, related, records, i)]
    OBVIOUS
  <2>7. PICK j \in DOMAIN records : \A r \in Mine(rel, tables[rel.model], records[i]) :
          r \in Attached(rel, related, records, j)
    BY <2>4
  <2>8. [data |-> records[j], related |-> Attached(rel, related, records, j)] \in pairs
    OBVIOUS
  <2>9. QED
    BY <2>4, <2>6, <2>7, <2>8
<1> HIDE DEF Belongs
<1>2. IInv /\ [Next]_vars => \A c \in Clients : Belongs(c)
  BY <1>1
<1>3. QED
  BY <1>2, Invariant, PTL DEF Spec, IncludedBelongs, Belongs

\* A condition that asks for equality holds of that value, NULL for NULL.
LEMMA EqualsHolds ==
  ASSUME NEW k, NEW x, NEW v
  PROVE  Holds(Condition(k, "equals", x), v) <=> v = x
BY DEF Holds, Condition

LEMMA FoundIfAllHold ==
  ASSUME NEW own, NEW r
  PROVE  Found(Leaf(own), r) <=> \A x \in own : Holds(x, r[x.col])
BY DEF Found, AllHold, Leaf, Where

\* The groups of a GROUP BY are the rows that were asked for: a filter on its
\* key finds a group again, a NULL key by asking for NULL, and without HAVING no
\* row is left out.
THEOREM GroupsFound == Spec => GroupsAreFound
<1> DEFINE Groups(c) ==
         LET q == Query(c)
             found == FindMany(tables[q.model], q.where)
             Again(g) == {r \in found :
                            Found(Leaf({Condition(k, "equals", g.key[k]) : k \in q.keys}), r)}
         IN  /\ call[c] # Null /\ answer'[c] # answer[c] /\ answer'[c] # Null
             /\ answer'[c].kind = "ok" /\ q.op = "group_by"
             => /\ \A g \in answer'[c].rows : g.count = Cardinality(Again(g))
                /\ q.having = {} => UNION {Again(g) : g \in answer'[c].rows} = found
<1>1. ASSUME IInv, [Next]_vars, NEW c \in Clients
      PROVE  Groups(c)
  <2> DEFINE q == Query(c)
             found == FindMany(tables[q.model], q.where)
             Again(g) == {r \in found :
                            Found(Leaf({Condition(k, "equals", g.key[k]) : k \in q.keys}), r)}
             Group(b) == [key |-> [k \in q.keys |-> (CHOOSE r \in b : TRUE)[k]], count |-> Cardinality(b)]
             buckets == GroupBy(tables[q.model], q.where, q.keys, q.having)
  <2> SUFFICES ASSUME call[c] # Null, answer'[c] # answer[c], answer'[c] # Null,
                      answer'[c].kind = "ok", q.op = "group_by"
               PROVE  /\ \A g \in answer'[c].rows : g.count = Cardinality(Again(g))
                      /\ q.having = {} => UNION {Again(g) : g \in answer'[c].rows} = found
    OBVIOUS
  <2>1. GroupRows(c)
    <3>1. Step(c)
      BY <1>1, Answered
    <3>2. ~ConnectionFails(c)
      BY <1>1, ReturnsOne DEF ConnectionFails
    <3>3. QED
      BY <3>1, <3>2
         DEF Step, Create, CreateNothing, CreateRefused, CreateIgnore, Upsert, Update, UpdateFirst,
             UpdateMany, UpdateRefused, Delete, Find, LoadRelation, CountRows, AggregateRows, Runs, Query
  <2>2. answer'[c].rows = {Group(b) : b \in buckets}
    BY <1>1, <2>1, ReturnsOne DEF GroupRows
  <2>3. ASSUME NEW b \in Buckets(found, q.keys)
        PROVE  Again(Group(b)) = b /\ Group(b).count = Cardinality(b)
    <3> DEFINE first == CHOOSE r \in b : TRUE
    <3>1. PICK r \in found : b = {s \in found : \A k \in q.keys : s[k] = r[k]}
      BY DEF Buckets
    <3>2. r \in b
      BY <3>1
    <3>3. first \in b
      BY <3>2
    <3> DEFINE key == [k \in q.keys |-> first[k]]
    <3>4. Group(b).key = key /\ Group(b).count = Cardinality(b)
      OBVIOUS
    <3>5. \A k \in q.keys : key[k] = r[k]
      BY <3>1, <3>3
    <3> HIDE DEF key, first, found
    <3>6. \A s \in found : s \in Again(Group(b)) <=> \A k \in q.keys : s[k] = key[k]
      <4>1. TAKE s \in found
      <4> HIDE DEF Group, q
      <4>2. Found(Leaf({Condition(k, "equals", Group(b).key[k]) : k \in q.keys}), s)
              <=> \A k \in q.keys : s[k] = Group(b).key[k]
        <5> DEFINE own == {Condition(k, "equals", Group(b).key[k]) : k \in q.keys}
        <5>1. /\ \A k \in q.keys : Condition(k, "equals", Group(b).key[k]) \in own
              /\ \A x \in own : \E k \in q.keys : x = Condition(k, "equals", Group(b).key[k])
          OBVIOUS
        <5> HIDE DEF own
        <5>2. \A k : Condition(k, "equals", Group(b).key[k]).col = k
          BY DEF Condition
        <5>3. Found(Leaf(own), s) <=> \A x \in own : Holds(x, s[x.col])
          BY FoundIfAllHold
        <5>4. QED
          BY <5>1, <5>2, <5>3, EqualsHolds DEF own
      <4>3. QED
        BY <3>4, <4>2
    <3>7. Again(Group(b)) \subseteq found
      OBVIOUS
    <3> HIDE DEF Again, Group
    <3>8. \A s \in found : s \in Again(Group(b)) <=> s \in b
      BY <3>1, <3>5, <3>6
    <3>9. QED
      BY <3>1, <3>4, <3>7, <3>8
  <2>4. buckets \subseteq Buckets(found, q.keys)
    BY DEF GroupBy
  <2>5. q.having = {} => buckets = Buckets(found, q.keys)
    BY DEF GroupBy
  <2>6. ASSUME NEW r \in found
        PROVE  \E b \in Buckets(found, q.keys) : r \in b
    <3> HIDE DEF found, q
    <3>1. {s \in found : \A k \in q.keys : s[k] = r[k]} \in Buckets(found, q.keys)
      BY DEF Buckets
    <3>2. QED
      BY <3>1
  <2>7. \A b \in Buckets(found, q.keys) : b \subseteq found
    BY DEF Buckets
  <2> HIDE DEF Again, Group, buckets, found, q
  <2>8. \A g \in answer'[c].rows : g.count = Cardinality(Again(g))
    BY <2>2, <2>3, <2>4
  <2>9. ASSUME q.having = {}
        PROVE  UNION {Again(g) : g \in answer'[c].rows} = found
    <3>1. \A g \in answer'[c].rows : Again(g) \subseteq found
      BY DEF Again
    <3>2. ASSUME NEW r \in found
          PROVE  \E g \in answer'[c].rows : r \in Again(g)
      BY <2>2, <2>3, <2>5, <2>6, <2>9
    <3>3. QED
      BY <3>1, <3>2
  <2>10. QED
    BY <2>8, <2>9
<1> HIDE DEF Groups
<1>2. IInv /\ [Next]_vars => \A c \in Clients : Groups(c)
  BY <1>1
<1>3. QED
  BY <1>2, Invariant, PTL DEF Spec, GroupsAreFound, Groups

-----------------------------------------------------------------------------
(* update_first as a compare-and-swap.                                     *)

\* A row of m waits to be inserted by c.
Pending(c, m) == call[c] # Null /\ Query(c).model = m /\ call[c].items # << >>

\* Ids that are drawn are new, to the table and to the other rows that wait.
IdsDrawn(m) ==
    /\ \A r \in tables[m] : r.id \in Nat /\ r.id < fresh
    /\ \A c \in Clients : Pending(c, m) =>
         /\ call[c].row.id \in Nat /\ call[c].row.id < fresh
         /\ \A r \in tables[m] : r.id # call[c].row.id
    /\ \A c, d \in Clients : c # d /\ Pending(c, m) /\ Pending(d, m)
            => call[c].row.id # call[d].row.id

Won(c) == answer[c] # Null /\ answer[c].kind = "ok" /\ CompareAndSwap(answer[c].query)

\* The condition a compare-and-swap ends.
Ended(q) == CHOOSE x \in q.where.own : Ends(q, x)

\* The row of this id does not meet the condition of q any more, and never will.
Over(q, id) ==
    /\ id \in Nat /\ id < fresh
    /\ \A d \in Clients : Pending(d, q.model) => call[d].row.id # id
    /\ \A t \in tables[q.model] : t.id = id => ~Holds(Ended(q), t[Ended(q).col])

WinsLast == \A c \in Clients : Won(c) => \A r \in answer[c].rows : Over(answer[c].query, r.id)

WInv ==
    /\ IInv
    /\ \A m \in Models : DrawsIds(m) => IdsDrawn(m)
    /\ WinsLast
    /\ OneWinner

LEMMA EndedEnds ==
  ASSUME NeverMovesBack, NEW q \in Queries, CompareAndSwap(q)
  PROVE  /\ Ended(q) \in q.where.own /\ Ends(q, Ended(q))
         /\ DrawsIds(q.model) /\ q.model \in Models
BY GeneratedClientAssumption DEF NeverMovesBack, Ended

\* A row that is built draws its id.
LEMMA BuildDrawsId ==
  ASSUME NEW q \in Queries, DrawsIds(q.model), NEW i \in 1 .. Len(Inputs(q)),
         NEW now \in Nat, NEW f \in Nat
  PROVE  CreatedRow(q.model, Inputs(q)[i], now, f).id = f
<1>1. /\ q.model \in Models /\ Inputs(q) \in Seq(Given(q))
      /\ DataFits(q.model, Inputs(q)[i])
  BY InputsFit
<1>2. "id" \notin DOMAIN Inputs(q)[i]
  BY <1>1 DEF DrawsIds
<1>3. QED
  BY <1>1, <1>2, CreatedRowHasId

\* The rows after a step are those before it, the row the call waited to insert
\* and the rows it updated, which keep their ids.
LEMMA RowsAfter ==
  ASSUME IInv, NEW c \in Clients, Step(c), NEW m \in Models, NEW r \in tables'[m]
  PROVE  \/ r \in tables[m]
         \/ Pending(c, m) /\ Inserts(c) /\ r = call[c].row
         \/ /\ Query(c).model = m /\ Updates(c)
            /\ \E old \in tables[m] : r = SetRow(m, Query(c).set, call[c].now, old) /\ r.id = old.id
<1> SUFFICES ASSUME r \notin tables[m]
             PROVE  \/ Pending(c, m) /\ Inserts(c) /\ r = call[c].row
                    \/ /\ Query(c).model = m /\ Updates(c)
                       /\ \E old \in tables[m] :
                            r = SetRow(m, Query(c).set, call[c].now, old) /\ r.id = old.id
  OBVIOUS
<1>1. Query(c).model = m /\ call[c] # Null /\ Query(c) \in Queries
  BY RowsWritten, StepEffects, OneInput
<1>2. CASE Inserts(c) /\ r = call[c].row
  BY <1>1, <1>2 DEF Inserts, Pending
<1>3. CASE Updates(c) /\ \E old \in tables[m] : r = SetRow(m, Query(c).set, call[c].now, old)
  <2>1. PICK old \in tables[m] : r = SetRow(m, Query(c).set, call[c].now, old)
    BY <1>3
  <2>2. DOMAIN old = Columns(m)
    BY CallsFit DEF Keyed
  <2>3. DOMAIN Query(c).set \subseteq Meta[m].settable
    BY <1>1, <1>3, SetsFit DEF Updates
  <2>4. r.id = old.id
    BY <2>1, <2>2, <2>3, SetRowKeepsId
  <2>5. QED
    BY <1>1, <1>3, <2>1, <2>4
<1>4. QED
  BY <1>2, <1>3, RowsWritten

LEMMA SecondOfList ==
  ASSUME NEW S, NEW s \in Seq(S), Len(s) > 1
  PROVE  Tail(s) # << >> /\ Head(Tail(s)) = s[2]
<1> DEFINE t == Tail(s)
<1>1. t \in Seq(S) /\ Len(t) > 0 /\ t[1] = s[2]
  OBVIOUS
<1> HIDE DEF t
<1>2. t # << >> /\ Head(t) = t[1]
  BY <1>1
<1>3. QED
  BY <1>1, <1>2 DEF t

\* The rows that wait after a step waited before it, but the next row of a
\* batch, which is made with the next id.
LEMMA PendingAfter ==
  ASSUME IInv, NEW c \in Clients, Step(c), NEW m \in Models, DrawsIds(m),
         NEW d \in Clients, Pending(d, m)'
  PROVE  /\ Pending(d, m)
         /\ \/ d # c /\ call'[d].row = call[d].row
            \/ d = c /\ UNCHANGED tables /\ call'[d].row = call[d].row
            \/ d = c /\ call'[d].row.id = fresh /\ fresh' = fresh + 1
<1>1. /\ DOMAIN call = Clients /\ call[c] # Null /\ CallEffect(c) /\ CallFits(call[c], clock)
      /\ Query(c) \in Queries /\ fresh \in Nat /\ clock \in Nat
  BY StepEffects, OneInput, CallsFit, GeneratedClientAssumption
<1>2. CASE d # c
  <2>1. call'[d] = call[d]
    BY <1>1, <1>2 DEF CallEffect, Answers, BuildsNext, Loads
  <2>2. QED
    BY <1>2, <2>1 DEF Pending, Query
<1>3. CASE d = c /\ Answers(c)
  BY <1>1, <1>3 DEF Answers, Pending
<1>4. CASE d = c /\ Loads(c)
  <2>1. PICK s : call' = [call EXCEPT ![c].records = s]
    BY <1>4 DEF Loads
  <2>2. /\ call'[c].query = call[c].query
        /\ call'[c].items = call[c].items
        /\ call'[c].row = call[c].row
    BY <1>1, <2>1 DEF CallFits, Fields
  <2>3. QED
    BY <1>1, <1>4, <2>2 DEF Loads, Pending, Query
<1>5. CASE d = c /\ BuildsNext(c)
  <2> DEFINE q == Query(c)
             items == call[c].items
             b == Build(q, Tail(items), call[c].begun, call[c].made + 1)
  <2>1. /\ call' = [call EXCEPT ![c] = b]
        /\ fresh' = fresh + 1
        /\ Len(items) > 1
    BY <1>5 DEF BuildsNext
  <2>2. call'[c] = b /\ b.query = q
    BY <1>1, <2>1 DEF Build
  <2>3. q.model = m
    BY <1>5, <2>2 DEF Pending, Query
  <2>4. /\ items \in Seq(Given(q)) /\ call[c].made \in Nat
        /\ call[c].made + Len(items) = Len(Inputs(q))
        /\ items[2] = Inputs(q)[call[c].made + 2]
    BY <1>1, <2>1 DEF CallFits, BuiltFrom, Query
  <2>5. Tail(items) # << >> /\ Head(Tail(items)) = items[2]
    BY <2>1, <2>4, SecondOfList
  <2>6. b.row = CreatedRow(m, items[2], clock, fresh)
    BY <2>3, <2>5 DEF Build
  <2>7. call[c].made + 2 \in 1 .. Len(Inputs(q))
    BY <2>1, <2>4
  <2>8. b.row.id = fresh
    <3>1. \A i \in 1 .. Len(Inputs(q)) : CreatedRow(q.model, Inputs(q)[i], clock, fresh).id = fresh
      BY <1>1, <2>3, BuildDrawsId
    <3>2. QED
      BY <2>3, <2>4, <2>6, <2>7, <3>1
  <2>9. items # << >>
    BY <2>1, EmptyIsList
  <2>10. Pending(c, m)
    BY <1>1, <2>3, <2>9 DEF Pending
  <2> HIDE DEF b
  <2>11. QED
    BY <1>5, <2>1, <2>2, <2>8, <2>10
<1>6. QED
  BY <1>1, <1>2, <1>3, <1>4, <1>5 DEF CallEffect

\* A step keeps or moves on the next id.
LEMMA FreshAfter ==
  ASSUME IInv, NEW c \in Clients, Step(c)
  PROVE  fresh \in Nat /\ fresh' \in Nat /\ fresh <= fresh'
<1>1. fresh \in Nat /\ CallEffect(c)
  BY StepEffects, CallsFit
<1>2. fresh' \in {fresh, fresh + 1}
  BY <1>1 DEF CallEffect, Answers, BuildsNext, Loads
<1>3. QED
  BY <1>1, <1>2

LEMMA IdsAfterStep ==
  ASSUME IInv, NEW c \in Clients, Step(c), NEW m \in Models, DrawsIds(m), IdsDrawn(m)
  PROVE  IdsDrawn(m)'
<1>1. fresh \in Nat /\ fresh' \in Nat /\ fresh <= fresh'
  BY FreshAfter
<1>2. ASSUME NEW r \in tables'[m]
      PROVE  /\ r.id \in Nat /\ r.id < fresh
             /\ \/ \E old \in tables[m] : r.id = old.id
                \/ Pending(c, m) /\ tables' # tables /\ r.id = call[c].row.id
  <2>1. CASE r \in tables[m]
    BY <2>1 DEF IdsDrawn
  <2>2. CASE r \notin tables[m]
    BY <2>2, RowsAfter DEF IdsDrawn
  <2>3. QED
    BY <2>1, <2>2
<1>3. ASSUME NEW d \in Clients, Pending(d, m)'
      PROVE  /\ call'[d].row.id \in Nat /\ call'[d].row.id < fresh'
             /\ \A r \in tables'[m] : r.id # call'[d].row.id
  <2>1. Pending(d, m)
    BY <1>3, PendingAfter
  <2>2. CASE d # c /\ call'[d].row = call[d].row
    BY <1>1, <1>2, <2>1, <2>2 DEF IdsDrawn
  <2>3. CASE d = c /\ UNCHANGED tables /\ call'[d].row = call[d].row
    BY <1>1, <2>1, <2>3 DEF IdsDrawn
  <2>4. CASE d = c /\ call'[d].row.id = fresh /\ fresh' = fresh + 1
    BY <1>1, <1>2, <2>4
  <2>5. QED
    BY <1>3, <2>2, <2>3, <2>4, PendingAfter
<1>4. ASSUME NEW d \in Clients, NEW e \in Clients, d # e, Pending(d, m)', Pending(e, m)'
      PROVE  call'[d].row.id # call'[e].row.id
  <2>1. /\ Pending(d, m) /\ Pending(e, m)
        /\ \/ call'[d].row = call[d].row
           \/ d = c /\ call'[d].row.id = fresh
        /\ \/ call'[e].row = call[e].row
           \/ e = c /\ call'[e].row.id = fresh
    BY <1>4, PendingAfter
  <2>2. /\ call[d].row.id # call[e].row.id
        /\ call[d].row.id \in Nat /\ call[d].row.id < fresh
        /\ call[e].row.id \in Nat /\ call[e].row.id < fresh
    BY <1>4, <2>1 DEF IdsDrawn
  <2>3. QED
    BY <1>1, <1>4, <2>1, <2>2
<1>5. QED
  BY <1>1, <1>2, <1>3, <1>4 DEF IdsDrawn

LEMMA OverStays ==
  ASSUME NeverMovesBack, IInv, NEW c \in Clients, Step(c),
         NEW q \in Queries, CompareAndSwap(q), NEW id, Over(q, id)
  PROVE  Over(q, id)'
<1> DEFINE m == q.model
           x == Ended(q)
           set == Query(c).set
<1>1. Ends(q, x) /\ DrawsIds(m) /\ m \in Models
  BY EndedEnds
<1>2. id \in Nat /\ id < fresh /\ fresh \in Nat /\ fresh' \in Nat /\ fresh <= fresh'
  BY FreshAfter DEF Over
<1>3. ASSUME NEW d \in Clients, Pending(d, m)'
      PROVE  call'[d].row.id # id
  BY <1>1, <1>2, <1>3, PendingAfter DEF Over
<1>4. ASSUME NEW t \in tables'[m], t.id = id
      PROVE  ~Holds(x, t[x.col])
  <2>1. CASE t \in tables[m]
    BY <1>4, <2>1 DEF Over
  <2>2. CASE Pending(c, m) /\ Inserts(c) /\ t = call[c].row
    BY <1>4, <2>2 DEF Over
  <2>3. CASE /\ Query(c).model = m /\ Updates(c)
             /\ \E old \in tables[m] : t = SetRow(m, set, call[c].now, old) /\ t.id = old.id
    <3>1. PICK old \in tables[m] : t = SetRow(m, set, call[c].now, old) /\ t.id = old.id
      BY <2>3
    <3>2. ~Holds(x, old[x.col])
      BY <1>4, <3>1 DEF Over
    <3>3. /\ Query(c) \in Queries /\ "set" \in DOMAIN Query(c)
          /\ DOMAIN set \subseteq Meta[m].settable
      BY <2>3, StepEffects, OneInput, SetsFit DEF Updates
    <3>4. x.col \in Columns(m) /\ x.col \notin Meta[m].updatedAt
      <4>1. "set" \in DOMAIN q
        BY ArgumentsGiven DEF CompareAndSwap
      <4>2. x.col \in Meta[m].settable
        BY <1>1, <4>1, SetsFit DEF Ends
      <4>3. QED
        BY <1>1, <4>2, ModelQueriesAssumption
    <3>5. x.col \in DOMAIN set => ~Holds(x, set[x.col])
      BY <1>1, <2>3, <3>3 DEF Ends
    <3>6. DOMAIN old = Columns(m)
      BY <1>1, CallsFit DEF Keyed
    <3> HIDE DEF x, m, set
    <3>7. t[x.col] = IF x.col \in DOMAIN set THEN set[x.col] ELSE old[x.col]
      BY <1>1, <3>1, <3>3, <3>4, <3>6, SetRowKeepsId
    <3>8. QED
      BY <3>2, <3>5, <3>7
  <2>4. QED
    BY <1>1, <2>1, <2>2, <2>3, RowsAfter
<1>5. QED
  BY <1>2, <1>3, <1>4 DEF Over

\* A call that wins updates a row that met the condition, and ends it.
LEMMA WinIsOver ==
  ASSUME NeverMovesBack, IInv, NEW c \in Clients, Step(c),
         \A m \in Models : DrawsIds(m) => IdsDrawn(m),
         answer'[c] # answer[c], Won(c)', NEW r \in answer'[c].rows
  PROVE  \E q \in Queries :
           /\ answer'[c].query = q
           /\ Over(q, r.id)'
           /\ \E old \in tables[q.model] : old.id = r.id /\ Found(q.where, old)
<1>1. PICK q \in Queries : q = Query(c) /\ answer'[c].query = q /\ q.model \in Models /\ call[c] # Null
  <2>1. answer'[c].query = Query(c)
    BY StepEffects, CallsFit DEF CallEffect, Answers, BuildsNext, Loads, Answer
  <2>2. QED
    BY <2>1, StepEffects, OneInput
<1> DEFINE m == q.model
           x == Ended(q)
           rows == tables[m]
<1>2. CompareAndSwap(q) /\ answer'[c].kind = "ok" /\ answer'[c] # Null
  BY <1>1 DEF Won
<1>3. q.op = "update_first"
  BY <1>2 DEF CompareAndSwap
<1>4. UpdateFirst(c) \/ UpdateRefused(c) \/ ConnectionFails(c)
  BY <1>1, <1>3
     DEF Step, Create, CreateNothing, CreateRefused, CreateIgnore, Upsert, Update, UpdateMany,
         Delete, Find, LoadRelation, CountRows, AggregateRows, GroupRows, Runs, Query
<1>5. UpdateFirst(c)
  BY <1>1, <1>2, <1>3, <1>4, ReturnsOne DEF UpdateRefused, ConnectionFails, Query
<1>6. PICK won \in After(c, Matched(c)) : Returns(c, "ok", {won}, 0)
  BY <1>2, <1>5, ReturnsOne DEF UpdateFirst
<1>7. r = won
  BY <1>2, <1>6, ReturnsOne
<1>8. PICK old \in Matched(c) : r = SetRow(m, q.set, call[c].now, old)
  BY <1>1, <1>6, <1>7 DEF After
<1>9. old \in rows /\ Found(q.where, old)
  BY <1>1, <1>3, <1>8 DEF Matched, FindMany
<1>10. tables' = [tables EXCEPT ![m] = Updated(m, rows, Matched(c), q.set, call[c].now)]
  BY <1>1, <1>5 DEF UpdateFirst, UpdateRows, Changes
<1>11. r \in tables'[m] /\ Keyed(m, tables'[m])
  <2>1. DOMAIN tables = Models /\ m \in Models
    BY <1>1, CallsFit
  <2>2. r \in Updated(m, rows, Matched(c), q.set, call[c].now)
    BY <1>8 DEF Updated
  <2>3. Keyed(m, tables'[m])
    BY <1>1, StepKeeps, CallsFitNext
  <2> HIDE DEF rows, m
  <2>4. QED
    BY <1>1, <1>10, <2>1, <2>2, <2>3
<1>12. Ends(q, x) /\ DrawsIds(m)
  BY <1>1, <1>2, EndedEnds
<1>13. "set" \in DOMAIN q /\ DOMAIN q.set \subseteq Meta[m].settable
  BY <1>1, <1>3, ArgumentsGiven, SetsFit
<1>14. DOMAIN old = Columns(m)
  BY <1>1, <1>9, CallsFit DEF Keyed
<1>15. r.id = old.id /\ r[x.col] = q.set[x.col] /\ ~Holds(x, q.set[x.col])
  <2>1. x.col \in DOMAIN q.set /\ ~Holds(x, q.set[x.col]) /\ m \in Models
    BY <1>1, <1>12 DEF Ends
  <2> HIDE DEF x, m
  <2>2. QED
    BY <1>1, <1>8, <1>13, <1>14, <2>1, SetRowKeepsId
<1>16. old.id \in Nat /\ old.id < fresh /\ UNCHANGED fresh
  <2>1. IdsDrawn(m)
    BY <1>1, <1>12
  <2>2. QED
    BY <1>6, <1>9, <2>1 DEF IdsDrawn, Returns
<1>17. ASSUME NEW d \in Clients, Pending(d, m)'
       PROVE  call'[d].row.id # r.id
  <2>1. Pending(d, m) /\ (call'[d].row = call[d].row \/ call'[d].row.id = fresh)
    BY <1>1, <1>12, <1>17, PendingAfter
  <2>2. \A o \in rows : o.id # call[d].row.id
    BY <1>1, <1>12, <2>1 DEF IdsDrawn
  <2>3. QED
    BY <1>9, <1>15, <1>16, <2>1, <2>2
<1>18. \A t \in tables'[m] : t.id = r.id => ~Holds(x, t[x.col])
  BY <1>11, <1>15 DEF Keyed
<1>19. Over(q, r.id)'
  BY <1>15, <1>16, <1>17, <1>18, <1>1 DEF Over
<1>20. QED
  BY <1>1, <1>9, <1>15, <1>19

LEMMA StepKeepsWins ==
  ASSUME NeverMovesBack, WInv, NEW c \in Clients, Step(c)
  PROVE  WInv'
<1>1. IInv' /\ \A m \in Models : DrawsIds(m) => IdsDrawn(m)'
  BY StepKeeps, IdsAfterStep DEF WInv
<1>2. \A d \in Clients : d # c => answer'[d] = answer[d]
  BY OneAnswer DEF WInv
<1>3. ASSUME NEW d \in Clients, Won(d), answer'[d] = answer[d], NEW r \in answer[d].rows
      PROVE  \E q \in Queries : answer[d].query = q /\ CompareAndSwap(q) /\ Over(q, r.id) /\ Over(q, r.id)'
  <2>1. PICK q \in Queries : answer[d].query = q /\ CompareAndSwap(q)
    BY <1>3, CallsFit DEF Won, WInv
  <2>2. Over(q, r.id)
    BY <1>3, <2>1 DEF WInv, WinsLast
  <2>3. QED
    BY <2>1, <2>2, OverStays DEF WInv
<1>4. ASSUME Won(c)', answer'[c] # answer[c], NEW r \in answer'[c].rows
      PROVE  \E q \in Queries :
               /\ answer'[c].query = q /\ CompareAndSwap(q)
               /\ Over(q, r.id)'
               /\ \E old \in tables[q.model] : old.id = r.id /\ Found(q.where, old)
  BY <1>4, WinIsOver DEF WInv, Won
<1>5. WinsLast'
  <2>1. SUFFICES ASSUME NEW d \in Clients, Won(d)', NEW r \in answer'[d].rows
                 PROVE  Over(answer[d].query, r.id)'
    BY DEF WinsLast
  <2>2. CASE answer'[d] = answer[d]
    BY <1>3, <2>1, <2>2 DEF Won
  <2>3. CASE answer'[d] # answer[d]
    BY <1>2, <1>4, <2>1, <2>3
  <2>4. QED
    BY <2>2, <2>3
<1>6. ASSUME NEW d \in Clients, d # c, Won(d)', Won(c)', answer'[c] # answer[c],
             answer'[c].query = answer'[d].query,
             NEW r \in answer'[c].rows, NEW s \in answer'[d].rows
      PROVE  r.id # s.id
  <2>1. PICK q \in Queries :
          /\ answer'[c].query = q /\ CompareAndSwap(q)
          /\ \E old \in tables[q.model] : old.id = r.id /\ Found(q.where, old)
    BY <1>4, <1>6
  <2>2. PICK old \in tables[q.model] : old.id = r.id /\ Found(q.where, old)
    BY <2>1
  <2>3. Over(q, s.id)
    BY <1>2, <1>3, <1>6, <2>1 DEF Won
  <2>4. Ended(q) \in q.where.own
    BY <2>1, EndedEnds
  <2>5. Holds(Ended(q), old[Ended(q).col])
    BY <2>2, <2>4 DEF Found, AllHold
  <2>6. QED
    BY <2>2, <2>3, <2>5 DEF Over
<1>7. OneWinner'
  <2>1. SUFFICES ASSUME NEW d \in Clients, NEW e \in Clients, d # e, Won(d)', Won(e)',
                        answer'[d].query = answer'[e].query,
                        NEW r \in answer'[d].rows, NEW s \in answer'[e].rows
                 PROVE  r.id # s.id
    BY DEF OneWinner, Won
  <2>2. CASE answer'[d] = answer[d] /\ answer'[e] = answer[e]
    BY <2>1, <2>2 DEF WInv, OneWinner, Won
  <2>3. CASE answer'[d] # answer[d]
    BY <1>2, <1>6, <2>1, <2>3
  <2>4. CASE answer'[e] # answer[e]
    <3>1. e = c
      BY <1>2, <2>4
    <3>2. s.id # r.id
      BY <1>6, <2>1, <2>4, <3>1
    <3>3. QED
      BY <3>2
  <2>5. QED
    BY <2>2, <2>3, <2>4
<1>8. QED
  BY <1>1, <1>5, <1>7 DEF WInv

\* A call that begins waits with the row of the next id.
LEMMA ExecKeepsWins ==
  ASSUME NeverMovesBack, WInv, NEW c \in Clients, Exec(c)
  PROVE  WInv'
<1>1. /\ IInv' /\ UNCHANGED tables
      /\ DOMAIN call = Clients /\ DOMAIN answer = Clients
      /\ fresh \in Nat /\ clock \in Nat /\ call[c] = Null
      /\ answer' = [answer EXCEPT ![c] = Null]
  <2>1. IInv /\ IInv'
    BY ExecKeeps DEF WInv
  <2>2. /\ DOMAIN call = Clients /\ DOMAIN answer = Clients
        /\ fresh \in Nat /\ clock \in Nat
    BY <2>1, CallsFit
  <2>3. QED
    BY <2>1, <2>2 DEF Exec
<1>2. PICK q \in Queries :
        /\ call' = [call EXCEPT ![c] = Build(q, Inputs(q), clock, 0)]
        /\ fresh' = IF Inputs(q) = << >> THEN fresh ELSE fresh + 1
  BY DEF Exec
<1>3. fresh' \in Nat /\ fresh <= fresh'
  BY <1>1, <1>2
<1>4. ASSUME NEW m \in Models, DrawsIds(m), NEW d \in Clients, Pending(d, m)'
      PROVE  \/ d # c /\ Pending(d, m) /\ call'[d].row = call[d].row
             \/ d = c /\ call'[d].row.id = fresh /\ fresh' = fresh + 1
  <2>1. CASE d # c
    BY <1>1, <1>2, <1>4, <2>1 DEF Pending, Query
  <2>2. CASE d = c
    <3> DEFINE b == Build(q, Inputs(q), clock, 0)
    <3>1. call'[c] = b
      BY <1>1, <1>2
    <3>2. b.query = q /\ b.items = Inputs(q)
      BY DEF Build
    <3>3. q.model = m /\ Inputs(q) # << >>
      BY <1>4, <2>2, <3>1, <3>2 DEF Pending, Query
    <3>4. b.row = CreatedRow(m, Inputs(q)[1], clock, fresh)
      <4>1. Head(Inputs(q)) = Inputs(q)[1]
        BY <3>3, InputsFit
      <4>2. QED
        BY <3>3, <4>1 DEF Build
    <3>5. 1 \in 1 .. Len(Inputs(q))
      BY <3>3, InputsFit
    <3>6. CreatedRow(q.model, Inputs(q)[1], clock, fresh).id = fresh
      BY <1>1, <1>4, <3>3, <3>5, BuildDrawsId
    <3> HIDE DEF b
    <3>7. QED
      BY <1>2, <2>2, <3>1, <3>3, <3>4, <3>6
  <2>3. QED
    BY <2>1, <2>2
<1>5. ASSUME NEW m \in Models, DrawsIds(m)
      PROVE  IdsDrawn(m)'
  <2>1. IdsDrawn(m)
    BY <1>5 DEF WInv
  <2>2. ASSUME NEW d \in Clients, Pending(d, m)'
        PROVE  /\ call'[d].row.id \in Nat /\ call'[d].row.id < fresh'
               /\ \A r \in tables'[m] : r.id # call'[d].row.id
    BY <1>1, <1>3, <1>4, <1>5, <2>1, <2>2 DEF IdsDrawn
  <2>3. ASSUME NEW d \in Clients, NEW e \in Clients, d # e, Pending(d, m)', Pending(e, m)'
        PROVE  call'[d].row.id # call'[e].row.id
    BY <1>1, <1>4, <1>5, <2>1, <2>3 DEF IdsDrawn
  <2>4. QED
    BY <1>1, <1>3, <2>1, <2>2, <2>3 DEF IdsDrawn
<1>6. WinsLast'
  <2>1. SUFFICES ASSUME NEW d \in Clients, Won(d)', NEW r \in answer'[d].rows
                 PROVE  Over(answer[d].query, r.id)'
    BY DEF WinsLast
  <2>2. answer'[d] = answer[d]
    BY <1>1, <2>1 DEF Won
  <2>3. PICK p \in Queries : answer[d].query = p /\ CompareAndSwap(p)
    BY <2>1, <2>2, CallsFit DEF Won, WInv
  <2>4. Over(p, r.id)
    BY <2>1, <2>2, <2>3 DEF WInv, WinsLast, Won
  <2>5. DrawsIds(p.model) /\ p.model \in Models
    BY <2>3, EndedEnds
  <2>6. Over(p, r.id)'
    BY <1>1, <1>3, <1>4, <2>4, <2>5 DEF Over
  <2>7. QED
    BY <2>2, <2>3, <2>6
<1>7. OneWinner'
  BY <1>1 DEF WInv, OneWinner
<1>8. QED
  BY <1>1, <1>5, <1>6, <1>7 DEF WInv

LEMMA WinsInvariant ==
  ASSUME NeverMovesBack
  PROVE  Spec => []WInv
<1>1. Init => WInv
  <2> SUFFICES ASSUME Init PROVE WInv
    OBVIOUS
  <2>1. IInv /\ (\A c \in Clients : call[c] = Null /\ answer[c] = Null) /\ fresh = FirstId
    BY InitHolds DEF Init
  <2>2. ASSUME NEW m \in Models, DrawsIds(m)
        PROVE  IdsDrawn(m)
    BY <2>1, <2>2 DEF IdsDrawn, DrawsIds, Pending, Init
  <2>3. WinsLast /\ OneWinner
    BY <2>1 DEF WinsLast, OneWinner, Won
  <2>4. QED
    BY <2>1, <2>2, <2>3 DEF WInv
<1>2. WInv /\ [Next]_vars => WInv'
  <2> SUFFICES ASSUME WInv, [Next]_vars PROVE WInv'
    OBVIOUS
  <2>1. CASE Tick \/ UNCHANGED vars
    <3>1. UNCHANGED <<tables, fresh, call, answer>>
      BY <2>1 DEF Tick, vars
    <3>2. IInv'
      BY NextKeeps DEF WInv
    <3>3. QED
      BY <3>1, <3>2 DEF WInv, IdsDrawn, WinsLast, OneWinner, Over, Won, Pending, Query
  <2>2. CASE \E c \in Clients : Exec(c)
    BY <2>2, ExecKeepsWins
  <2>3. CASE \E c \in Clients : Step(c)
    BY <2>3, StepKeepsWins
  <2>4. QED
    BY <2>1, <2>2, <2>3 DEF Next
<1>3. QED
  BY <1>1, <1>2, PTL DEF Spec

\* update_first as a compare-and-swap has one winner: whatever the other calls
\* do meanwhile, two tasks are never both told that they made the same
\* transition on a row, if no call moves a row back into the state the
\* transition leaves.
THEOREM SwapsHaveOneWinner ==
  ASSUME NeverMovesBack
  PROVE  Spec => []OneWinner
<1>1. WInv => OneWinner
  BY DEF WInv
<1>2. QED
  BY <1>1, WinsInvariant, PTL
=============================================================================
