-------------------------- MODULE GeneratedClient --------------------------
(***************************************************************************)
(* Tasks that use one generated client on one database.                    *)
(*                                                                         *)
(* exec() builds its statement at once, with the values, the defaults and  *)
(* the clock of that moment, and then waits for the database.  Every       *)
(* statement is atomic there; what is not is the call: create_many is a    *)
(* loop of inserts, a find with an include a query per relation, and       *)
(* between building a statement and running it anything may happen.        *)
(***************************************************************************)
EXTENDS ModelQueries

CONSTANTS
    Clients,
    Queries,        \* the calls the tasks choose from
    Seeds,          \* the tables the database may begin with
    FirstId,        \* uuid() gives FirstId, FirstId + 1, ...
    MaxCalls,       \* bound: calls of all tasks together
    MaxClock        \* bound: clock ticks

-----------------------------------------------------------------------------
(* The calls the types of a generated module let a program write.          *)

WhereFits(m, w) ==
    \A x \in w.own \cup UNION {y.own : y \in w.and \cup w.or \cup w.not} :
        /\ x.op \in Operators(Meta[m].filters[x.col])
        /\ x.arg = Null => MayAskForNull(Meta[m].filters[x.col])

DataFits(m, data) ==
    LET defaults == Meta[m].defaults
    IN  /\ DOMAIN data \subseteq DOMAIN defaults
        /\ \A c \in DOMAIN defaults : defaults[c] = <<"given">> => c \in DOMAIN data
        /\ "id" \in DOMAIN data => data["id"] # Null

\* What each builder is given.
Arguments ==
    [create |-> {"data"}, create_many |-> {"items"}, on_conflict_ignore |-> {"data"},
     upsert |-> {"unique", "data", "set"}, update |-> {"unique", "set"},
     update_first |-> {"where", "set"}, update_many |-> {"where", "set"},
     delete |-> {"unique"}, delete_many |-> {"where"},
     find_unique |-> {"unique", "select", "include"},
     find_first |-> {"where", "orders", "select", "include"},
     find_many |-> {"where", "orders", "take", "skip", "select", "include"},
     count |-> {"where"}, aggregate |-> {"where", "ops"}, group_by |-> {"where", "keys", "having"}]

IsList(s) == s \in Seq({s[i] : i \in DOMAIN s})

\* One line for each argument a call may have; take and skip are not negative.
Admitted(q) ==
    LET meta == Meta[q.model]
        Has(field) == field \in DOMAIN q
    IN  /\ q.op \in DOMAIN Arguments
        /\ DOMAIN q = {"op", "model"} \cup Arguments[q.op]
        /\ Has("where") => WhereFits(q.model, q.where)
        /\ Has("unique") => DOMAIN q.unique \in meta.unique
        /\ Has("data") => DataFits(q.model, q.data)
        /\ Has("items") => IsList(q.items) /\ \A i \in DOMAIN q.items : DataFits(q.model, q.items[i])
        /\ Has("set") => DOMAIN q.set \subseteq meta.settable
        /\ Has("orders") => \A i \in DOMAIN q.orders : q.orders[i][1] \in meta.orders
        /\ Has("take") => {q.take, q.skip} \subseteq Nat \cup {Null}
        /\ Has("include") => q.include \in BOOLEAN
        /\ Has("select") => q.select \subseteq meta.select
        /\ Has("keys") => q.keys \subseteq meta.keys
        /\ Has("ops") => q.ops \subseteq meta.aggregates
        /\ Has("having") => \A h \in q.having : <<h.fn, h.condition.col>> \in meta.having

\* Rows as the database keeps them: their ids tell them apart, and so does
\* every other unique key.
Keyed(m, rows) ==
    /\ IsFiniteSet(rows)
    /\ \A r \in rows : DOMAIN r = Columns(m) /\ r.id # Null
    /\ \A r, s \in rows : r # s => r.id # s.id /\ \A key \in Meta[m].unique : ~Agree(key, r, s)

ASSUME GeneratedClientAssumption ==
    /\ \A q \in Queries : q.model \in Models /\ Admitted(q)
    /\ \A t \in Seeds : DOMAIN t = Models /\ \A m \in Models : Keyed(m, t[m])
    /\ FirstId \in Nat
    /\ MaxCalls \in Nat
    /\ MaxClock \in Nat
    /\ Null \notin Nat

VARIABLES
    tables,     \* model -> rows
    clock,      \* Utc::now()
    fresh,      \* the next uuid
    left,       \* calls still to be made
    call,       \* task -> the call it waits for, or Null
    answer      \* task -> what its last call returned, or Null

vars == <<tables, clock, fresh, left, call, answer>>

Init ==
    /\ tables \in Seeds
    /\ clock = 0
    /\ fresh = FirstId
    /\ left = MaxCalls
    /\ call = [c \in Clients |-> Null]
    /\ answer = [c \in Clients |-> Null]

Query(c) == call[c].query
Runs(c, ops) == call[c] # Null /\ call[c].query.op \in ops

\* exec() up to its first await: a create input becomes a row, a create_many
\* begins with its first one.
Inputs(q) == IF q.op = "create_many" THEN q.items
             ELSE IF q.op \in {"create", "on_conflict_ignore", "upsert"} THEN <<q.data>>
             ELSE << >>

\* items are the inputs still to be inserted, row is made of the first of them.
Build(q, items, begun, made) ==
    [query |-> q, begun |-> begun, now |-> clock, made |-> made, items |-> items,
     row |-> IF items = << >> THEN Null ELSE CreatedRow(q.model, Head(items), clock, fresh),
     records |-> << >>]

Exec(c) ==
    /\ call[c] = Null
    /\ left > 0
    /\ \E q \in Queries :
         /\ call' = [call EXCEPT ![c] = Build(q, Inputs(q), clock, 0)]
         /\ fresh' = IF Inputs(q) = << >> THEN fresh ELSE fresh + 1
    /\ left' = left - 1
    /\ answer' = [answer EXCEPT ![c] = Null]
    /\ UNCHANGED <<tables, clock>>

Answer(kind, query, rows, made) == [kind |-> kind, query |-> query, rows |-> rows, made |-> made]

\* The call of c ends.  An answer may be lost on its way: FerriormError all the
\* same, after the statement took effect.
Returns(c, kind, rows, made) ==
    /\ call' = [call EXCEPT ![c] = Null]
    /\ \E k \in {kind, "error"} :
           answer' = [answer EXCEPT ![c] =
               Answer(k, Query(c), IF k = kind THEN rows ELSE {}, made)]
    /\ UNCHANGED <<clock, fresh, left>>

Changes(m, rows) == tables' = [tables EXCEPT ![m] = rows]

-----------------------------------------------------------------------------
(* Inserts                                                                 *)

\* INSERT .. RETURNING *, by create and by each round of create_many.
Create(c) ==
    /\ Runs(c, {"create", "create_many"})
    /\ call[c].items # << >>
    /\ LET m == Query(c).model
           row == call[c].row
           rest == Tail(call[c].items)
       IN  /\ Clashes(m, tables[m], row) = {} /\ ~Dangles(tables, m, row)
           /\ Changes(m, tables[m] \cup {row})
           /\ \/ /\ rest = << >>
                 /\ Returns(c, "ok", {row}, call[c].made + 1)
              \/ /\ rest # << >>
                 /\ call' = [call EXCEPT ![c] = Build(Query(c), rest, @.begun, @.made + 1)]
                 /\ fresh' = fresh + 1
                 /\ UNCHANGED <<clock, left, answer>>

\* create_many of nothing asks the database nothing.
CreateNothing(c) ==
    /\ Runs(c, {"create_many"})
    /\ call[c].items = << >>
    /\ Returns(c, "ok", {}, 0)
    /\ UNCHANGED tables

\* Mutant: create_many goes on with the next item.
SkipRefused(c) ==
    /\ Runs(c, {"create", "create_many"})
    /\ call[c].items # << >>
    /\ LET m == Query(c).model IN
       Clashes(m, tables[m], call[c].row) # {} \/ Dangles(tables, m, call[c].row)
    /\ IF Tail(call[c].items) = << >>
       THEN Returns(c, IF Query(c).op = "create" THEN "refused" ELSE "ok", {}, call[c].made)
       ELSE /\ call' = [call EXCEPT ![c] = Build(Query(c), Tail(@.items), @.begun, @.made)]
            /\ fresh' = fresh + 1
            /\ UNCHANGED <<clock, left, answer>>
    /\ UNCHANGED tables

\* A unique or a foreign key is violated: the `?` of create_many ends the loop
\* and leaves what was inserted.
CreateRefused(c) ==
    /\ Runs(c, {"create", "create_many"})
    /\ call[c].items # << >>
    /\ LET m == Query(c).model
       IN  Clashes(m, tables[m], call[c].row) # {} \/ Dangles(tables, m, call[c].row)
    /\ Returns(c, "refused", {}, call[c].made)
    /\ UNCHANGED tables

\* ON CONFLICT DO NOTHING, INSERT OR IGNORE: None for a unique violation only.
CreateIgnore(c) ==
    /\ Runs(c, {"on_conflict_ignore"})
    /\ LET m == Query(c).model
           row == call[c].row
       IN  CASE Clashes(m, tables[m], row) # {} ->
                    UNCHANGED tables /\ Returns(c, "none", {}, 0)
             [] Clashes(m, tables[m], row) = {} /\ Dangles(tables, m, row) ->
                    UNCHANGED tables /\ Returns(c, "refused", {}, 0)
             [] OTHER ->
                    Changes(m, tables[m] \cup {row}) /\ Returns(c, "ok", {row}, 1)

\* ON CONFLICT (target) DO UPDATE: a conflict on another key is an error.
Upsert(c) ==
    /\ Runs(c, {"upsert"})
    /\ LET m == Query(c).model
           row == call[c].row
           target == ConflictTarget(Query(c).unique)
           met == {r \in tables[m] : Agree(target, r, row)}
           set == Query(c).set
           now == call[c].now
           forbidden ==
               IF met = {} THEN Clashes(m, tables[m], row) # {} \/ Dangles(tables, m, row)
               ELSE \/ UpdateClashes(m, tables[m], met, set, now) # {}
                    \/ UpdateDangles(tables, m, met, set, now)
       IN  CASE AmbiguousSet(m, set) \/ forbidden ->
                    UNCHANGED tables /\ Returns(c, "refused", {}, 0)
             [] ~AmbiguousSet(m, set) /\ ~forbidden /\ met = {} ->
                    Changes(m, tables[m] \cup {row}) /\ Returns(c, "ok", {row}, 1)
             [] OTHER ->
                    /\ Changes(m, Updated(m, tables[m], met, set, now))
                    /\ Returns(c, "ok", {SetRow(m, set, now, r) : r \in met}, 0)

-----------------------------------------------------------------------------
(* Updates and deletes                                                     *)

\* UPDATE .. SET .. WHERE .., after the check that there is something to set.
UpdateRows(c, matched, set) ==
    LET m == Query(c).model
        now == call[c].now
    IN  /\ ~NothingToSet(m, set)
        /\ UpdateClashes(m, tables[m], matched, set, now) = {}
        /\ ~UpdateDangles(tables, m, matched, set, now)
        /\ Changes(m, Updated(m, tables[m], matched, set, now))

Matched(c) ==
    LET q == Query(c) IN
    IF q.op = "update" THEN Named(q.unique, tables[q.model]) ELSE FindMany(tables[q.model], q.where)

After(c, matched) ==
    {SetRow(Query(c).model, Query(c).set, call[c].now, r) : r \in matched}

\* fetch_one: no row is an error.
Update(c) ==
    /\ Runs(c, {"update"})
    /\ UpdateRows(c, Matched(c), Query(c).set)
    /\ Returns(c, IF Matched(c) = {} THEN "not_found" ELSE "ok", After(c, Matched(c)), 0)

\* Mutant: the row is updated by its key, the rest of the filter is for the
\* caller to have looked at.
UpdateByKey(c) ==
    /\ Runs(c, {"update_first"})
    /\ LET w == [Query(c).where EXCEPT !.own = {x \in @ : x.col = "id"}]
           matched == FindMany(tables[Query(c).model], w)
       IN  /\ UpdateRows(c, matched, Query(c).set)
           /\ matched # {}
           /\ \E r \in After(c, matched) : Returns(c, "ok", {r}, 0)

\* fetch_optional: every row that matches is updated, one of them returned.
UpdateFirst(c) ==
    /\ Runs(c, {"update_first"})
    /\ UpdateRows(c, Matched(c), Query(c).set)
    /\ \/ Matched(c) = {} /\ Returns(c, "none", {}, 0)
       \/ \E r \in After(c, Matched(c)) : Returns(c, "ok", {r}, 0)

UpdateMany(c) ==
    /\ Runs(c, {"update_many"})
    /\ UpdateRows(c, Matched(c), Query(c).set)
    /\ Returns(c, "ok", {}, Cardinality(Matched(c)))

\* update_many with nothing to set is Ok(0), the others are errors; so is an
\* UPDATE the database refuses.
UpdateRefused(c) ==
    /\ Runs(c, {"update", "update_first", "update_many"})
    /\ LET q == Query(c)
           nothing == NothingToSet(q.model, q.set)
       IN  /\ \/ nothing
              \/ UpdateClashes(q.model, tables[q.model], Matched(c), q.set, call[c].now) # {}
              \/ UpdateDangles(tables, q.model, Matched(c), q.set, call[c].now)
           /\ Returns(c, IF nothing /\ q.op = "update_many" THEN "ok" ELSE "refused", {}, 0)
    /\ UNCHANGED tables

Doomed(c) ==
    LET q == Query(c) IN
    IF q.op = "delete" THEN Named(q.unique, tables[q.model]) ELSE FindMany(tables[q.model], q.where)

\* DELETE .. RETURNING * by key, or DELETE by filter.
Delete(c) ==
    /\ Runs(c, {"delete", "delete_many"})
    /\ LET q == Query(c) IN
       IF \E r \in Doomed(c) : PointedAt(tables, q.model, r)
       THEN UNCHANGED tables /\ Returns(c, "refused", {}, 0)
       ELSE /\ Changes(q.model, tables[q.model] \ Doomed(c))
            /\ Returns(c, IF q.op = "delete" /\ Doomed(c) = {} THEN "not_found" ELSE "ok",
                       IF q.op = "delete" THEN Doomed(c) ELSE {}, Cardinality(Doomed(c)))

-----------------------------------------------------------------------------
(* Finds                                                                   *)

\* The records a SELECT may come back with.
Records(c) ==
    LET q == Query(c)
        rows == tables[q.model]
    IN  IF q.op = "find_unique" THEN Ordered(Named(q.unique, rows), << >>)
        ELSE IF q.op = "find_first"
        THEN {Page(s, 1, Null) : s \in Ordered(FindMany(rows, q.where), q.orders)}
        ELSE {Page(s, q.take, q.skip) : s \in Ordered(FindMany(rows, q.where), q.orders)}

\* Mutant: the relations are loaded whether asked for or not.
LoadsAnyway(q) == TRUE

LoadsRelations(q) == q.include

Refused(q) == q.op = "find_many" /\ PageRefused(q.take, q.skip)

Find(c) ==
    /\ Runs(c, {"find_unique", "find_first", "find_many"})
    /\ call[c].records = << >>
    /\ LET q == Query(c) IN
       IF Refused(q) THEN Returns(c, "refused", {}, 0)
       ELSE \E s \in Records(c) :
              IF LoadsRelations(q) /\ s # << >>
              THEN /\ call' = [call EXCEPT ![c].records = s]
                   /\ UNCHANGED <<clock, fresh, left, answer>>
              ELSE Returns(c, "ok", {Partial(q.model, q.select, s[i]) : i \in DOMAIN s}, 0)
    /\ UNCHANGED tables

CountRows(c) ==
    /\ Runs(c, {"count"})
    /\ Returns(c, "ok", {}, Cardinality(FindMany(tables[Query(c).model], Query(c).where)))
    /\ UNCHANGED tables

\* "No aggregate operations specified"
AggregateRows(c) ==
    /\ Runs(c, {"aggregate"})
    /\ LET q == Query(c)
           found == FindMany(tables[q.model], q.where)
       IN  IF q.ops = {} THEN Returns(c, "refused", {}, 0)
           ELSE Returns(c, "ok", {[op |-> o, value |-> Aggregate(found, o[1], o[2])] : o \in q.ops}, 0)
    /\ UNCHANGED tables

\* "group_by() requires at least one group key"
GroupRows(c) ==
    /\ Runs(c, {"group_by"})
    /\ LET q == Query(c) IN
       IF q.keys = {} THEN Returns(c, "refused", {}, 0)
       ELSE Returns(c, "ok",
                {[key |-> [k \in q.keys |-> (CHOOSE r \in b : TRUE)[k]], count |-> Cardinality(b)]
                    : b \in GroupBy(tables[q.model], q.where, q.keys, q.having)}, 0)
    /\ UNCHANGED tables

\* load_relations: one more SELECT, on the tables as they are by now.
LoadRelation(c) ==
    /\ Runs(c, {"find_unique", "find_many"})
    /\ call[c].records # << >>
    /\ LET rel == Meta[Query(c).model].relation
           records == call[c].records
           related == Related(tables[rel.model], rel, records)
       IN  Returns(c, "included",
                   {[data |-> records[i], related |-> Attached(rel, related, records, i)]
                       : i \in DOMAIN records}, 0)
    /\ UNCHANGED tables

-----------------------------------------------------------------------------
\* The connection fails before the database has seen the statement.
ConnectionFails(c) ==
    /\ call[c] # Null
    /\ Returns(c, "error", {}, call[c].made)
    /\ UNCHANGED tables

Tick ==
    /\ clock < MaxClock
    /\ clock' = clock + 1
    /\ UNCHANGED <<tables, fresh, left, call, answer>>

Step(c) ==
    \/ Create(c) \/ CreateNothing(c) \/ CreateRefused(c) \/ CreateIgnore(c) \/ Upsert(c)
    \/ Update(c) \/ UpdateFirst(c) \/ UpdateMany(c) \/ UpdateRefused(c) \/ Delete(c)
    \/ Find(c) \/ LoadRelation(c) \/ CountRows(c) \/ AggregateRows(c) \/ GroupRows(c)
    \/ ConnectionFails(c)

Next == Tick \/ \E c \in Clients : Exec(c) \/ Step(c)

Spec == Init /\ [][Next]_vars

-----------------------------------------------------------------------------
(* Properties                                                              *)

\* The rows keep their columns and their keys, a call waits with the clock of
\* its last statement, and records wait only for relations that were asked for.
TypeOK ==
    /\ DOMAIN tables = Models /\ \A m \in Models : Keyed(m, tables[m])
    /\ clock \in 0 .. MaxClock
    /\ fresh \in Nat
    /\ left \in 0 .. MaxCalls
    /\ \A c \in Clients :
         /\ call[c] # Null =>
              /\ call[c].query \in Queries
              /\ call[c].begun \in 0 .. clock
              /\ call[c].now \in call[c].begun .. clock
              /\ Len(call[c].records) > 0 => Query(c).include
         /\ answer[c] # Null => answer[c].query \in Queries

\* A call that moves a row out of the state it asks for: its filter no longer
\* finds the row after its update.
CompareAndSwap(q) ==
    /\ q.op = "update_first"
    /\ \E x \in q.where.own : x.col \in DOMAIN q.set /\ ~Holds(x, q.set[x.col])

\* The condition such a call ends, and that no call makes true again.
Ends(q, x) ==
    /\ x.col \in DOMAIN q.set /\ ~Holds(x, q.set[x.col])
    /\ \A p \in Queries :
         p.model = q.model /\ "set" \in DOMAIN p /\ x.col \in DOMAIN p.set
            => ~Holds(x, p.set[x.col])

\* The ids of a model are drawn by the client and never given by the caller.
DrawsIds(m) ==
    /\ Meta[m].defaults["id"] = <<"uuid">>
    /\ \A q \in Queries : q.model = m =>
         \A i \in DOMAIN Inputs(q) : "id" \notin DOMAIN Inputs(q)[i]
    /\ \A t \in Seeds : \A r \in t[m] : r.id \in Nat /\ r.id < FirstId

\* No call moves a row back into a state that a compare-and-swap moves it out
\* of, and no row takes the place of one that was deleted.
NeverMovesBack ==
    \A q \in Queries : CompareAndSwap(q) => (\E x \in q.where.own : Ends(q, x)) /\ DrawsIds(q.model)

\* update_first as a compare-and-swap: of the tasks that make the same
\* transition on a row, one is told that it made it, when NeverMovesBack.
OneWinner ==
    \A c, d \in Clients :
        /\ c # d
        /\ answer[c] # Null /\ answer[d] # Null
        /\ answer[c].query = answer[d].query
        /\ CompareAndSwap(answer[c].query)
        /\ answer[c].kind = "ok" /\ answer[d].kind = "ok"
        => \A r \in answer[c].rows, s \in answer[d].rows : r.id # s.id

\* The key an upsert names is the key of the row it creates.  The code does not
\* ask for it: of the WhereUniqueInput it reads the columns only.
UpsertsNameTheirRow ==
    \A q \in Queries : q.op = "upsert" =>
        \A k \in DOMAIN q.unique : k \in DOMAIN q.data /\ q.data[k] = q.unique[k] /\ q.data[k] # Null

\* What the call of c would write meets a key of another row than the one it
\* names, or a parent that is not there.
OthersForbid(c) ==
    LET q == Query(c)
        m == q.model
        named == Named(q.unique, tables[m])
    IN  \E row \in {call[c].row} \cup {SetRow(m, q.set, call[c].now, r) : r \in named} :
            Clashes(m, tables[m] \ named, row) # {} \/ Dangles(tables, m, row)

UpsertRefused(c) ==
    /\ call[c] # Null /\ answer'[c] # answer[c] /\ answer'[c] # Null
    /\ answer'[c].kind = "refused" /\ Query(c).op = "upsert"

\* An upsert is refused because of another row than the one it names: racing
\* upserts of one key all succeed, when UpsertsNameTheirRow.  PostgreSQL also
\* refuses the one that has nothing to set, whatever the tables hold.
UpsertMeetsItsRow ==
    [][\A c \in Clients :
         UpsertRefused(c) => OthersForbid(c) \/ AmbiguousSet(Query(c).model, Query(c).set)]_vars

\* A row that appears or changes carries in its @updatedAt column a moment of
\* the call that wrote it, also when a batch writes it long after it began.
ChangesAreStamped ==
    [][\A m \in Models : \A r \in tables'[m] \ tables[m] : \A col \in Meta[m].updatedAt :
         \E c \in Clients :
            /\ call[c] # Null /\ Query(c).model = m
            /\ call'[c] # call[c]
            /\ r[col] = call[c].now /\ r[col] \in call[c].begun .. clock]_vars

\* create_many goes through its items in order and stops at the first that is
\* refused, leaving what it inserted: Ok means all of them, and the number of
\* rows left behind by an error is the number of items before that one.
BatchInOrder ==
    [][\A c \in Clients :
         LET items == Query(c).items
             made == answer'[c].made
         IN  /\ call[c] # Null /\ answer'[c] # answer[c] /\ answer'[c] # Null
             /\ Query(c).op = "create_many"
             => /\ answer'[c].kind = "ok" => made = Len(items)
                /\ answer'[c].kind = "refused" =>
                      /\ made < Len(items)
                      /\ \A f \in DOMAIN items[made + 1] : call[c].row[f] = items[made + 1][f]]_vars

\* The two queries of an include are not one.  Whatever happens in between, a
\* record never comes with a row of another record, and a row some record
\* points to when the second query runs comes with a record of its key.
IncludedBelongs ==
    [][\A c \in Clients :
         /\ call[c] # Null /\ answer'[c] # answer[c] /\ answer'[c] # Null
         /\ answer'[c].kind = "included"
         => LET rel == Meta[Query(c).model].relation IN
            \A p \in answer'[c].rows :
                /\ \A r \in p.related : r[rel.theirs] = p.data[rel.mine]
                /\ \A r \in Mine(rel, tables[rel.model], p.data) :
                      \E o \in answer'[c].rows : r \in o.related]_vars

\* relations.md: a relation is "`Some(...)` when it was" included.
IncludedIsSome ==
    [][\A c \in Clients :
         /\ call[c] # Null /\ answer'[c] # answer[c] /\ answer'[c] # Null
         /\ answer'[c].kind = "included"
         => LET rel == Meta[Query(c).model].relation IN
            rel.kind = "one" =>
                \A p \in answer'[c].rows :
                    Mine(rel, tables[rel.model], p.data) # {} => p.related # {}]_vars

\* The groups of a GROUP BY are the rows that were asked for: each group is
\* found again by a filter on its key, a NULL key by one that asks for NULL,
\* and without HAVING no row is left out.
GroupsAreFound ==
    [][\A c \in Clients :
         LET q == Query(c)
             found == FindMany(tables[q.model], q.where)
             Again(g) == {r \in found :
                            Found(Leaf({Condition(k, "equals", g.key[k]) : k \in q.keys}), r)}
         IN  /\ call[c] # Null /\ answer'[c] # answer[c] /\ answer'[c] # Null
             /\ answer'[c].kind = "ok" /\ q.op = "group_by"
             => /\ \A g \in answer'[c].rows : g.count = Cardinality(Again(g))
                /\ q.having = {} => UNION {Again(g) : g \in answer'[c].rows} = found]_vars
=============================================================================
