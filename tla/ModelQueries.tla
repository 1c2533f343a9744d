---------------------------- MODULE ModelQueries ----------------------------
(***************************************************************************)
(* One statement of the generated client: what gen_query_builders and the  *)
(* gen_*_code functions of ferriorm-codegen/src/model.rs emit for a model, *)
(* as its effect on, or its reading of, the rows of the model's table.     *)
(*                                                                         *)
(* Meta is what the schema says of each model.  A row is a function on the *)
(* columns.  A create or update input is a function on the columns it      *)
(* gives: a field left None is not in its domain.                          *)
(***************************************************************************)
EXTENDS Filters

CONSTANTS
    Models,
    Meta    \* [m |-> [columns, unique, defaults, settable, updatedAt, refs, ..]]

Columns(m) == Meta[m].columns

\* What the generator makes of any model: a column is given, has a default or
\* is stamped, keys and foreign keys are made of columns, and the id is a key
\* of its own that no update may set.
ASSUME ModelQueriesAssumption ==
    \A m \in Models :
        /\ Columns(m) = DOMAIN Meta[m].defaults \cup Meta[m].updatedAt
        /\ DOMAIN Meta[m].defaults \cap Meta[m].updatedAt = {}
        /\ Meta[m].settable \subseteq DOMAIN Meta[m].defaults \ {"id"}
        /\ "id" \in DOMAIN Meta[m].defaults
        /\ Meta[m].defaults["id"] \in {<<"uuid">>, <<"given">>}
        /\ {"id"} \in Meta[m].unique
        /\ \A key \in Meta[m].unique : key \subseteq Columns(m)
        /\ DOMAIN Meta[m].refs \subseteq Columns(m)

-----------------------------------------------------------------------------
(* INSERT                                                                  *)

DefaultValue(default, now, fresh) ==
    CASE default[1] = "uuid" -> fresh
      [] default[1] = "now" -> now
      [] default[1] = "literal" -> default[2]

\* Defaults are resolved by the client, and the @updatedAt columns stamped.
CreatedRow(m, data, now, fresh) ==
    [c \in Columns(m) |->
        IF c \in Meta[m].updatedAt THEN now
        ELSE IF c \in DOMAIN data THEN data[c]
        ELSE DefaultValue(Meta[m].defaults[c], now, fresh)]

\* Two rows agree on a unique key; NULLs never do.
Agree(key, r, s) == \A c \in key : r[c] = s[c] /\ r[c] # Null

\* The unique keys on which row meets another one.
Clashes(m, rows, row) == {key \in Meta[m].unique : \E r \in rows : Agree(key, r, row)}

\* A foreign key of row points at nothing.
Dangles(tables, m, row) ==
    \E c \in DOMAIN Meta[m].refs :
        /\ row[c] # Null
        /\ \A r \in tables[Meta[m].refs[c]] : r.id # row[c]

\* A row of another table points at row: ON DELETE RESTRICT.
PointedAt(tables, m, row) ==
    \E n \in Models : \E c \in DOMAIN Meta[n].refs :
        /\ Meta[n].refs[c] = m
        /\ \E r \in tables[n] : r[c] = row.id

-----------------------------------------------------------------------------
(* UPDATE                                                                  *)

\* The row a WhereUniqueInput names.
Named(unique, rows) == {r \in rows : \A c \in DOMAIN unique : r[c] = unique[c]}

FindMany(rows, w) == {r \in rows : Found(w, r)}

\* "No fields to update"
NothingToSet(m, set) == DOMAIN set = {} /\ Meta[m].updatedAt = {}

\* DO UPDATE SET with nothing to set is "c" = "c", c the first column of the
\* conflict target.  PostgreSQL does not know whether the second c is that of
\* the table or of the row proposed and refuses the statement, with a conflict
\* or without; SQLite takes that of the table, and nothing changes.
AmbiguousSet(m, set) == Postgres /\ NothingToSet(m, set)

\* Mutant: the stamp is only bound with another field.
SetKeepsStamp(m, set, now, r) ==
    [c \in Columns(m) |->
        IF c \in Meta[m].updatedAt /\ DOMAIN set # {"status"} THEN now
        ELSE IF c \in DOMAIN set THEN set[c] ELSE r[c]]

SetRow(m, set, now, r) ==
    [c \in Columns(m) |->
        IF c \in Meta[m].updatedAt THEN now
        ELSE IF c \in DOMAIN set THEN set[c] ELSE r[c]]

Updated(m, rows, matched, set, now) ==
    (rows \ matched) \cup {SetRow(m, set, now, r) : r \in matched}

\* The database refuses an UPDATE as a whole.
UpdateClashes(m, rows, matched, set, now) ==
    LET after == Updated(m, rows, matched, set, now)
    IN  {key \in Meta[m].unique :
            \E r, s \in after : r.id # s.id /\ Agree(key, r, s)}

UpdateDangles(tables, m, matched, set, now) ==
    \E r \in matched : Dangles(tables, m, SetRow(m, set, now, r))

\* Mutant: the conflict target is the primary key, whatever the caller named.
PrimaryKeyTarget(unique) == {"id"}

\* The conflict target is the key the WhereUniqueInput variant stands for.
ConflictTarget(unique) == DOMAIN unique

-----------------------------------------------------------------------------
(* SELECT                                                                  *)

\* r may come before s under a list of <<column, direction>>.
MayPrecede(orders, r, s) ==
    \A i \in 1 .. Len(orders) :
        (\A j \in 1 .. i - 1 : r[orders[j][1]] = s[orders[j][1]])
            => IF orders[i][2] = "ASC" THEN r[orders[i][1]] <= s[orders[i][1]]
                                       ELSE r[orders[i][1]] >= s[orders[i][1]]

\* The database picks one of the orders the list allows.
Ordered(rows, orders) ==
    LET n == Cardinality(rows)
    IN  {s \in [1 .. n -> rows] :
            /\ \A i, j \in 1 .. n : i # j => s[i] # s[j]
            /\ \A i, j \in 1 .. n : i < j => MayPrecede(orders, s[i], s[j])}

\* LIMIT and OFFSET, each only if it was given.
Page(s, take, skip) ==
    LET first == IF skip = Null THEN 0 ELSE skip
        last == IF take = Null THEN Len(s) ELSE first + take
    IN  SubSeq(s, first + 1, IF last < Len(s) THEN last ELSE Len(s))

\* OFFSET without LIMIT is a syntax error on SQLite.
PageRefused(take, skip) == ~Postgres /\ skip # Null /\ take = Null

\* A select that names no column is a SELECT *.
Partial(m, select, r) ==
    [c \in Columns(m) |-> IF c \in select \/ select = {} THEN r[c] ELSE Null]

-----------------------------------------------------------------------------
(* Aggregates                                                              *)

Present(rows, col) == {r \in rows : r[col] # Null}

Aggregate(rows, fn, col) ==
    LET values == {r[col] : r \in Present(rows, col)}
    IN  CASE fn = "count" -> Cardinality(rows)
          [] fn = "sum" /\ values # {} -> MapThenSumSet(LAMBDA r : r[col], Present(rows, col))
          [] fn = "min" /\ values # {} -> CHOOSE v \in values : \A x \in values : v <= x
          [] fn = "max" /\ values # {} -> CHOOSE v \in values : \A x \in values : v >= x
          [] OTHER -> Null

\* Mutant: the rows with a NULL key are in no group.
BucketsWithoutNull(rows, keys) ==
    {{s \in rows : \A k \in keys : s[k] = r[k]}
        : r \in {x \in rows : \A k \in keys : x[k] # Null}}

\* GROUP BY: a NULL is a key of its own.
Buckets(rows, keys) == {{s \in rows : \A k \in keys : s[k] = r[k]} : r \in rows}

\* HAVING 1=1 and a condition on each aggregate that has a filter.
GroupBy(rows, w, keys, having) ==
    {b \in Buckets(FindMany(rows, w), keys) :
        \A h \in having : Holds(h.condition, Aggregate(b, h.fn, h.condition.col))}

-----------------------------------------------------------------------------
(* Relations (ferriorm-codegen/src/relations.rs)                           *)

\* The SELECT .. WHERE theirs IN (the mine of every record).
Related(rows, rel, records) ==
    {r \in rows : \E i \in DOMAIN records : r[rel.theirs] = records[i][rel.mine]}

\* Assembly: the rows of a key are taken out of the map with the first record
\* that has this key.
Taken(rel, records, i) == \E j \in 1 .. i - 1 : records[j][rel.mine] = records[i][rel.mine]

Mine(rel, related, record) == {r \in related : r[rel.theirs] = record[rel.mine]}

\* Mutant: rows are matched by their own id.
AttachById(rel, related, records, i) ==
    IF Taken(rel, records, i) THEN {} ELSE {r \in related : r.id = records[i][rel.mine]}

Attached(rel, related, records, i) ==
    IF Taken(rel, records, i) THEN {} ELSE Mine(rel, related, records[i])
=============================================================================
