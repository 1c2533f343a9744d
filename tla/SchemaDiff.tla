----------------------------- MODULE SchemaDiff -----------------------------
(***************************************************************************)
(* From one schema to the next: diff_schemas turns two schemas into steps, *)
(* sort_steps orders them, the renderer of the provider makes them         *)
(* statements, and the next `migrate dev` reads the resulting database     *)
(* back (introspect) before it diffs again.                                *)
(*                                                                         *)
(* The database of this module is the one that a replay of the migrations  *)
(* directory produces: it holds no rows, so whether a statement is refused *)
(* depends on its tables, columns, types, keys and indexes only.           *)
(*                                                                         *)
(* A step names what it is about; its definition is looked up in the       *)
(* schema diffed to. A schema has a name for every enum beside the one it  *)
(* has in the database (@@map); tables and columns go by database names.   *)
(* A primary key is a list of columns, and layout has the columns of each  *)
(* table in their order; indexes and unique constraints are sets of        *)
(* columns.                                                                *)
(***************************************************************************)
EXTENDS Integers, FiniteSets, Sequences, Functions

CONSTANTS Schemas,      \* the schemas a developer may write
          Providers,    \* among "PostgreSQL" and "SQLite"
          Snake,        \* to_snake_case of the names of enums
          Pascal,       \* to_pascal_case of their database names
          Skipped,      \* the names of tables that begin with "_"
          MaxMigrations \* bound on the invocations of migrate dev

VARIABLES provider,  \* the datasource's provider
          db,        \* the database after the migrations written so far
          base,      \* db before the migration at hand
          snapshot,  \* the snapshot in the last migration directory
          from,      \* the schema the last diff started from
          schema,    \* the schema it led to
          migration, \* its steps
          steps,     \* those that are still to be executed
          devs,      \* invocations of migrate dev
          pc         \* idle, apply, applied or refused

vars == <<provider, db, base, snapshot, from, schema, migration, steps, devs, pc>>

-----------------------------------------------------------------------------
(* Schemas *)

Empty == [enums |-> {}, columns |-> <<>>, layout |-> <<>>, keys |-> <<>>,
          fks |-> {}, indexes |-> {}, uniques |-> {}]

EmptyDatabase == [Empty EXCEPT !.enums = <<>>]

Tables(s) == DOMAIN s.keys

Columns(s) == DOMAIN s.columns

Without(f, S) == Restrict(f, DOMAIN f \ S)

Joined(f, g) == [x \in DOMAIN f \cup DOMAIN g |-> IF x \in DOMAIN f THEN f[x] ELSE g[x]]

With(f, x, y) == Joined(f, [z \in {x} |-> y])

Scalars == {"TEXT", "INTEGER", "BOOLEAN"}

(* postgres_type and sqlite_type of the scalar types. *)
ScalarSql(p, type) ==
  CASE type = "String"  -> "TEXT"
    [] type = "Int"     -> "INTEGER"
    [] type = "Boolean" -> IF p = "SQLite" THEN "INTEGER" ELSE "BOOLEAN"

(* An enum is its own type on PostgreSQL, looked up by name among the enums
   of the target schema whichever side the column is from. *)
SqlType(p, type, enums) ==
  IF type.kind = "scalar" THEN ScalarSql(p, type.of)
  ELSE IF p = "SQLite" THEN "TEXT"
  ELSE IF \E e \in enums : e.name = type.of
    THEN (CHOOSE e \in enums : e.name = type.of).db
    ELSE Snake[type.of]

(* Some(String::new()) is "empty": no DEFAULT clause, but not None either. *)
DefaultSql(p, default) ==
  CASE default = "autoincrement" -> IF p = "SQLite" THEN "none" ELSE "empty"
    [] default = "uuid()"        -> IF p = "SQLite" THEN "none" ELSE "gen_random_uuid()"
    [] OTHER                     -> default

(* What a column definition is in the database once it was rendered. *)
Rendered(p, def, enums) ==
  LET default == DefaultSql(p, def.default)
  IN [type     |-> SqlType(p, def.type, enums),
      optional |-> def.optional,
      default  |-> IF default = "empty" THEN "none" ELSE default,
      unique   |-> def.unique]

-----------------------------------------------------------------------------
(* diff_schemas *)

Step(op, on, what, ref) == [op |-> op, on |-> on, what |-> what, ref |-> ref]

Named(name, enums) == {e \in enums : e.name = name}

(* Enums are matched by name, so that @@map renames instead of replacing;
   variants are only ever added. *)
DiffEnums(old, new) ==
  LET both == {b \in old.enums \X new.enums : b[1].name = b[2].name}
  IN {Step("CreateEnum", e.db, {}, "none") : e \in {n \in new.enums : Named(n.name, old.enums) = {}}}
     \cup {Step("DropEnum", e.db, {}, "none") : e \in {o \in old.enums : Named(o.name, new.enums) = {}}}
     \cup {Step("AlterEnumName", b[1].db, {}, b[2].db) : b \in {b \in both : b[1].db # b[2].db}}
     \cup UNION {{Step("AddEnumVariant", b[2].db, {v.label}, "none") : v \in b[2].variants \ b[1].variants}
                   : b \in both}

Altered(p, old, new, tc) ==
  \/ SqlType(p, old.columns[tc].type, new.enums) # SqlType(p, new.columns[tc].type, new.enums)
  \/ old.columns[tc].optional # new.columns[tc].optional
  \/ DefaultSql(p, old.columns[tc].default) # DefaultSql(p, new.columns[tc].default)

(* diff_columns, for the tables that stay; whether a column is unique is not
   compared. *)
DiffColumns(p, old, new) ==
  LET stay == Tables(old) \cap Tables(new)
      In(s) == {tc \in Columns(s) : tc[1] \in stay}
      Steps(op, tcs) == {Step(op, tc[1], {tc[2]}, "none") : tc \in tcs}
  IN Steps("AddColumn", In(new) \ In(old))
     \cup Steps("DropColumn", In(old) \ In(new))
     \cup Steps("AlterColumn", {tc \in In(new) \cap In(old) : Altered(p, old, new, tc)})

(* Mutant: a table whose key changes is dropped and created again. *)
RebuildForKey(p, old, new) ==
  LET rekeyed == {t \in Tables(old) \cap Tables(new) : old.keys[t] # new.keys[t]}
  IN {Step("CreateTable", t, {}, "none") : t \in (Tables(new) \ Tables(old)) \cup rekeyed}
     \cup {Step("DropTable", t, {}, "none") : t \in (Tables(old) \ Tables(new)) \cup rekeyed}
     \cup {s \in DiffColumns(p, old, new) : s.on \notin rekeyed}

DiffModels(p, old, new) ==
  {Step("CreateTable", t, {}, "none") : t \in Tables(new) \ Tables(old)}
  \cup {Step("DropTable", t, {}, "none") : t \in Tables(old) \ Tables(new)}
  \cup DiffColumns(p, old, new)
  \cup {Step("AlterPrimaryKey", t, {}, "none")
          : t \in {t \in Tables(old) \cap Tables(new) : old.keys[t] # new.keys[t]}}

(* collect_foreign_keys passes over relations to tables that are not there. *)
ForeignKeys(s) == {fk \in s.fks : fk.ref \in Tables(s)}

(* A changed action is a drop and an addition of the same name. *)
DiffForeignKeys(old, new) ==
  LET Steps(op, fks) == {Step(op, fk.table, {fk.column}, fk.ref) : fk \in fks}
  IN Steps("AddForeignKey", ForeignKeys(new) \ ForeignKeys(old))
     \cup Steps("DropForeignKey", ForeignKeys(old) \ ForeignKeys(new))

(* Indexes are only ever added; a constraint goes with its table. *)
DiffIndexes(old, new) ==
  {Step("CreateIndex", i.table, i.columns, "none") : i \in new.indexes \ old.indexes}

DiffUniques(old, new) ==
  {Step("AddUnique", u.table, u.columns, "none") : u \in new.uniques \ old.uniques}
  \cup {Step("DropUnique", u.table, u.columns, "none")
          : u \in {u \in old.uniques \ new.uniques : u.table \in Tables(new)}}

Diff(p, old, new) ==
  DiffEnums(old, new) \cup DiffModels(p, old, new) \cup DiffForeignKeys(old, new)
    \cup DiffIndexes(old, new) \cup DiffUniques(old, new)

-----------------------------------------------------------------------------
(* sort_steps *)

Creates(t, m) == \E s \in m : s.op = "CreateTable" /\ s.on = t

(* The tables a created table waits for, and the created tables that no order
   can serve: what TableOrder computes. *)
Awaits(t, m) == {s.ref : s \in {s \in m : /\ s.op = "AddForeignKey"
                                           /\ s.on = t /\ s.ref # t /\ Creates(s.ref, m)}}

Circular(m) == LET created == {s.on : s \in {s \in m : s.op = "CreateTable"}}
               IN UNION {S \in SUBSET created : \A t \in S : Awaits(t, m) \cap S # {}}

(* Mutant: only foreign keys wait for the new tables. *)
PlaceIndexesFirst(s, m) ==
  CASE s.op = "CreateEnum" -> 1
    [] s.op = "DropEnum" -> 2
    [] s.op \in {"AlterEnumName", "AddEnumVariant"} -> 3
    [] s.op = "DropTable" -> 4
    [] s.op \in {"AddColumn", "DropColumn", "AlterColumn", "AlterPrimaryKey"} -> 5
    [] s.op = "DropForeignKey" -> 6
    [] s.op = "CreateIndex" -> 7
    [] s.op = "AddUnique" -> 8
    [] s.op = "DropUnique" -> 9
    [] s.op = "CreateTable" -> 10
    [] s.op = "AddForeignKey" -> 11

(* The place of a step: the passes of the diff in their order, then the
   tables, their foreign keys, and the indexes of the new tables. *)
Place(s, m) ==
  CASE s.op = "CreateEnum" -> 1
    [] s.op = "DropEnum" -> 2
    [] s.op \in {"AlterEnumName", "AddEnumVariant"} -> 3
    [] s.op = "DropTable" -> 4
    [] s.op \in {"AddColumn", "DropColumn", "AlterColumn", "AlterPrimaryKey"} -> 5
    [] s.op = "DropForeignKey" -> 6
    [] s.op = "CreateIndex" -> IF Creates(s.on, m) THEN 12 ELSE 7
    [] s.op = "AddUnique" -> IF Creates(s.on, m) THEN 13 ELSE 8
    [] s.op = "DropUnique" -> 9
    [] s.op = "CreateTable" -> 10
    [] s.op = "AddForeignKey" -> 11

(* Within a place the hash maps decide, except that the steps of one table
   and of one enum keep the order they were emitted in, and that tables
   follow those they reference. *)
Turn(op) == CASE op = "AddColumn" -> 1 [] op = "DropColumn" -> 2 [] op = "AlterColumn" -> 3
              [] op = "AlterPrimaryKey" -> 4 [] OTHER -> 0

Precedes(r, s, m) ==
  \/ Place(r, m) < Place(s, m)
  \/ /\ Place(r, m) = Place(s, m)
     /\ \/ r.on = s.on /\ Turn(r.op) < Turn(s.op)
        \/ r.op = "AlterEnumName" /\ s.op = "AddEnumVariant" /\ r.ref = s.on
        \/ /\ r.op = "CreateTable"
           /\ r.on \notin Circular(m)
           /\ s.on \in Circular(m) \/ r.on \in Awaits(s.on, m)

Ready(s) == s \in steps /\ \A r \in steps : ~ Precedes(r, s, migration)

-----------------------------------------------------------------------------
(* What the rendered statements do to a database *)

(* The SQLite renderer writes comments for these: there is no such type, or
   no such ALTER TABLE. *)
Commented == {"CreateEnum", "DropEnum", "AlterEnumName", "AddEnumVariant",
              "AlterColumn", "AlterPrimaryKey", "AddForeignKey", "DropForeignKey"}

IsComment(s) == provider = "SQLite" /\ s.op \in Commented

Definitions(s) == {e \in schema.enums : e.db = s.on}

StepColumns(s) == {<<s.on, c>> : c \in s.what}

Key(s) == [table |-> s.on, columns |-> s.what]

KeysOf(d) == d.indexes \cup d.uniques

(* What the parser and the validator see to: a table has a key, a list of
   columns resolves, an enum and a referenced model exist; an index is on
   columns, not on relations. That a key names a column once is supposed:
   PostgreSQL refuses another one. *)
WellFormed(s) ==
  /\ DOMAIN s = DOMAIN Empty
  /\ \A tc \in Columns(s) :
       /\ tc = <<tc[1], tc[2]>> /\ tc[1] \in Tables(s)
       /\ LET type == s.columns[tc].type
          IN IF type.kind = "scalar" THEN type.of \in {"String", "Int", "Boolean"}
             ELSE Named(type.of, s.enums) # {}
       /\ s.columns[tc].default # "empty"
  /\ DOMAIN s.layout = Tables(s)
  /\ \A t \in Tables(s) :
       /\ Range(s.layout[t]) = {tc[2] : tc \in {tc \in Columns(s) : tc[1] = t}}
       /\ Range(s.keys[t]) # {}
       /\ Range(s.keys[t]) \subseteq Range(s.layout[t])
       /\ IsInjective(s.keys[t]) /\ IsInjective(s.layout[t])
  /\ \A e \in s.enums : \A v \in e.variants :
       v = [label |-> v.label, compound |-> v.compound] /\ v.compound \in BOOLEAN
  /\ \A k \in KeysOf(s) :
       /\ k = [table |-> k.table, columns |-> k.columns] /\ k.table \in Tables(s)
       /\ \A c \in k.columns : <<k.table, c>> \in Columns(s)
  /\ \A fk \in s.fks : fk.table \in Tables(s) /\ fk.ref \in Tables(s)

(* What nothing sees to: the column a foreign key is put on exists (it does
   not under an @map name of its own), and the names of foreign keys, made of
   table, referenced table and column, differ. *)
ForeignKeysResolve(s) ==
  /\ \A fk \in s.fks : <<fk.table, fk.column>> \in Columns(s)
  /\ \A f, g \in s.fks : f.table = g.table /\ f.column = g.column /\ f.ref = g.ref => f = g

ASSUME ProviderAssumption == Providers \subseteq {"PostgreSQL", "SQLite"}
ASSUME SchemaAssumption == \A s \in Schemas : WellFormed(s)
ASSUME BoundAssumption == MaxMigrations \in Nat

Resolved == \A s \in Schemas : ForeignKeysResolve(s)

(* Nor to this: the types of the enums of a schema have different names, none
   that of a scalar type, also after they were read back. *)
EnumsDiffer ==
  LET enums == UNION {s.enums : s \in Schemas}
  IN /\ \A s \in Schemas : \A e, f \in s.enums : e.name = f.name \/ e.db = f.db => e = f
     /\ \A e, f \in enums : Pascal[e.db] = Pascal[f.db] => e.db = f.db
     /\ \A e \in enums : e.db \notin Scalars

(* Nor to what the diff with a database that was read back relies on: the name
   that an enum is read back under is not that of another one, and leads to
   its type. *)
NamesReadBack ==
  \A s \in Schemas : \A e, f \in s.enums :
    (Pascal[f.db] = e.name => e = f) /\ Snake[Pascal[e.db]] = e.db

(* A foreign key has one column, so the key it refers to needs to. *)
SinglyKeyed == \A s \in Schemas : \A fk \in s.fks : Len(s.keys[fk.ref]) = 1

(* Introspection passes over the tables that begin with "_" and over enums
   without variants. *)
NoneSkipped == \A s \in Schemas : Tables(s) \cap Skipped = {}

EnumsHaveVariants == \A s \in Schemas : \A e \in s.enums : e.variants # {}

SameColumn(f, g) == f.table = g.table /\ f.column = g.column

(* Mutant: foreign keys are left to the steps that follow. *)
NoInlineForeignKeys(t) == {}

AddedForeignKeys(t) ==
  {fk \in schema.fks : /\ fk.table = t
                       /\ <<t, fk.column>> \in Columns(schema)
                       /\ Step("AddForeignKey", t, {fk.column}, fk.ref) \in migration}

(* SQLite declares foreign keys in CREATE TABLE, with the column they are on:
   the first one of a column. *)
InlineForeignKeys(t) ==
  {CHOOSE fk \in AddedForeignKeys(t) : SameColumn(fk, f) : f \in AddedForeignKeys(t)}

CreateTable(t) ==
  [db EXCEPT !.columns = Joined(@, [tc \in {tc \in Columns(schema) : tc[1] = t} |->
                                     Rendered(provider, schema.columns[tc], schema.enums)]),
             !.layout = With(@, t, schema.layout[t]),
             !.keys = With(@, t, schema.keys[t]),
             !.fks = @ \cup IF provider = "SQLite" THEN InlineForeignKeys(t) ELSE {}]

(* Indexes go with their table; foreign keys of other tables do so only on
   PostgreSQL (CASCADE) and dangle on SQLite. *)
DropTable(t) ==
  [db EXCEPT !.columns = Without(@, {tc \in DOMAIN @ : tc[1] = t}),
             !.layout = Without(@, {t}),
             !.keys = Without(@, {t}),
             !.fks = {fk \in @ : fk.table # t /\ (provider = "PostgreSQL" => fk.ref # t)},
             !.indexes = {i \in @ : i.table # t},
             !.uniques = {u \in @ : u.table # t}]

(* PostgreSQL takes along what mentions the column. *)
DropColumn(t, c) ==
  [db EXCEPT !.columns = Without(@, {<<t, c>>}),
             !.layout[t] = SelectSeq(@, LAMBDA other : other # c),
             !.keys[t] = IF c \in Range(@) THEN <<>> ELSE @,
             !.fks = {fk \in @ : ~ (fk.table = t /\ fk.column = c)},
             !.indexes = {i \in @ : ~ (i.table = t /\ c \in i.columns)},
             !.uniques = {u \in @ : ~ (u.table = t /\ c \in u.columns)}]

(* ALTER COLUMN states only what differs between the schemas. *)
AlterColumn(tc) ==
  LET old == from.columns[tc]
      new == schema.columns[tc]
      target == Rendered(provider, new, schema.enums)
      retyped == SqlType(provider, old.type, schema.enums) # target.type
      redefaulted == DefaultSql(provider, old.default) # DefaultSql(provider, new.default)
  IN [db.columns[tc] EXCEPT !.type = IF retyped THEN target.type ELSE @,
                            !.optional = IF old.optional # new.optional THEN target.optional ELSE @,
                            !.default = IF redefaulted THEN target.default ELSE @]

RenameEnum(s) ==
  [db EXCEPT !.enums = With(Without(@, {s.on}), s.ref, db.enums[s.on]),
             !.columns = [tc \in DOMAIN @ |-> IF @[tc].type = s.on
                                               THEN [@[tc] EXCEPT !.type = s.ref] ELSE @[tc]]]

Labels(s) == {v.label : v \in UNION {e.variants : e \in Definitions(s)}}

After(s) ==
  LET c == CHOOSE c \in s.what : TRUE
      tc == <<s.on, c>>
  IN IF IsComment(s) THEN db
     ELSE CASE s.op = "CreateEnum" -> [db EXCEPT !.enums = With(@, s.on, Labels(s))]
       [] s.op = "DropEnum" -> [db EXCEPT !.enums = Without(@, {s.on})]
       [] s.op = "AlterEnumName" -> RenameEnum(s)
       [] s.op = "AddEnumVariant" -> [db EXCEPT !.enums[s.on] = @ \cup s.what]
       [] s.op = "CreateTable" -> CreateTable(s.on)
       [] s.op = "DropTable" -> DropTable(s.on)
       [] s.op = "AddColumn" ->
            [db EXCEPT !.columns = With(@, tc, Rendered(provider, schema.columns[tc], schema.enums)),
                       !.layout[s.on] = Append(@, c)]
       [] s.op = "DropColumn" -> DropColumn(s.on, c)
       [] s.op = "AlterColumn" -> [db EXCEPT !.columns[tc] = AlterColumn(tc)]
       [] s.op = "AlterPrimaryKey" -> [db EXCEPT !.keys[s.on] = schema.keys[s.on]]
       [] s.op = "AddForeignKey" ->
            [db EXCEPT !.fks = @ \cup {fk \in schema.fks : /\ fk.table = s.on
                                                            /\ fk.column = c /\ fk.ref = s.ref}]
       [] s.op = "DropForeignKey" ->
            [db EXCEPT !.fks = {fk \in @ : ~ (fk.table = s.on /\ fk.column = c /\ fk.ref = s.ref)}]
       [] s.op = "CreateIndex" -> [db EXCEPT !.indexes = @ \cup {Key(s)}]
       [] s.op = "AddUnique" -> [db EXCEPT !.uniques = @ \cup {Key(s)}]
       [] s.op = "DropUnique" -> [db EXCEPT !.uniques = @ \ {Key(s)}]

TypeExists(type) == type \in Scalars \cup DOMAIN db.enums

(* The types a CREATE TABLE or ALTER TABLE of the step mentions. *)
TypesOf(s) == {Rendered(provider, schema.columns[tc], schema.enums).type
                 : tc \in {tc \in Columns(schema) :
                             tc \in StepColumns(s) \/ (s.op = "CreateTable" /\ tc[1] = s.on)}}

Missing(s) == s.on \notin Tables(db) \/ ~ StepColumns(s) \subseteq Columns(db)

ReferencedBy(t) == {fk \in db.fks : fk.ref = t}

RefusedByPostgres(s) ==
  CASE s.op = "CreateEnum" -> s.on \in DOMAIN db.enums
    [] s.op = "DropEnum" -> \E tc \in Columns(db) : db.columns[tc].type = s.on
    [] s.op = "AlterEnumName" -> s.on \notin DOMAIN db.enums \/ s.ref \in DOMAIN db.enums
    [] s.op = "AddEnumVariant" -> s.on \notin DOMAIN db.enums \/ s.what \subseteq db.enums[s.on]
    [] s.op = "CreateTable" -> s.on \in Tables(db) \/ \E type \in TypesOf(s) : ~ TypeExists(type)
    [] s.op = "DropTable" -> FALSE
    [] s.op = "AddColumn" -> \/ s.on \notin Tables(db) \/ StepColumns(s) \subseteq Columns(db)
                             \/ \E type \in TypesOf(s) : ~ TypeExists(type)
    [] s.op = "DropColumn" -> Missing(s) \/ (s.what \subseteq Range(db.keys[s.on]) /\ ReferencedBy(s.on) # {})
    [] s.op = "AlterColumn" -> Missing(s) \/ \E type \in TypesOf(s) : ~ TypeExists(type)
    [] s.op = "AlterPrimaryKey" -> Missing(s) \/ ReferencedBy(s.on) # {}
    [] s.op = "AddForeignKey" ->
         \/ Missing(s) \/ s.ref \notin Tables(db)
         \/ Len(db.keys[s.ref]) # 1
         \/ \E fk \in db.fks : fk.table = s.on /\ s.what = {fk.column} /\ fk.ref = s.ref
    [] s.op = "DropForeignKey" -> s.on \notin Tables(db)
    [] s.op = "CreateIndex" -> Missing(s) \/ Key(s) \in db.indexes
    [] s.op = "AddUnique" -> Missing(s) \/ Key(s) \in db.uniques
    [] s.op = "DropUnique" -> s.on \notin Tables(db)

(* SQLite cannot add a UNIQUE column, nor drop one that a key, an index or a
   UNIQUE clause mentions; DROP ... IF EXISTS never fails. *)
RefusedBySqlite(s) ==
  CASE s.op = "CreateTable" -> s.on \in Tables(db)
    [] s.op = "AddColumn" -> \/ s.on \notin Tables(db) \/ StepColumns(s) \subseteq Columns(db)
                             \/ \E tc \in StepColumns(s) : schema.columns[tc].unique
    [] s.op = "DropColumn" -> \/ Missing(s) \/ s.what \subseteq Range(db.keys[s.on])
                              \/ \E tc \in StepColumns(s) : db.columns[tc].unique
                              \/ \E k \in KeysOf(db) : k.table = s.on /\ s.what \subseteq k.columns
    [] s.op = "CreateIndex" -> Missing(s) \/ Key(s) \in db.indexes
    [] s.op = "AddUnique" -> Missing(s) \/ Key(s) \in db.uniques
    [] OTHER -> FALSE

Refuses(s) == IF provider = "SQLite" THEN RefusedBySqlite(s) ELSE RefusedByPostgres(s)

(* On PostgreSQL a new type needs a cast from the old one, for the column and
   for its DEFAULT; not every pair of types has one. SQLite's manual excludes
   the columns of foreign keys from DROP COLUMN. *)
MayRefuse(s) ==
  \/ /\ provider = "PostgreSQL" /\ s.op = "AlterColumn"
     /\ \E tc \in StepColumns(s) \cap Columns(db) : db.columns[tc].type \notin TypesOf(s)
  \/ /\ provider = "SQLite" /\ s.op = "DropColumn"
     /\ \E fk \in db.fks : fk.table = s.on /\ s.what = {fk.column}

-----------------------------------------------------------------------------
(* introspect_postgres, introspect_sqlite *)

(* Mutant: an enum is looked up by the wrong name, and falls back. *)
ReadTypeAsText(d, type) ==
  [kind |-> "scalar", of |-> CASE type = "INTEGER" -> "Int" [] type = "BOOLEAN" -> "Boolean"
                               [] OTHER -> "String"]

(* The types of the database that have labels: pg_type joined with pg_enum. *)
Labelled(d) == {e \in DOMAIN d.enums : d.enums[e] # {}}

(* Whatever else the type is called, it is taken for text. *)
ReadType(d, type) ==
  IF type \in Labelled(d) THEN [kind |-> "enum", of |-> Pascal[type]]
  ELSE [kind |-> "scalar", of |-> CASE type = "INTEGER" -> "Int" [] type = "BOOLEAN" -> "Boolean"
                                    [] OTHER -> "String"]

ParsePgDefault(default) == IF default = "gen_random_uuid()" THEN "uuid()" ELSE default

(* 0 and 1 are taken for booleans. *)
ParseSqliteDefault(default) ==
  CASE default = "0" -> "FALSE" [] default = "1" -> "TRUE" [] OTHER -> default

(* Under names of the schema. *)
IntrospectEnums(d) ==
  {[name |-> Pascal[e], db |-> e, variants |-> {[label |-> l, compound |-> FALSE] : l \in d.enums[e]}]
     : e \in Labelled(d)}

Seen(d) == Tables(d) \ Skipped

On(tables, S) == {x \in S : x.table \in tables}

ReadColumns(p, d, unique) ==
  [tc \in {tc \in Columns(d) : tc[1] \in Seen(d)} |->
     [type     |-> ReadType(d, d.columns[tc].type),
      optional |-> d.columns[tc].optional,
      default  |-> IF p = "SQLite" THEN ParseSqliteDefault(d.columns[tc].default)
                  ELSE ParsePgDefault(d.columns[tc].default),
      unique   |-> d.columns[tc].unique \/ \E u \in unique : u.table = tc[1] /\ tc[2] \in u.columns]]

(* What the two have in common: the catalog queries list the tables, and the
   columns of each in their order. *)
ReadTables(d) == Restrict(d.layout, Seen(d))

(* A UNIQUE constraint makes each of its columns unique, and its index is
   listed among the others. fks are the foreign keys that were read. *)
IntrospectPostgres(d, fks) ==
  [enums   |-> IntrospectEnums(d),
   columns |-> ReadColumns("PostgreSQL", d, d.uniques),
   layout  |-> ReadTables(d),
   keys    |-> Restrict(d.keys, Seen(d)),
   fks     |-> On(Seen(d), fks),
   indexes |-> On(Seen(d), KeysOf(d)),
   uniques |-> {}]

(* The columns of a key in the order of the table. *)
KeyByLayout(d, t) == SelectSeq(d.layout[t], LAMBDA c : c \in Range(d.keys[t]))

(* Only a unique index of one column is seen, as the uniqueness of it. *)
IntrospectSqlite(d, fks) ==
  [enums   |-> {},
   columns |-> ReadColumns("SQLite", d, {u \in d.uniques : Cardinality(u.columns) = 1}),
   layout  |-> ReadTables(d),
   keys    |-> [t \in Seen(d) |-> KeyByLayout(d, t)],
   fks     |-> On(Seen(d), fks),
   indexes |-> On(Seen(d), d.indexes),
   uniques |-> {}]

(* One foreign key of each column that has any, whichever the query lists
   first. *)
FirstOfEach(fks) ==
  {S \in SUBSET fks : /\ \A f \in fks : \E g \in S : SameColumn(f, g)
                      /\ \A f, g \in S : SameColumn(f, g) => f = g}

Introspect(p, d, fks) ==
  IF p = "SQLite" THEN IntrospectSqlite(d, fks) ELSE IntrospectPostgres(d, fks)

(* What introspection may return. *)
Readings(p, d) == {Introspect(p, d, fks) : fks \in FirstOfEach(d.fks)}

-----------------------------------------------------------------------------
(* migrate dev, over and over *)

Init == /\ provider \in Providers
        /\ db = EmptyDatabase
        /\ base = EmptyDatabase
        /\ snapshot = Empty
        /\ from = Empty
        /\ schema = Empty
        /\ migration = {}
        /\ steps = {}
        /\ devs = 0
        /\ pc = "idle"

(* Mutant: a migration is written although it has no steps. *)
DevAlways(target, old) ==
  /\ pc \in {"idle", "applied"}
  /\ devs < MaxMigrations
  /\ schema' = target
  /\ from' = old
  /\ migration' = Diff(provider, old, target)
  /\ steps' = migration'
  /\ base' = db
  /\ devs' = devs + 1
  /\ pc' = "apply"
  /\ UNCHANGED <<provider, db, snapshot>>

(* The schema is diffed with what a replay reads back, or with the latest
   snapshot; without steps no migration is written. *)
Dev(target, old) ==
  /\ pc \in {"idle", "applied"}
  /\ devs < MaxMigrations
  /\ schema' = target
  /\ from' = old
  /\ migration' = Diff(provider, old, target)
  /\ steps' = migration'
  /\ base' = db
  /\ devs' = devs + 1
  /\ pc' = IF migration' = {} THEN "applied" ELSE "apply"
  /\ UNCHANGED <<provider, db, snapshot>>

DevShadow == \E target \in Schemas, old \in Readings(provider, db) : Dev(target, old)

DevSnapshot == \E target \in Schemas : Dev(target, snapshot)

(* The next statement is executed; after the last one the migration, and its
   snapshot, are part of the history. *)
Execute(s) ==
  /\ pc = "apply"
  /\ Ready(s)
  /\ ~ Refuses(s)
  /\ db' = After(s)
  /\ steps' = steps \ {s}
  /\ IF steps' = {} THEN pc' = "applied" /\ snapshot' = schema ELSE UNCHANGED <<pc, snapshot>>
  /\ UNCHANGED <<provider, base, from, schema, migration, devs>>

(* It is refused: no replay of the directory gets past this migration. *)
Refuse(s) ==
  /\ pc = "apply"
  /\ Ready(s)
  /\ Refuses(s) \/ MayRefuse(s)
  /\ pc' = "refused"
  /\ UNCHANGED <<provider, db, base, snapshot, from, schema, migration, steps, devs>>

(* The developer deletes the migration. *)
Discard ==
  /\ pc = "refused"
  /\ db' = base
  /\ steps' = {}
  /\ pc' = "idle"
  /\ UNCHANGED <<provider, base, snapshot, from, schema, migration, devs>>

Next == \/ DevShadow
        \/ DevSnapshot
        \/ \E s \in steps : Execute(s)
        \/ \E s \in steps : Refuse(s)
        \/ Discard

Spec == Init /\ [][Next]_vars

-----------------------------------------------------------------------------
(* What must hold *)

TypeOK ==
  /\ provider \in Providers
  /\ schema \in Schemas \cup {Empty} /\ snapshot \in Schemas \cup {Empty}
  /\ steps \subseteq migration
  /\ devs \in 0 .. MaxMigrations
  /\ pc \in {"idle", "apply", "applied", "refused"}
  /\ pc = "apply" <=> (steps # {} /\ pc # "refused")
  /\ {tc[1] : tc \in Columns(db)} = Tables(db)
  /\ \A k \in KeysOf(db) : \A c \in k.columns : <<k.table, c>> \in Columns(db)
  /\ \A tc \in Columns(db) : TypeExists(db.columns[tc].type)

(* What the database had before the migration and the diff did not see. *)
UnseenTables == Tables(base) \ Tables(from)

UnseenForeignKeys == base.fks \ ForeignKeys(from)

UnseenEnums == DOMAIN base.enums \ {e.db : e \in from.enums}

(* What a step would create is there although the diff did not see it:
   indexes and variants dropped from a schema stay, unique constraints are
   not read back, neither is a variant of two words, and an enum is read back
   under the name of its type, or not at all. *)
Present(s) ==
  CASE s.op = "CreateEnum" -> s.on \in DOMAIN db.enums
    [] s.op = "AlterEnumName" -> s.ref \in DOMAIN db.enums \cap UnseenEnums
    [] s.op = "AddEnumVariant" -> s.on \in DOMAIN db.enums /\ s.what \subseteq db.enums[s.on]
    [] s.op = "CreateTable" -> s.on \in UnseenTables
    [] s.op = "AddForeignKey" ->
         \E fk \in UnseenForeignKeys : fk.table = s.on /\ s.what = {fk.column} /\ fk.ref = s.ref
    [] s.op = "CreateIndex" -> Key(s) \in db.indexes
    [] s.op = "AddUnique" -> Key(s) \in db.uniques
    [] OTHER -> FALSE

(* Drops and changes that the renderer has no statement for, or puts before
   what they depend on. *)
Unsupported(s) ==
  \/ s.op = "DropEnum"
  \/ s.op = "AlterEnumName" /\ \E r \in steps : r.op = "AlterEnumName" /\ r.on = s.ref
  \/ s.op = "AlterPrimaryKey" /\ ReferencedBy(s.on) # {}
  \/ s.op = "DropForeignKey" /\ \E r \in migration : r.op = "DropTable" /\ r.on = s.on
  \/ s.op = "DropColumn" /\ (provider = "SQLite" \/ ReferencedBy(s.on) # {})
  \/ /\ s.op = "AddColumn" /\ provider = "SQLite"
     /\ \E tc \in StepColumns(s) : schema.columns[tc].unique

(* The order of the steps is right: whatever the hash maps do, no statement
   is refused because what it needs is not there yet, or because what it
   replaces is still there. Tables, their foreign keys in cycles, columns of
   new enums and indexes on new tables are always accepted; what is refused
   was there unseen, or is one of the changes listed above. *)
RefusalsHaveACause ==
  pc = "apply" => \A s \in steps : Ready(s) /\ Refuses(s) => Present(s) \/ Unsupported(s)

(* A migration delivers the schema: with either strategy, in any sequence,
   the database then has its tables, columns, indexes and constraints; on
   PostgreSQL with the types, defaults, keys, foreign keys and variants of
   the schema, on SQLite with a foreign key on each column that has one in a
   table it created. What it has beyond them is what the diff did not see. *)
Delivers ==
  pc = "applied" =>
    /\ Tables(schema) \subseteq Tables(db) /\ Tables(db) \ Tables(schema) \subseteq UnseenTables
    /\ Columns(schema) \subseteq Columns(db)
    /\ \A tc \in Columns(db) \ Columns(schema) : tc[1] \in UnseenTables
    /\ schema.uniques \subseteq db.uniques
    /\ schema.indexes \subseteq IF provider = "SQLite" THEN db.indexes ELSE KeysOf(db)
    /\ provider = "PostgreSQL" =>
         /\ \A tc \in Columns(schema) :
              LET want == Rendered(provider, schema.columns[tc], schema.enums)
                  type == IF db.columns[tc].type \in UnseenEnums THEN db.columns[tc].type ELSE want.type
              IN [db.columns[tc] EXCEPT !.unique = want.unique] = [want EXCEPT !.type = type]
         /\ \A t \in Tables(schema) : db.keys[t] = schema.keys[t]
         /\ schema.fks \subseteq db.fks /\ db.fks \ schema.fks \subseteq UnseenForeignKeys
         /\ \A e \in schema.enums : /\ e.db \in DOMAIN db.enums
                                     /\ {v.label : v \in e.variants} \subseteq db.enums[e.db]
    /\ provider = "SQLite" =>
         \A fk \in schema.fks : Creates(fk.table, migration) =>
           \E f \in db.fks \cap schema.fks : SameColumn(f, fk)

(* Steps that the next diff with the shadow database finds although nothing
   is missing: what introspection reads back differently, or not at all. *)
Unreadable(s) ==
  \/ s.op = "AddUnique"
  \/ s.op = "AlterColumn" /\ \E tc \in StepColumns(s) :
       schema.columns[tc].default \in IF provider = "SQLite" THEN {"0", "1"} ELSE {"autoincrement"}
  \/ s.op = "AddEnumVariant" /\ \E e \in Definitions(s), v \in UNION {e.variants : e \in Definitions(s)} :
       s.what = {v.label} /\ v.compound
  \/ s.op \in {"CreateEnum", "DropEnum"} /\
       (provider = "SQLite" \/ \E e \in Definitions(s) : Pascal[e.db] # e.name)
  \/ s.op = "CreateEnum" /\ \E e \in Definitions(s) : e.variants = {}
  \/ s.op = "AlterColumn" /\ \E tc \in StepColumns(s) : db.columns[tc].type \in DOMAIN db.enums \ Labelled(db)
  \/ s.op \in {"CreateTable", "CreateIndex", "AddForeignKey"} /\ {s.on, s.ref} \cap Skipped # {}
  \/ s.op = "AddForeignKey" /\ \E f, g \in db.fks :
       f # g /\ SameColumn(f, g) /\ s = Step(s.op, f.table, {f.column}, f.ref)
  \/ s.op = "AlterPrimaryKey" /\ provider = "SQLite" /\ KeyByLayout(db, s.on) # db.keys[s.on]

(* Steps that the database really lacks: on SQLite because they were
   comments, on PostgreSQL because the diff did not see what is to go. *)
Outstanding(s) ==
  LET c == CHOOSE c \in s.what : TRUE
      tc == <<s.on, c>>
      fk == {fk \in db.fks : fk.table = s.on /\ fk.column = c /\ fk.ref = s.ref}
  IN \/ s.op = "DropForeignKey" /\ fk \cap UnseenForeignKeys # {}
     \/ /\ provider = "SQLite"
        /\ CASE s.op = "AlterColumn" ->
                  db.columns[tc] # Rendered(provider, schema.columns[tc], schema.enums)
             [] s.op = "AlterPrimaryKey" -> db.keys[s.on] # schema.keys[s.on]
             [] s.op = "AddForeignKey" -> ~ \E f \in fk : f \in schema.fks
             [] s.op = "DropForeignKey" -> fk # {}
             [] OTHER -> FALSE

(* A diff settles: once a migration is applied, reading the database back and
   diffing it with the same schema finds nothing, but for what introspection
   is known not to read back and for what the migration left undone. *)
Settles ==
  pc = "applied" =>
    \A old \in Readings(provider, db) : \A s \in Diff(provider, old, schema) :
      Unreadable(s) \/ Outstanding(s)

(* No data is lost on the way: a column that the database has and the schema
   wants exists throughout the migration; a renamed enum, a changed type or
   default, a new key never drop and recreate it. *)
KeepsColumns ==
  [][pc = "apply" => Columns(db) \cap Columns(schema) \subseteq Columns(db')]_vars
=============================================================================
