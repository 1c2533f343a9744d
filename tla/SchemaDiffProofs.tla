--------------------------- MODULE SchemaDiffProofs ---------------------------
(***************************************************************************)
(* Proofs about SchemaDiff for any well-formed schemas and any number of   *)
(* migrations.                                                             *)
(*                                                                         *)
(* Whatever order the hash maps choose, how far a migration has come can   *)
(* be read off the steps that are left: TablesInv says which tables and    *)
(* columns the database has then, exactly.  Types and KeepsColumns follow  *)
(* for both databases; that nothing is refused without a cause, that a     *)
(* migration delivers and that the next diff settles, for SQLite.  On      *)
(* PostgreSQL these also need the types: the second half, EnumsUnderway,   *)
(* follows those and states the three properties for whichever database.   *)
(*                                                                         *)
(* Supposed throughout is NoneSkipped: no table begins with "_", for a     *)
(* table that introspection passes over is created again.  Where types     *)
(* matter, EnumsHaveVariants: a type without labels is not read back.      *)
(* Which foreign keys of a column are read, and which one SQLite inlines,  *)
(* is left open.                                                           *)
(***************************************************************************)
EXTENDS SchemaDiff, TLAPS

-----------------------------------------------------------------------------
(* The inductive invariants. *)

\* The steps are those of the diff, and one that was executed had nothing
\* before it that is still to come.
MigrationInv ==
  /\ migration = Diff(provider, from, schema)
  /\ steps \subseteq migration
  /\ \A s \in migration \ steps, r \in steps : ~ Precedes(r, s, migration)

\* What the control state says.
ControlInv ==
  /\ provider \in Providers
  /\ schema \in Schemas \cup {Empty} /\ snapshot \in Schemas \cup {Empty}
  /\ devs \in 0 .. MaxMigrations
  /\ pc \in {"idle", "apply", "applied", "refused"}
  /\ steps # {} <=> pc \in {"apply", "refused"}

\* Columns are of tables, keys and foreign keys of columns, types exist.
IsDatabase(d) ==
  /\ DOMAIN d = DOMAIN Empty
  /\ \A tc \in Columns(d) :
       /\ tc = <<tc[1], tc[2]>> /\ tc[1] \in Tables(d)
       /\ DOMAIN d.columns[tc] = {"type", "optional", "default", "unique"}
       /\ d.columns[tc].type \in Scalars \cup DOMAIN d.enums
  /\ \A k \in KeysOf(d) :
       /\ k = [table |-> k.table, columns |-> k.columns] /\ k.table \in Tables(d)
       /\ \A c \in k.columns : <<k.table, c>> \in Columns(d)
  /\ \A fk \in d.fks : fk.table \in Tables(d)
  /\ provider = "SQLite" => DOMAIN d.enums = {}

DatabaseInv == IsDatabase(db) /\ IsDatabase(base)

\* A schema, or what was read back: every table has a column.
IsShape(s) ==
  /\ \A tc \in Columns(s) : tc = <<tc[1], tc[2]>> /\ tc[1] \in Tables(s)
  /\ \A t \in Tables(s) : \E tc \in Columns(s) : tc[1] = t
  /\ \A k \in KeysOf(s) : k = [table |-> k.table, columns |-> k.columns] /\ k.table \in Tables(s)
  /\ \A fk \in s.fks : fk.table \in Tables(s)

Pending(op, t, cs) == Step(op, t, cs, "none") \in steps

\* The tables after the steps that were executed: those that stay, those that
\* are yet to be dropped, and those that were created.
HasTable(t) ==
  IF t \in Tables(from) THEN t \in Tables(schema) \/ Pending("DropTable", t, {})
  ELSE t \in Tables(schema) /\ ~ Pending("CreateTable", t, {})

HasColumn(tc) ==
  IF tc \in Columns(from)
  THEN \/ tc \in Columns(schema)
       \/ tc[1] \in Tables(schema) /\ Pending("DropColumn", tc[1], {tc[2]})
       \/ tc[1] \notin Tables(schema) /\ Pending("DropTable", tc[1], {})
  ELSE /\ tc \in Columns(schema)
       /\ IF tc[1] \in Tables(from) THEN ~ Pending("AddColumn", tc[1], {tc[2]})
          ELSE ~ Pending("CreateTable", tc[1], {})

Underway ==
  /\ \A t : t \in Tables(db) <=> HasTable(t)
  /\ \A tc : tc \in Columns(db) <=> HasColumn(tc)

\* Between migrations the database has the shape of the latest snapshot; so
\* has the one that a refused migration is discarded to.
SameShape(d, s) == Tables(d) = Tables(s) /\ Columns(d) = Columns(s)

TablesInv ==
  /\ IsShape(from)
  /\ pc \in {"idle", "applied"} => SameShape(db, snapshot)
  /\ pc = "applied" => SameShape(db, schema)
  /\ pc \in {"apply", "refused"} => SameShape(base, snapshot)
  /\ pc \in {"apply", "refused"} => Underway

\* Unique constraints of the schema are there or on their way.
UniquesInv ==
  /\ pc \in {"idle", "applied"} => snapshot.uniques \subseteq db.uniques
  /\ pc = "applied" => schema.uniques \subseteq db.uniques
  /\ pc \in {"apply", "refused"} => snapshot.uniques \subseteq base.uniques
  /\ pc = "apply" => \A u \in schema.uniques : u \in db.uniques \/ Pending("AddUnique", u.table, u.columns)

\* So are indexes, but that the index of a constraint passes for one on
\* PostgreSQL: of a constraint that no diff knows of, and so none drops.
Indexed(d, s) ==
  \A i \in s.indexes : i \in d.indexes \/ (provider = "PostgreSQL" /\ i \in d.uniques \ s.uniques)

IndexesUnderway ==
  \A i \in schema.indexes :
    \/ i \in db.indexes
    \/ Pending("CreateIndex", i.table, i.columns)
    \/ /\ provider = "PostgreSQL" /\ i \in db.uniques \ from.uniques
       /\ i \in schema.uniques => Pending("AddUnique", i.table, i.columns)

IndexesInv ==
  /\ pc \in {"idle", "applied"} => Indexed(db, snapshot)
  /\ pc = "applied" => Indexed(db, schema)
  /\ pc \in {"apply", "refused"} => Indexed(base, snapshot)
  /\ pc = "apply" => IndexesUnderway

\* On SQLite a table is created with a foreign key on each column that has one.
InlineInv ==
  provider = "SQLite" /\ pc \in {"apply", "applied"} =>
    \A fk \in schema.fks : Creates(fk.table, migration) =>
      \/ \E f \in db.fks \cap schema.fks : SameColumn(f, fk)
      \/ Pending("CreateTable", fk.table, {})

\* On PostgreSQL keys are those of the schema in the end.
SameKeys(d, s) == \A t \in Tables(d) \cap Tables(s) : d.keys[t] = s.keys[t]

KeysInv ==
  provider = "PostgreSQL" =>
    /\ pc \in {"idle", "applied"} => SameKeys(db, snapshot)
    /\ pc = "applied" => SameKeys(db, schema)
    /\ pc \in {"apply", "refused"} => SameKeys(base, snapshot)
    /\ pc = "apply" => \A t \in Tables(db) \cap Tables(schema) :
                         db.keys[t] = schema.keys[t] \/ Pending("AlterPrimaryKey", t, {})

Adds(fk) == Step("AddForeignKey", fk.table, {fk.column}, fk.ref)
DropsIt(fk) == Step("DropForeignKey", fk.table, {fk.column}, fk.ref)

\* On PostgreSQL no foreign key dangles, and no two have one name.
SoundForeignKeys(d) ==
  /\ \A fk \in d.fks : fk.ref \in Tables(d)
  /\ \A f, g \in d.fks : f.table = g.table /\ f.column = g.column /\ f.ref = g.ref => f = g

\* The diff may have missed foreign keys that are there, but took none for
\* there that is not; a dropped one never takes an added one of its name along,
\* for all drops come first.
ForeignKeysUnderway ==
  /\ ForeignKeys(from) = from.fks /\ from.fks \subseteq base.fks
  /\ \A fk \in schema.fks : fk \in db.fks \/ Adds(fk) \in steps
  /\ \A fk \in db.fks : fk \in schema.fks \/ DropsIt(fk) \in steps \/ fk \in base.fks \ from.fks
  /\ \A fk \in db.fks : fk \in base.fks \/ Adds(fk) \in migration \ steps

ForeignKeysInv ==
  provider = "PostgreSQL" =>
    /\ SoundForeignKeys(db) /\ SoundForeignKeys(base)
    /\ pc \in {"idle", "applied"} => snapshot.fks \subseteq db.fks
    /\ pc = "applied" => schema.fks \subseteq db.fks /\ db.fks \ schema.fks \subseteq base.fks \ from.fks
    /\ pc \in {"apply", "refused"} => snapshot.fks \subseteq base.fks
    /\ pc = "apply" => ForeignKeysUnderway

-----------------------------------------------------------------------------
(* What is in a diff. *)

ColumnOps == {"AddColumn", "DropColumn", "AlterColumn"}

EnumOps == {"CreateEnum", "DropEnum", "AlterEnumName", "AddEnumVariant"}

\* The kinds of steps, and what each is about.
CreatesEnum(s, old, new) ==
  \E e \in new.enums : s = Step("CreateEnum", e.db, {}, "none") /\ Named(e.name, old.enums) = {}

DropsEnum(s, old, new) ==
  \E e \in old.enums : s = Step("DropEnum", e.db, {}, "none") /\ Named(e.name, new.enums) = {}

RenamesEnum(s, old, new) ==
  \E o \in old.enums, e \in new.enums :
    s = Step("AlterEnumName", o.db, {}, e.db) /\ o.name = e.name /\ o.db # e.db

AddsVariant(s, old, new) ==
  \E o \in old.enums, e \in new.enums :
    /\ o.name = e.name
    /\ \E v \in e.variants \ o.variants : s = Step("AddEnumVariant", e.db, {v.label}, "none")

CreatesTable(s, old, new) == \E t \in Tables(new) \ Tables(old) : s = Step("CreateTable", t, {}, "none")

DropsTable(s, old, new) == \E t \in Tables(old) \ Tables(new) : s = Step("DropTable", t, {}, "none")

Rekeys(s, old, new) ==
  \E t \in Tables(old) \cap Tables(new) :
    s = Step("AlterPrimaryKey", t, {}, "none") /\ old.keys[t] # new.keys[t]

AddsColumn(s, old, new) ==
  \E tc \in Columns(new) \ Columns(old) :
    s = Step("AddColumn", tc[1], {tc[2]}, "none") /\ tc[1] \in Tables(old) \cap Tables(new)

DropsColumn(s, old, new) ==
  \E tc \in Columns(old) \ Columns(new) :
    s = Step("DropColumn", tc[1], {tc[2]}, "none") /\ tc[1] \in Tables(old) \cap Tables(new)

AltersColumn(s, p, old, new) ==
  \E tc \in Columns(old) \cap Columns(new) :
    /\ s = Step("AlterColumn", tc[1], {tc[2]}, "none") /\ tc[1] \in Tables(old) \cap Tables(new)
    /\ Altered(p, old, new, tc)

AddsForeignKey(s, old, new) ==
  \E fk \in ForeignKeys(new) \ ForeignKeys(old) :
    s = Step("AddForeignKey", fk.table, {fk.column}, fk.ref)

DropsForeignKey(s, old, new) ==
  \E fk \in ForeignKeys(old) \ ForeignKeys(new) :
    s = Step("DropForeignKey", fk.table, {fk.column}, fk.ref)

CreatesIndex(s, old, new) ==
  \E i \in new.indexes \ old.indexes : s = Step("CreateIndex", i.table, i.columns, "none")

AddsUnique(s, old, new) ==
  \E u \in new.uniques \ old.uniques : s = Step("AddUnique", u.table, u.columns, "none")

DropsUnique(s, old, new) ==
  \E u \in old.uniques \ new.uniques :
    s = Step("DropUnique", u.table, u.columns, "none") /\ u.table \in Tables(new)

LEMMA Fields ==
  \A op, on, what, ref :
    /\ Step(op, on, what, ref).op = op
    /\ Step(op, on, what, ref).on = on
    /\ Step(op, on, what, ref).what = what
    /\ Step(op, on, what, ref).ref = ref
BY DEF Step

LEMMA KindsOfSteps ==
  ASSUME NEW p, NEW old, NEW new, NEW s \in Diff(p, old, new)
  PROVE  \/ CreatesEnum(s, old, new)
         \/ DropsEnum(s, old, new)
         \/ RenamesEnum(s, old, new)
         \/ AddsVariant(s, old, new)
         \/ CreatesTable(s, old, new)
         \/ DropsTable(s, old, new)
         \/ Rekeys(s, old, new)
         \/ AddsColumn(s, old, new)
         \/ DropsColumn(s, old, new)
         \/ AltersColumn(s, p, old, new)
         \/ AddsForeignKey(s, old, new)
         \/ DropsForeignKey(s, old, new)
         \/ CreatesIndex(s, old, new)
         \/ AddsUnique(s, old, new)
         \/ DropsUnique(s, old, new)
<1>1. CASE s \in DiffEnums(old, new)
  <2> DEFINE both == {b \in old.enums \X new.enums : b[1].name = b[2].name}
  <2>1. CASE s \in {Step("CreateEnum", e.db, {}, "none") : e \in {n \in new.enums : Named(n.name, old.enums) = {}}}
    BY <2>1 DEF CreatesEnum
  <2>2. CASE s \in {Step("DropEnum", e.db, {}, "none") : e \in {o \in old.enums : Named(o.name, new.enums) = {}}}
    BY <2>2 DEF DropsEnum
  <2>3. CASE s \in {Step("AlterEnumName", b[1].db, {}, b[2].db) : b \in {b \in both : b[1].db # b[2].db}}
    <3>1. PICK b \in both : b[1].db # b[2].db /\ s = Step("AlterEnumName", b[1].db, {}, b[2].db)
      BY <2>3
    <3>2. QED
      BY <3>1 DEF RenamesEnum
  <2>4. CASE s \in UNION {{Step("AddEnumVariant", b[2].db, {v.label}, "none") : v \in b[2].variants \ b[1].variants}
                            : b \in both}
    <3>1. PICK b \in both : s \in {Step("AddEnumVariant", b[2].db, {v.label}, "none")
                                     : v \in b[2].variants \ b[1].variants}
      BY <2>4
    <3>2. b[1] \in old.enums /\ b[2] \in new.enums /\ b[1].name = b[2].name
      OBVIOUS
    <3>3. QED
      BY <3>1, <3>2 DEF AddsVariant
  <2>5. QED
    BY <1>1, <2>1, <2>2, <2>3, <2>4 DEF DiffEnums
<1>2. CASE s \in DiffColumns(p, old, new)
  <2> DEFINE stay == Tables(old) \cap Tables(new)
             In(x) == {tc \in Columns(x) : tc[1] \in stay}
  <2>1. DiffColumns(p, old, new) =
          {Step("AddColumn", tc[1], {tc[2]}, "none") : tc \in In(new) \ In(old)}
          \cup {Step("DropColumn", tc[1], {tc[2]}, "none") : tc \in In(old) \ In(new)}
          \cup {Step("AlterColumn", tc[1], {tc[2]}, "none")
                  : tc \in {tc \in In(new) \cap In(old) : Altered(p, old, new, tc)}}
    BY DEF DiffColumns
  <2>2. CASE s \in {Step("AddColumn", tc[1], {tc[2]}, "none") : tc \in In(new) \ In(old)}
    BY <2>2 DEF AddsColumn
  <2>3. CASE s \in {Step("DropColumn", tc[1], {tc[2]}, "none") : tc \in In(old) \ In(new)}
    BY <2>3 DEF DropsColumn
  <2>4. CASE s \in {Step("AlterColumn", tc[1], {tc[2]}, "none")
                     : tc \in {tc \in In(new) \cap In(old) : Altered(p, old, new, tc)}}
    BY <2>4 DEF AltersColumn
  <2>5. QED
    BY <1>2, <2>1, <2>2, <2>3, <2>4
<1>3. CASE s \in DiffModels(p, old, new) \ DiffColumns(p, old, new)
  BY <1>3 DEF DiffModels, CreatesTable, DropsTable, Rekeys
<1>4. CASE s \in DiffForeignKeys(old, new)
  BY <1>4 DEF DiffForeignKeys, AddsForeignKey, DropsForeignKey
<1>5. CASE s \in DiffIndexes(old, new)
  BY <1>5 DEF DiffIndexes, CreatesIndex
<1>6. CASE s \in DiffUniques(old, new)
  BY <1>6 DEF DiffUniques, AddsUnique, DropsUnique
<1>7. QED
  BY <1>1, <1>2, <1>3, <1>4, <1>5, <1>6 DEF Diff

Ops == {"CreateTable", "DropTable", "AlterPrimaryKey", "AddForeignKey", "DropForeignKey",
        "CreateIndex", "AddUnique", "DropUnique"} \cup ColumnOps \cup EnumOps

LEMMA OpsOfSteps ==
  ASSUME NEW p, NEW old, NEW new, NEW s
  PROVE  /\ CreatesEnum(s, old, new) => s.op = "CreateEnum" /\ s = Step(s.op, s.on, s.what, s.ref)
         /\ DropsEnum(s, old, new) => s.op = "DropEnum" /\ s = Step(s.op, s.on, s.what, s.ref)
         /\ RenamesEnum(s, old, new) => s.op = "AlterEnumName" /\ s = Step(s.op, s.on, s.what, s.ref)
         /\ AddsVariant(s, old, new) => s.op = "AddEnumVariant" /\ s = Step(s.op, s.on, s.what, s.ref)
         /\ CreatesTable(s, old, new) => s.op = "CreateTable" /\ s = Step(s.op, s.on, s.what, s.ref)
         /\ DropsTable(s, old, new) => s.op = "DropTable" /\ s = Step(s.op, s.on, s.what, s.ref)
         /\ Rekeys(s, old, new) => s.op = "AlterPrimaryKey" /\ s = Step(s.op, s.on, s.what, s.ref)
         /\ AddsColumn(s, old, new) => s.op = "AddColumn" /\ s = Step(s.op, s.on, s.what, s.ref)
         /\ DropsColumn(s, old, new) => s.op = "DropColumn" /\ s = Step(s.op, s.on, s.what, s.ref)
         /\ AltersColumn(s, p, old, new) => s.op = "AlterColumn" /\ s = Step(s.op, s.on, s.what, s.ref)
         /\ AddsForeignKey(s, old, new) => s.op = "AddForeignKey" /\ s = Step(s.op, s.on, s.what, s.ref)
         /\ DropsForeignKey(s, old, new) => s.op = "DropForeignKey" /\ s = Step(s.op, s.on, s.what, s.ref)
         /\ CreatesIndex(s, old, new) => s.op = "CreateIndex" /\ s = Step(s.op, s.on, s.what, s.ref)
         /\ AddsUnique(s, old, new) => s.op = "AddUnique" /\ s = Step(s.op, s.on, s.what, s.ref)
         /\ DropsUnique(s, old, new) => s.op = "DropUnique" /\ s = Step(s.op, s.on, s.what, s.ref)
<1>1. /\ CreatesEnum(s, old, new) => s.op = "CreateEnum" /\ s = Step(s.op, s.on, s.what, s.ref)
      /\ DropsEnum(s, old, new) => s.op = "DropEnum" /\ s = Step(s.op, s.on, s.what, s.ref)
  BY Fields DEF CreatesEnum, DropsEnum
<1>2. RenamesEnum(s, old, new) => s.op = "AlterEnumName" /\ s = Step(s.op, s.on, s.what, s.ref)
  BY Fields DEF RenamesEnum
<1>3. AddsVariant(s, old, new) => s.op = "AddEnumVariant" /\ s = Step(s.op, s.on, s.what, s.ref)
  BY Fields DEF AddsVariant
<1>4. CreatesTable(s, old, new) => s.op = "CreateTable" /\ s = Step(s.op, s.on, s.what, s.ref)
  BY Fields DEF CreatesTable
<1>5. DropsTable(s, old, new) => s.op = "DropTable" /\ s = Step(s.op, s.on, s.what, s.ref)
  BY Fields DEF DropsTable
<1>6. Rekeys(s, old, new) => s.op = "AlterPrimaryKey" /\ s = Step(s.op, s.on, s.what, s.ref)
  BY Fields DEF Rekeys
<1>7. AddsColumn(s, old, new) => s.op = "AddColumn" /\ s = Step(s.op, s.on, s.what, s.ref)
  BY Fields DEF AddsColumn
<1>8. DropsColumn(s, old, new) => s.op = "DropColumn" /\ s = Step(s.op, s.on, s.what, s.ref)
  BY Fields DEF DropsColumn
<1>9. AltersColumn(s, p, old, new) => s.op = "AlterColumn" /\ s = Step(s.op, s.on, s.what, s.ref)
  BY Fields DEF AltersColumn
<1>10. AddsForeignKey(s, old, new) => s.op = "AddForeignKey" /\ s = Step(s.op, s.on, s.what, s.ref)
  BY Fields DEF AddsForeignKey
<1>11. DropsForeignKey(s, old, new) => s.op = "DropForeignKey" /\ s = Step(s.op, s.on, s.what, s.ref)
  BY Fields DEF DropsForeignKey
<1>12. CreatesIndex(s, old, new) => s.op = "CreateIndex" /\ s = Step(s.op, s.on, s.what, s.ref)
  BY Fields DEF CreatesIndex
<1>13. AddsUnique(s, old, new) => s.op = "AddUnique" /\ s = Step(s.op, s.on, s.what, s.ref)
  BY Fields DEF AddsUnique
<1>14. DropsUnique(s, old, new) => s.op = "DropUnique" /\ s = Step(s.op, s.on, s.what, s.ref)
  BY Fields DEF DropsUnique
<1> QED
  BY <1>1, <1>2, <1>3, <1>4, <1>5, <1>6, <1>7, <1>8, <1>9, <1>10, <1>11, <1>12, <1>13, <1>14

\* A step is what it says.
LEMMA StepIsRecord ==
  ASSUME NEW p, NEW old, NEW new, NEW s \in Diff(p, old, new)
  PROVE  s.op \in Ops /\ s = Step(s.op, s.on, s.what, s.ref)
BY KindsOfSteps, OpsOfSteps DEF Ops, ColumnOps, EnumOps

\* What it says tells its kind.
LEMMA StepsOfDiff ==
  ASSUME NEW p, NEW old, NEW new, NEW s \in Diff(p, old, new)
  PROVE  /\ s.op = "CreateEnum" => CreatesEnum(s, old, new)
         /\ s.op = "DropEnum" => DropsEnum(s, old, new)
         /\ s.op = "AlterEnumName" => RenamesEnum(s, old, new)
         /\ s.op = "AddEnumVariant" => AddsVariant(s, old, new)
         /\ s.op = "CreateTable" => CreatesTable(s, old, new)
         /\ s.op = "DropTable" => DropsTable(s, old, new)
         /\ s.op = "AlterPrimaryKey" => Rekeys(s, old, new)
         /\ s.op = "AddColumn" => AddsColumn(s, old, new)
         /\ s.op = "DropColumn" => DropsColumn(s, old, new)
         /\ s.op = "AlterColumn" => AltersColumn(s, p, old, new)
         /\ s.op = "AddForeignKey" => AddsForeignKey(s, old, new)
         /\ s.op = "DropForeignKey" => DropsForeignKey(s, old, new)
         /\ s.op = "CreateIndex" => CreatesIndex(s, old, new)
         /\ s.op = "AddUnique" => AddsUnique(s, old, new)
         /\ s.op = "DropUnique" => DropsUnique(s, old, new)
BY KindsOfSteps, OpsOfSteps

\* A step on a column is about one column, of a table that stays.
LEMMA ColumnOf ==
  ASSUME NEW p, NEW old, NEW new, NEW s \in Diff(p, old, new), s.op \in ColumnOps
  PROVE  \E tc : /\ s.on = tc[1] /\ s.what = {tc[2]} /\ s.ref = "none"
                 /\ tc[1] \in Tables(old) \cap Tables(new)
                 /\ s.op = "AddColumn" => tc \in Columns(new) \ Columns(old)
                 /\ s.op = "DropColumn" => tc \in Columns(old) \ Columns(new)
                 /\ s.op = "AlterColumn" =>
                      tc \in Columns(old) \cap Columns(new) /\ Altered(p, old, new, tc)
<1>1. CASE s.op = "AddColumn"
  <2>1. AddsColumn(s, old, new)
    BY <1>1, StepsOfDiff
  <2>2. PICK tc \in Columns(new) \ Columns(old) :
          s = Step("AddColumn", tc[1], {tc[2]}, "none") /\ tc[1] \in Tables(old) \cap Tables(new)
    BY <2>1 DEF AddsColumn
  <2>3. s.on = tc[1] /\ s.what = {tc[2]} /\ s.ref = "none"
    BY <2>2, Fields
  <2>4. QED
    BY <1>1, <2>2, <2>3
<1>2. CASE s.op = "DropColumn"
  <2>1. DropsColumn(s, old, new)
    BY <1>2, StepsOfDiff
  <2>2. PICK tc \in Columns(old) \ Columns(new) :
          s = Step("DropColumn", tc[1], {tc[2]}, "none") /\ tc[1] \in Tables(old) \cap Tables(new)
    BY <2>1 DEF DropsColumn
  <2>3. s.on = tc[1] /\ s.what = {tc[2]} /\ s.ref = "none"
    BY <2>2, Fields
  <2>4. QED
    BY <1>2, <2>2, <2>3
<1>3. CASE s.op = "AlterColumn"
  <2>1. AltersColumn(s, p, old, new)
    BY <1>3, StepsOfDiff
  <2>2. PICK tc \in Columns(old) \cap Columns(new) :
          /\ s = Step("AlterColumn", tc[1], {tc[2]}, "none") /\ tc[1] \in Tables(old) \cap Tables(new)
          /\ Altered(p, old, new, tc)
    BY <2>1 DEF AltersColumn
  <2>3. s.on = tc[1] /\ s.what = {tc[2]} /\ s.ref = "none"
    BY <2>2, Fields
  <2>4. QED
    BY <1>3, <2>2, <2>3
<1>4. QED
  BY <1>1, <1>2, <1>3 DEF ColumnOps

\* So is one on a foreign key, an index or a unique constraint.
LEMMA ForeignKeyOf ==
  ASSUME NEW p, NEW old, NEW new, NEW s \in Diff(p, old, new),
         s.op \in {"AddForeignKey", "DropForeignKey"}
  PROVE  \E fk : /\ s.on = fk.table /\ s.what = {fk.column} /\ s.ref = fk.ref
                 /\ s.op = "AddForeignKey" => fk \in ForeignKeys(new) \ ForeignKeys(old)
                 /\ s.op = "DropForeignKey" => fk \in ForeignKeys(old) \ ForeignKeys(new)
<1>1. CASE s.op = "AddForeignKey"
  <2>1. AddsForeignKey(s, old, new)
    BY <1>1, StepsOfDiff
  <2>2. PICK fk \in ForeignKeys(new) \ ForeignKeys(old) : s = Step("AddForeignKey", fk.table, {fk.column}, fk.ref)
    BY <2>1 DEF AddsForeignKey
  <2>3. QED
    BY <1>1, <2>2, Fields
<1>2. CASE s.op = "DropForeignKey"
  <2>1. DropsForeignKey(s, old, new)
    BY <1>2, StepsOfDiff
  <2>2. PICK fk \in ForeignKeys(old) \ ForeignKeys(new) : s = Step("DropForeignKey", fk.table, {fk.column}, fk.ref)
    BY <2>1 DEF DropsForeignKey
  <2>3. QED
    BY <1>2, <2>2, Fields
<1>3. QED
  BY <1>1, <1>2

LEMMA KeyOf ==
  ASSUME NEW p, NEW old, NEW new, NEW s \in Diff(p, old, new),
         s.op \in {"CreateIndex", "AddUnique", "DropUnique"}
  PROVE  \E k : /\ s.on = k.table /\ s.what = k.columns /\ s.ref = "none"
                /\ s.op = "CreateIndex" => k \in new.indexes \ old.indexes
                /\ s.op = "AddUnique" => k \in new.uniques \ old.uniques
                /\ s.op = "DropUnique" => k \in old.uniques \ new.uniques /\ k.table \in Tables(new)
<1>1. CASE s.op = "CreateIndex"
  <2>1. CreatesIndex(s, old, new)
    BY <1>1, StepsOfDiff
  <2>2. PICK k \in new.indexes \ old.indexes : s = Step("CreateIndex", k.table, k.columns, "none")
    BY <2>1 DEF CreatesIndex
  <2>3. QED
    BY <1>1, <2>2, Fields
<1>2. CASE s.op = "AddUnique"
  <2>1. AddsUnique(s, old, new)
    BY <1>2, StepsOfDiff
  <2>2. PICK k \in new.uniques \ old.uniques : s = Step("AddUnique", k.table, k.columns, "none")
    BY <2>1 DEF AddsUnique
  <2>3. QED
    BY <1>2, <2>2, Fields
<1>3. CASE s.op = "DropUnique"
  <2>1. DropsUnique(s, old, new)
    BY <1>3, StepsOfDiff
  <2>2. PICK k \in old.uniques \ new.uniques :
          s = Step("DropUnique", k.table, k.columns, "none") /\ k.table \in Tables(new)
    BY <2>1 DEF DropsUnique
  <2>3. QED
    BY <1>3, <2>2, Fields
<1>4. QED
  BY <1>1, <1>2, <1>3

\* Two columns of one table and one name are the same.
LEMMA SamePair ==
  ASSUME NEW a, NEW b, a = <<a[1], a[2]>>, b = <<b[1], b[2]>>, a[1] = b[1], {a[2]} = {b[2]}
  PROVE  a = b
<1>1. a[2] = b[2]
  <2>1. a[2] \in {b[2]}
    BY ONLY {a[2]} = {b[2]}
  <2>2. QED
    BY <2>1
<1>2. QED
  BY <1>1

\* What differs has its step.
LEMMA DiffHasSteps ==
  ASSUME NEW p, NEW old, NEW new
  PROVE  /\ \A t \in Tables(new) \ Tables(old) : Step("CreateTable", t, {}, "none") \in Diff(p, old, new)
         /\ \A t \in Tables(old) \ Tables(new) : Step("DropTable", t, {}, "none") \in Diff(p, old, new)
         /\ \A tc \in Columns(new) \ Columns(old) :
              tc[1] \in Tables(old) \cap Tables(new)
                => Step("AddColumn", tc[1], {tc[2]}, "none") \in Diff(p, old, new)
         /\ \A tc \in Columns(old) \ Columns(new) :
              tc[1] \in Tables(old) \cap Tables(new)
                => Step("DropColumn", tc[1], {tc[2]}, "none") \in Diff(p, old, new)
         /\ \A t \in Tables(old) \cap Tables(new) :
              old.keys[t] # new.keys[t] => Step("AlterPrimaryKey", t, {}, "none") \in Diff(p, old, new)
         /\ \A fk \in ForeignKeys(new) \ ForeignKeys(old) :
              Step("AddForeignKey", fk.table, {fk.column}, fk.ref) \in Diff(p, old, new)
         /\ \A fk \in ForeignKeys(old) \ ForeignKeys(new) :
              Step("DropForeignKey", fk.table, {fk.column}, fk.ref) \in Diff(p, old, new)
         /\ \A i \in new.indexes \ old.indexes :
              Step("CreateIndex", i.table, i.columns, "none") \in Diff(p, old, new)
         /\ \A u \in new.uniques \ old.uniques :
              Step("AddUnique", u.table, u.columns, "none") \in Diff(p, old, new)
<1>1. /\ \A t \in Tables(new) \ Tables(old) : Step("CreateTable", t, {}, "none") \in DiffModels(p, old, new)
      /\ \A t \in Tables(old) \ Tables(new) : Step("DropTable", t, {}, "none") \in DiffModels(p, old, new)
      /\ \A t \in Tables(old) \cap Tables(new) :
           old.keys[t] # new.keys[t] => Step("AlterPrimaryKey", t, {}, "none") \in DiffModels(p, old, new)
  BY DEF DiffModels
<1>2. ASSUME NEW tc \in Columns(new) \ Columns(old), tc[1] \in Tables(old) \cap Tables(new)
      PROVE  Step("AddColumn", tc[1], {tc[2]}, "none") \in DiffColumns(p, old, new)
  BY <1>2 DEF DiffColumns
<1>3. ASSUME NEW tc \in Columns(old) \ Columns(new), tc[1] \in Tables(old) \cap Tables(new)
      PROVE  Step("DropColumn", tc[1], {tc[2]}, "none") \in DiffColumns(p, old, new)
  BY <1>3 DEF DiffColumns
<1>4. DiffColumns(p, old, new) \subseteq DiffModels(p, old, new)
  BY DEF DiffModels
<1>5. /\ \A fk \in ForeignKeys(new) \ ForeignKeys(old) :
           Step("AddForeignKey", fk.table, {fk.column}, fk.ref) \in DiffForeignKeys(old, new)
      /\ \A fk \in ForeignKeys(old) \ ForeignKeys(new) :
           Step("DropForeignKey", fk.table, {fk.column}, fk.ref) \in DiffForeignKeys(old, new)
  BY DEF DiffForeignKeys
<1>6. \A i \in new.indexes \ old.indexes :
        Step("CreateIndex", i.table, i.columns, "none") \in DiffIndexes(old, new)
  BY DEF DiffIndexes
<1>7. \A u \in new.uniques \ old.uniques :
        Step("AddUnique", u.table, u.columns, "none") \in DiffUniques(old, new)
  BY DEF DiffUniques
<1>8. QED
  BY <1>1, <1>2, <1>3, <1>4, <1>5, <1>6, <1>7 DEF Diff

\* Two steps are the same if they say the same.
LEMMA SameStep ==
  ASSUME NEW p, NEW old, NEW new, NEW s \in Diff(p, old, new),
         NEW op, NEW t, NEW cs, NEW ref
  PROVE  s = Step(op, t, cs, ref) <=> s.op = op /\ s.on = t /\ s.what = cs /\ s.ref = ref
<1>1. s = Step(s.op, s.on, s.what, s.ref)
  BY StepIsRecord
<1>2. QED
  BY <1>1 DEF Step

-----------------------------------------------------------------------------
(* What a statement does to tables and columns. *)

LEMMA EffectOnTables ==
  ASSUME NEW s, s.op \in Ops, DOMAIN db = DOMAIN Empty, db' = After(s),
         NEW c, s.what = {c} \/ s.op \notin ColumnOps
  PROVE  /\ DOMAIN db' = DOMAIN Empty
         /\ s.op = "CreateTable" =>
              /\ Tables(db') = Tables(db) \cup {s.on}
              /\ Columns(db') = Columns(db) \cup {tc \in Columns(schema) : tc[1] = s.on}
         /\ s.op = "DropTable" =>
              /\ Tables(db') = Tables(db) \ {s.on}
              /\ Columns(db') = {tc \in Columns(db) : tc[1] # s.on}
         /\ s.op = "AddColumn" =>
              /\ Tables(db') = Tables(db)
              /\ Columns(db') = Columns(db) \cup {<<s.on, c>>}
         /\ s.op = "DropColumn" =>
              /\ Tables(db') = Tables(db)
              /\ Columns(db') = Columns(db) \ {<<s.on, c>>}
         /\ s.op \notin {"CreateTable", "DropTable", "AddColumn", "DropColumn"} =>
              Tables(db') = Tables(db) /\ Columns(db') = Columns(db)
<1> USE DEF Empty, Tables, Columns, Commented, ColumnOps
<1>1. CASE IsComment(s)
  <2>1. db' = db
    BY <1>1 DEF After
  <2>2. s.op \in Commented
    BY <1>1 DEF IsComment
  <2>3. QED
    BY <2>1, <2>2
<1>2. CASE s.op = "CreateTable"
  BY <1>2 DEF After, CreateTable, Joined, With, IsComment
<1>3. CASE s.op = "DropTable"
  BY <1>3 DEF After, DropTable, Without, Restrict, IsComment
<1>4. CASE s.op = "AddColumn"
  <2>1. (CHOOSE d \in s.what : TRUE) = c
    BY <1>4
  <2>2. QED
    BY <1>4, <2>1 DEF After, Joined, With, IsComment
<1>5. CASE s.op = "DropColumn"
  <2>1. (CHOOSE d \in s.what : TRUE) = c
    BY <1>5
  <2>2. QED
    BY <1>5, <2>1 DEF After, DropColumn, Without, Restrict, IsComment
<1>6. CASE s.op = "AlterColumn" /\ ~ IsComment(s)
  BY <1>6 DEF After
<1>7. CASE s.op = "AlterEnumName" /\ ~ IsComment(s)
  BY <1>7 DEF After, RenameEnum
<1>8. CASE s.op \in {"CreateEnum", "DropEnum", "AddEnumVariant", "AlterPrimaryKey", "AddForeignKey",
                     "DropForeignKey", "CreateIndex", "AddUnique", "DropUnique"} /\ ~ IsComment(s)
  BY <1>8 DEF After
<1>9. QED
  BY <1>1, <1>2, <1>3, <1>4, <1>5, <1>6, <1>7, <1>8 DEF Ops, EnumOps

-----------------------------------------------------------------------------
(* The order of the steps. *)

LEMMA PlaceOf ==
  ASSUME NEW s, NEW m
  PROVE  /\ s.op \in {"AddColumn", "DropColumn", "AlterColumn", "AlterPrimaryKey"} => Place(s, m) = 5
         /\ s.op = "DropForeignKey" => Place(s, m) = 6
         /\ s.op = "CreateIndex" => Place(s, m) = IF Creates(s.on, m) THEN 12 ELSE 7
         /\ s.op = "AddUnique" => Place(s, m) = IF Creates(s.on, m) THEN 13 ELSE 8
         /\ s.op = "CreateTable" => Place(s, m) = 10
         /\ s.op = "AddForeignKey" => Place(s, m) = 11
BY DEF Place

\* Columns come before keys, indexes and foreign keys; new tables before the
\* foreign keys and the indexes on them; within a table, new columns before
\* dropped ones, and both before the key.
LEMMA Order ==
  ASSUME NEW r, NEW s, NEW m
  PROVE  /\ r.op \in {"AddColumn", "DropColumn"} /\ s.op \in {"CreateIndex", "AddUnique", "AddForeignKey"}
              => Precedes(r, s, m)
         /\ r.op = "CreateTable" /\ s.op = "AddForeignKey" => Precedes(r, s, m)
         /\ r.op = "CreateTable" /\ s.op \in {"CreateIndex", "AddUnique"} /\ Creates(s.on, m)
              => Precedes(r, s, m)
         /\ r.op = "DropForeignKey" /\ s.op = "AddForeignKey" => Precedes(r, s, m)
         /\ r.op = "AddColumn" /\ s.op = "DropColumn" /\ r.on = s.on => Precedes(r, s, m)
         /\ r.op = "DropColumn" /\ s.op = "AlterPrimaryKey" /\ r.on = s.on => Precedes(r, s, m)
<1>1. ASSUME r.op \in {"AddColumn", "DropColumn"}, s.op \in {"CreateIndex", "AddUnique", "AddForeignKey"}
      PROVE  Precedes(r, s, m)
  <2>1. Place(r, m) = 5 /\ Place(s, m) \in {7, 8, 11, 12, 13}
    BY <1>1, PlaceOf
  <2>2. QED
    BY <2>1 DEF Precedes
<1>2. ASSUME r.op = "CreateTable" \/ r.op = "DropForeignKey", s.op = "AddForeignKey"
      PROVE  Precedes(r, s, m)
  <2>1. Place(r, m) \in {6, 10} /\ Place(s, m) = 11
    BY <1>2, PlaceOf
  <2>2. QED
    BY <2>1 DEF Precedes
<1>3. ASSUME r.op = "CreateTable", s.op \in {"CreateIndex", "AddUnique"}, Creates(s.on, m)
      PROVE  Precedes(r, s, m)
  <2>1. Place(r, m) = 10 /\ Place(s, m) \in {12, 13}
    BY <1>3, PlaceOf
  <2>2. QED
    BY <2>1 DEF Precedes
<1>4. ASSUME \/ r.op = "AddColumn" /\ s.op = "DropColumn"
             \/ r.op = "DropColumn" /\ s.op = "AlterPrimaryKey",
             r.on = s.on
      PROVE  Precedes(r, s, m)
  <2>1. Place(r, m) = 5 /\ Place(s, m) = 5
    BY <1>4, PlaceOf
  <2>2. Turn(r.op) < Turn(s.op)
    BY <1>4 DEF Turn
  <2>3. QED
    BY <1>4, <2>1, <2>2 DEF Precedes
<1>5. QED
  BY <1>1, <1>2, <1>3, <1>4

-----------------------------------------------------------------------------
(* Schemas, and what is read back of a database. *)

LEMMA SchemaIsShape ==
  ASSUME NEW s \in Schemas \cup {Empty}
  PROVE  IsShape(s)
<1>1. CASE s \in Schemas
  <2>1. WellFormed(s)
    BY <1>1, SchemaAssumption
  <2>2. ASSUME NEW t \in Tables(s)
        PROVE  \E tc \in Columns(s) : tc[1] = t
    <3>1. PICK c \in Range(s.keys[t]) : TRUE
      BY <2>1 DEF WellFormed
    <3>2. c \in {tc[2] : tc \in {tc \in Columns(s) : tc[1] = t}}
      BY <2>1 DEF WellFormed
    <3>3. QED
      BY <3>2
  <2>3. QED
    BY <2>1, <2>2 DEF WellFormed, IsShape
<1>2. CASE s = Empty
  BY <1>2 DEF Empty, IsShape, Tables, Columns, KeysOf
<1>3. QED
  BY <1>1, <1>2

LEMMA ReadBack ==
  ASSUME NEW p, NEW d, NEW s \in Readings(p, d), IsDatabase(d), Tables(d) \cap Skipped = {}
  PROVE  /\ SameShape(d, s)
         /\ s.fks \in FirstOfEach(d.fks) /\ s.fks \subseteq d.fks /\ s.uniques = {}
         /\ \A t \in Tables(d) : s.keys[t] = IF p = "SQLite" THEN KeyByLayout(d, t) ELSE d.keys[t]
         /\ s.indexes = IF p = "SQLite" THEN d.indexes ELSE KeysOf(d)
         /\ p = "SQLite" => s.enums = {} /\ \E U : s.columns = ReadColumns("SQLite", d, U)
         /\ p # "SQLite" => s.enums = IntrospectEnums(d) /\ s.columns = ReadColumns("PostgreSQL", d, d.uniques)
<1>1. Seen(d) = Tables(d)
  BY DEF Seen
<1>2. \A q, U : DOMAIN ReadColumns(q, d, U) = Columns(d)
  BY <1>1 DEF ReadColumns, IsDatabase
<1>3. \A S : S \subseteq KeysOf(d) \/ S \subseteq d.fks => On(Seen(d), S) = S
  BY <1>1 DEF On, IsDatabase
<1>4. PICK fks \in FirstOfEach(d.fks) : s = Introspect(p, d, fks)
  BY DEF Readings
<1>5. fks \subseteq d.fks
  BY DEF FirstOfEach
<1>6. CASE p = "SQLite"
  <2>1. s = IntrospectSqlite(d, fks)
    BY <1>4, <1>6 DEF Introspect
  <2> DEFINE U == {u \in d.uniques : Cardinality(u.columns) = 1}
  <2>2. s.columns = ReadColumns("SQLite", d, U) /\ s.enums = {} /\ s.uniques = {}
    BY <2>1 DEF IntrospectSqlite
  <2> HIDE DEF U
  <2>3. s.fks = fks /\ s.indexes = d.indexes
    BY <1>3, <1>5, <2>1 DEF IntrospectSqlite, KeysOf
  <2>4. Tables(s) = Tables(d) /\ \A t \in Tables(d) : s.keys[t] = KeyByLayout(d, t)
    BY <1>1, <2>1 DEF IntrospectSqlite, Tables
  <2>5. Columns(s) = Columns(d)
    BY <1>2, <2>2 DEF Columns
  <2>6. QED
    BY <1>4, <1>5, <1>6, <2>2, <2>3, <2>4, <2>5 DEF SameShape
<1>7. CASE p # "SQLite"
  <2>1. s = IntrospectPostgres(d, fks)
    BY <1>4, <1>7 DEF Introspect
  <2>2. /\ s.columns = ReadColumns("PostgreSQL", d, d.uniques)
        /\ s.enums = IntrospectEnums(d) /\ s.uniques = {}
    BY <2>1 DEF IntrospectPostgres
  <2>3. s.fks = fks /\ s.indexes = KeysOf(d)
    BY <1>3, <1>5, <2>1 DEF IntrospectPostgres
  <2>4. Tables(s) = Tables(d) /\ \A t \in Tables(d) : s.keys[t] = d.keys[t]
    BY <1>1, <2>1 DEF IntrospectPostgres, Tables, Restrict
  <2>5. Columns(s) = Columns(d)
    BY <1>2, <2>2 DEF Columns
  <2>6. QED
    BY <1>4, <1>5, <1>7, <2>2, <2>3, <2>4, <2>5 DEF SameShape
<1>8. QED
  BY <1>6, <1>7

\* Between migrations there is no table that introspection passes over.
LEMMA NoTableSkipped ==
  ASSUME NoneSkipped, SameShape(db, snapshot), snapshot \in Schemas \cup {Empty}
  PROVE  Tables(db) \cap Skipped = {}
BY DEF NoneSkipped, SameShape, Empty, Tables

\* What a diff starts from has the shape of the database and of the snapshot.
LEMMA FromIsShape ==
  ASSUME NoneSkipped, DatabaseInv, SameShape(db, snapshot), snapshot \in Schemas \cup {Empty},
         NEW old \in Readings(provider, db) \cup {snapshot}
  PROVE  IsShape(old) /\ SameShape(db, old)
<1>1. IsShape(snapshot)
  BY SchemaIsShape
<1>2. CASE old = snapshot
  BY <1>1, <1>2
<1>3. CASE old \in Readings(provider, db)
  <2>1. /\ SameShape(db, old) /\ old.fks \subseteq db.fks /\ old.uniques = {}
        /\ old.indexes = IF provider = "SQLite" THEN db.indexes ELSE KeysOf(db)
    BY <1>3, ReadBack, NoTableSkipped DEF DatabaseInv
  <2>2. KeysOf(old) \subseteq KeysOf(db)
    BY <2>1 DEF KeysOf
  <2>3. QED
    BY <1>1, <2>1, <2>2 DEF IsShape, SameShape, DatabaseInv, IsDatabase
<1>4. QED
  BY <1>2, <1>3

\* Without steps, nothing differs.
LEMMA NoStepsSameShape ==
  ASSUME NEW p, NEW old, NEW new, IsShape(old), IsShape(new), Diff(p, old, new) = {}
  PROVE  /\ SameShape(old, new)
         /\ new.uniques \subseteq old.uniques /\ new.indexes \subseteq old.indexes
<1>1. Tables(old) = Tables(new)
  BY DiffHasSteps
<1>2. Columns(new) \ Columns(old) = {}
  BY <1>1, DiffHasSteps DEF IsShape
<1>3. Columns(old) \ Columns(new) = {}
  BY <1>1, DiffHasSteps DEF IsShape
<1>4. new.uniques \subseteq old.uniques /\ new.indexes \subseteq old.indexes
  BY DiffHasSteps
<1>5. QED
  BY <1>1, <1>2, <1>3, <1>4 DEF SameShape

-----------------------------------------------------------------------------
(* Tables and columns. *)

LEMMA PendingAfter ==
  ASSUME MigrationInv, NEW s \in steps, steps' = steps \ {s}
  PROVE  /\ s \in Diff(provider, from, schema)
         /\ \A op, t, cs : Pending(op, t, cs)' <=>
              /\ Pending(op, t, cs)
              /\ ~ (s.op = op /\ s.on = t /\ s.what = cs /\ s.ref = "none")
<1>1. s \in Diff(provider, from, schema)
  BY DEF MigrationInv
<1>2. QED
  BY <1>1, SameStep DEF Pending

LEMMA ExecuteKeepsUnderway ==
  ASSUME MigrationInv, DatabaseInv, IsShape(from), IsShape(schema), Underway,
         NEW s \in steps, db' = After(s), steps' = steps \ {s}, UNCHANGED <<from, schema>>
  PROVE  Underway'
<1> DEFINE t == s.on
<1>1. /\ s \in Diff(provider, from, schema)
      /\ s.op \in Ops /\ s = Step(s.op, s.on, s.what, s.ref)
  BY PendingAfter, StepIsRecord
<1>2. PICK c : s.what = {c} \/ s.op \notin ColumnOps
  <2>1. CASE s.op \in ColumnOps
    <3>1. PICK tc : s.what = {tc[2]}
      BY <1>1, <2>1, ColumnOf
    <3>2. QED
      BY <3>1
  <2>2. QED
    BY <2>1
<1>3. DOMAIN db = DOMAIN Empty
  BY DEF DatabaseInv, IsDatabase
<1>4. \A op, u, cs : Pending(op, u, cs)' <=>
        Pending(op, u, cs) /\ ~ (s.op = op /\ s.on = u /\ s.what = cs /\ s.ref = "none")
  BY PendingAfter
<1>5. CASE s.op = "CreateTable"
  <2>1. t \in Tables(schema) \ Tables(from) /\ s.what = {} /\ s.ref = "none"
    BY <1>1, <1>5, StepsOfDiff, Fields DEF CreatesTable
  <2>2. \A u : HasTable(u)' <=> HasTable(u) \/ u = t
    BY <1>4, <1>5, <2>1 DEF HasTable
  <2>3. \A tc : HasColumn(tc)' <=> HasColumn(tc) \/ (tc \in Columns(schema) /\ tc[1] = t)
    BY <1>4, <1>5, <2>1 DEF HasColumn, IsShape
  <2>4. /\ Tables(db') = Tables(db) \cup {t}
        /\ Columns(db') = Columns(db) \cup {tc \in Columns(schema) : tc[1] = t}
    BY <1>1, <1>2, <1>3, <1>5, EffectOnTables
  <2> HIDE DEF t
  <2>5. QED
    BY <2>2, <2>3, <2>4 DEF Underway
<1>6. CASE s.op = "DropTable"
  <2>1. t \in Tables(from) \ Tables(schema) /\ s.what = {} /\ s.ref = "none"
    BY <1>1, <1>6, StepsOfDiff, Fields DEF DropsTable
  <2>2. \A u : HasTable(u)' <=> HasTable(u) /\ u # t
    BY <1>4, <1>6, <2>1 DEF HasTable
  <2>3. \A tc : HasColumn(tc)' <=> HasColumn(tc) /\ tc[1] # t
    BY <1>4, <1>6, <2>1 DEF HasColumn, IsShape
  <2>4. /\ Tables(db') = Tables(db) \ {t}
        /\ Columns(db') = {tc \in Columns(db) : tc[1] # t}
    BY <1>1, <1>2, <1>3, <1>6, EffectOnTables
  <2> HIDE DEF t
  <2>5. QED
    BY <2>2, <2>3, <2>4 DEF Underway
<1>7. CASE s.op = "AddColumn"
  <2>1. PICK tc \in Columns(schema) \ Columns(from) :
          /\ t = tc[1] /\ s.what = {tc[2]} /\ s.ref = "none"
          /\ tc[1] \in Tables(from) \cap Tables(schema)
    BY <1>1, <1>7, ColumnOf DEF ColumnOps
  <2>2. tc = <<tc[1], tc[2]>>
    BY <2>1 DEF IsShape
  <2>3. c = tc[2]
    BY <1>2, <1>7, <2>1 DEF ColumnOps
  <2>4. \A u : HasTable(u)' <=> HasTable(u)
    BY <1>4, <1>7 DEF HasTable
  <2>5. \A d : HasColumn(d)' <=> HasColumn(d) \/ d = tc
    <3>1. ASSUME NEW d, d \in Columns(from) \cup Columns(schema), d[1] = t, s.what = {d[2]}
          PROVE  d = tc
      BY <2>1, <2>2, <3>1, SamePair DEF IsShape
    <3>2. QED
      BY <1>4, <1>7, <2>1, <3>1 DEF HasColumn
  <2>6. Tables(db') = Tables(db) /\ Columns(db') = Columns(db) \cup {tc}
    <3>1. <<s.on, c>> = tc
      BY <2>1, <2>2, <2>3
    <3>2. QED
      BY <1>1, <1>2, <1>3, <1>7, <3>1, EffectOnTables
  <2>7. QED
    BY <2>4, <2>5, <2>6 DEF Underway
<1>8. CASE s.op = "DropColumn"
  <2>1. PICK tc \in Columns(from) \ Columns(schema) :
          /\ t = tc[1] /\ s.what = {tc[2]} /\ s.ref = "none"
          /\ tc[1] \in Tables(from) \cap Tables(schema)
    BY <1>1, <1>8, ColumnOf DEF ColumnOps
  <2>2. tc = <<tc[1], tc[2]>>
    BY <2>1 DEF IsShape
  <2>3. c = tc[2]
    BY <1>2, <1>8, <2>1 DEF ColumnOps
  <2>4. \A u : HasTable(u)' <=> HasTable(u)
    BY <1>4, <1>8 DEF HasTable
  <2>5. \A d : HasColumn(d)' <=> HasColumn(d) /\ d # tc
    <3>1. ASSUME NEW d, d \in Columns(from) \cup Columns(schema), d[1] = t, s.what = {d[2]}
          PROVE  d = tc
      BY <2>1, <2>2, <3>1, SamePair DEF IsShape
    <3>2. QED
      BY <1>4, <1>8, <2>1, <3>1 DEF HasColumn
  <2>6. Tables(db') = Tables(db) /\ Columns(db') = Columns(db) \ {tc}
    <3>1. <<s.on, c>> = tc
      BY <2>1, <2>2, <2>3
    <3>2. QED
      BY <1>1, <1>2, <1>3, <1>8, <3>1, EffectOnTables
  <2>7. QED
    BY <2>4, <2>5, <2>6 DEF Underway
<1>9. CASE s.op \notin {"CreateTable", "DropTable", "AddColumn", "DropColumn"}
  <2>1. \A u : HasTable(u)' <=> HasTable(u)
    BY <1>4, <1>9 DEF HasTable
  <2>2. \A tc : HasColumn(tc)' <=> HasColumn(tc)
    BY <1>4, <1>9 DEF HasColumn
  <2>3. Tables(db') = Tables(db) /\ Columns(db') = Columns(db)
    BY <1>1, <1>2, <1>3, <1>9, EffectOnTables
  <2>4. QED
    BY <2>1, <2>2, <2>3 DEF Underway
<1>10. QED
  BY <1>5, <1>6, <1>7, <1>8, <1>9

-----------------------------------------------------------------------------
(* What a statement does to constraints, indexes, foreign keys and keys. *)

LEMMA EffectOnUniques ==
  ASSUME NEW s, s.op \in Ops, DOMAIN db = DOMAIN Empty, db' = After(s),
         NEW c, s.what = {c} \/ s.op \notin ColumnOps
  PROVE  /\ s.op = "DropTable" => db'.uniques = {u \in db.uniques : u.table # s.on}
         /\ s.op = "DropColumn" => db'.uniques = {u \in db.uniques : ~ (u.table = s.on /\ c \in u.columns)}
         /\ s.op = "AddUnique" => db'.uniques = db.uniques \cup {Key(s)}
         /\ s.op = "DropUnique" => db'.uniques = db.uniques \ {Key(s)}
         /\ s.op \notin {"DropTable", "DropColumn", "AddUnique", "DropUnique"} => db'.uniques = db.uniques
<1> USE DEF Empty
<1>1. CASE IsComment(s)
  <2>1. db' = db /\ s.op \in Commented
    BY <1>1 DEF After, IsComment
  <2>2. QED
    BY <2>1 DEF Commented
<1>2. CASE s.op = "DropTable"
  BY <1>2 DEF After, DropTable, IsComment, Commented
<1>3. CASE s.op = "DropColumn"
  <2>1. (CHOOSE d \in s.what : TRUE) = c
    BY <1>3 DEF ColumnOps
  <2>2. QED
    BY <1>3, <2>1 DEF After, DropColumn, IsComment, Commented
<1>4. CASE s.op \in {"AddUnique", "DropUnique"}
  BY <1>4 DEF After, IsComment, Commented
<1>5. CASE s.op = "CreateTable"
  BY <1>5 DEF After, CreateTable, IsComment, Commented
<1>6. CASE s.op = "AlterColumn" /\ ~ IsComment(s)
  BY <1>6 DEF After
<1>7. CASE s.op = "AlterEnumName" /\ ~ IsComment(s)
  BY <1>7 DEF After, RenameEnum
<1>8. CASE s.op \in {"CreateEnum", "DropEnum", "AddEnumVariant", "AlterPrimaryKey", "AddForeignKey",
                     "DropForeignKey", "AddColumn", "CreateIndex"} /\ ~ IsComment(s)
  BY <1>8 DEF After
<1>9. QED
  BY <1>1, <1>2, <1>3, <1>4, <1>5, <1>6, <1>7, <1>8 DEF Ops, EnumOps, ColumnOps

LEMMA EffectOnIndexes ==
  ASSUME NEW s, s.op \in Ops, DOMAIN db = DOMAIN Empty, db' = After(s),
         NEW c, s.what = {c} \/ s.op \notin ColumnOps
  PROVE  /\ s.op = "DropTable" => db'.indexes = {i \in db.indexes : i.table # s.on}
         /\ s.op = "DropColumn" => db'.indexes = {i \in db.indexes : ~ (i.table = s.on /\ c \in i.columns)}
         /\ s.op = "CreateIndex" => db'.indexes = db.indexes \cup {Key(s)}
         /\ s.op \notin {"DropTable", "DropColumn", "CreateIndex"} => db'.indexes = db.indexes
<1> USE DEF Empty
<1>1. CASE IsComment(s)
  <2>1. db' = db /\ s.op \in Commented
    BY <1>1 DEF After, IsComment
  <2>2. QED
    BY <2>1 DEF Commented
<1>2. CASE s.op = "DropTable"
  BY <1>2 DEF After, DropTable, IsComment, Commented
<1>3. CASE s.op = "DropColumn"
  <2>1. (CHOOSE d \in s.what : TRUE) = c
    BY <1>3 DEF ColumnOps
  <2>2. QED
    BY <1>3, <2>1 DEF After, DropColumn, IsComment, Commented
<1>4. CASE s.op = "CreateIndex"
  BY <1>4 DEF After, IsComment, Commented
<1>5. CASE s.op = "CreateTable"
  BY <1>5 DEF After, CreateTable, IsComment, Commented
<1>6. CASE s.op = "AlterColumn" /\ ~ IsComment(s)
  BY <1>6 DEF After
<1>7. CASE s.op = "AlterEnumName" /\ ~ IsComment(s)
  BY <1>7 DEF After, RenameEnum
<1>8. CASE s.op \in {"CreateEnum", "DropEnum", "AddEnumVariant", "AlterPrimaryKey", "AddForeignKey",
                     "DropForeignKey", "AddColumn", "AddUnique", "DropUnique"} /\ ~ IsComment(s)
  BY <1>8 DEF After
<1>9. QED
  BY <1>1, <1>2, <1>3, <1>4, <1>5, <1>6, <1>7, <1>8 DEF Ops, EnumOps, ColumnOps

LEMMA EffectOnForeignKeys ==
  ASSUME NEW s, s.op \in Ops, DOMAIN db = DOMAIN Empty, db' = After(s),
         NEW c, s.what = {c} \/ s.op \notin ColumnOps \cup {"AddForeignKey", "DropForeignKey"}, NEW fk
  PROVE  /\ s.op = "CreateTable" =>
              (fk \in db'.fks <=> fk \in db.fks \/ (provider = "SQLite" /\ fk \in InlineForeignKeys(s.on)))
         /\ s.op = "DropTable" =>
              (fk \in db'.fks <=> fk \in db.fks /\ fk.table # s.on /\ (provider = "PostgreSQL" => fk.ref # s.on))
         /\ s.op = "DropColumn" => (fk \in db'.fks <=> fk \in db.fks /\ ~ (fk.table = s.on /\ fk.column = c))
         /\ s.op = "AddForeignKey" =>
              (fk \in db'.fks <=>
                 \/ fk \in db.fks
                 \/ /\ provider # "SQLite" /\ fk \in schema.fks
                    /\ fk.table = s.on /\ fk.column = c /\ fk.ref = s.ref)
         /\ s.op = "DropForeignKey" =>
              (fk \in db'.fks <=>
                 /\ fk \in db.fks
                 /\ provider = "SQLite" \/ ~ (fk.table = s.on /\ fk.column = c /\ fk.ref = s.ref))
         /\ s.op \notin {"CreateTable", "DropTable", "DropColumn", "AddForeignKey", "DropForeignKey"}
              => (fk \in db'.fks <=> fk \in db.fks)
<1> USE DEF Empty
<1>1. CASE IsComment(s)
  <2>1. db' = db /\ s.op \in Commented /\ provider = "SQLite"
    BY <1>1 DEF After, IsComment
  <2>2. QED
    BY <2>1 DEF Commented
<1>2. CASE s.op = "CreateTable"
  BY <1>2 DEF After, CreateTable, IsComment, Commented
<1>3. CASE s.op = "DropTable"
  BY <1>3 DEF After, DropTable, IsComment, Commented
<1>4. CASE s.op = "DropColumn"
  <2>1. (CHOOSE d \in s.what : TRUE) = c
    BY <1>4 DEF ColumnOps
  <2>2. QED
    BY <1>4, <2>1 DEF After, DropColumn, IsComment, Commented
<1>5. CASE s.op \in {"AddForeignKey", "DropForeignKey"} /\ ~ IsComment(s)
  <2>1. (CHOOSE d \in s.what : TRUE) = c
    BY <1>5
  <2>2. provider # "SQLite"
    BY <1>5 DEF IsComment, Commented
  <2>3. QED
    BY <1>5, <2>1, <2>2 DEF After
<1>6. CASE s.op = "AlterColumn" /\ ~ IsComment(s)
  BY <1>6 DEF After
<1>7. CASE s.op = "AlterEnumName" /\ ~ IsComment(s)
  BY <1>7 DEF After, RenameEnum
<1>8. CASE s.op \in {"CreateEnum", "DropEnum", "AddEnumVariant", "AlterPrimaryKey", "AddColumn",
                     "CreateIndex", "AddUnique", "DropUnique"} /\ ~ IsComment(s)
  BY <1>8 DEF After
<1>9. QED
  BY <1>1, <1>2, <1>3, <1>4, <1>5, <1>6, <1>7, <1>8 DEF Ops, EnumOps, ColumnOps

LEMMA EffectOnKeys ==
  ASSUME NEW s, s.op \in Ops, DOMAIN db = DOMAIN Empty, db' = After(s),
         NEW c, s.what = {c} \/ s.op \notin ColumnOps, NEW t \in Tables(db')
  PROVE  /\ s.op = "CreateTable" =>
              \/ t \in Tables(db) /\ db'.keys[t] = db.keys[t]
              \/ t = s.on /\ db'.keys[t] = schema.keys[t]
         /\ s.op = "DropColumn" =>
              db'.keys[t] = IF t = s.on /\ c \in Range(db.keys[t]) THEN <<>> ELSE db.keys[t]
         /\ s.op = "AlterPrimaryKey" =>
              db'.keys[t] = IF t = s.on /\ provider # "SQLite" THEN schema.keys[t] ELSE db.keys[t]
         /\ s.op \notin {"CreateTable", "DropColumn", "AlterPrimaryKey"} => db'.keys[t] = db.keys[t]
<1> USE DEF Empty, Tables
<1>1. CASE IsComment(s)
  <2>1. db' = db /\ s.op \in Commented /\ provider = "SQLite"
    BY <1>1 DEF After, IsComment
  <2>2. QED
    BY <2>1 DEF Commented
<1>2. CASE s.op = "CreateTable"
  <2>1. db'.keys = With(db.keys, s.on, schema.keys[s.on])
    BY <1>2 DEF After, CreateTable, IsComment, Commented
  <2>2. QED
    BY <1>2, <2>1 DEF With, Joined
<1>3. CASE s.op = "DropTable"
  BY <1>3 DEF After, DropTable, Without, Restrict, IsComment, Commented
<1>4. CASE s.op = "DropColumn"
  <2>1. (CHOOSE d \in s.what : TRUE) = c
    BY <1>4 DEF ColumnOps
  <2>2. QED
    BY <1>4, <2>1 DEF After, DropColumn, IsComment, Commented
<1>5. CASE s.op = "AlterPrimaryKey" /\ ~ IsComment(s)
  <2>1. provider # "SQLite"
    BY <1>5 DEF IsComment, Commented
  <2>2. QED
    BY <1>5, <2>1 DEF After
<1>6. CASE s.op = "AlterColumn" /\ ~ IsComment(s)
  BY <1>6 DEF After
<1>7. CASE s.op = "AlterEnumName" /\ ~ IsComment(s)
  BY <1>7 DEF After, RenameEnum
<1>8. CASE s.op \in {"CreateEnum", "DropEnum", "AddEnumVariant", "AddColumn", "AddForeignKey",
                     "DropForeignKey", "CreateIndex", "AddUnique", "DropUnique"} /\ ~ IsComment(s)
  BY <1>8 DEF After
<1>9. QED
  BY <1>1, <1>2, <1>3, <1>4, <1>5, <1>6, <1>7, <1>8 DEF Ops, EnumOps, ColumnOps

LEMMA TypesExist ==
  ASSUME NEW s, NEW tc, s \in Schemas \cup {Empty}, tc \in Columns(s)
  PROVE  Rendered("SQLite", s.columns[tc], s.enums).type \in Scalars
<1>1. WellFormed(s)
  BY SchemaAssumption DEF Empty, Columns
<1>2. s.columns[tc].type.kind = "scalar" => s.columns[tc].type.of \in {"String", "Int", "Boolean"}
  BY <1>1 DEF WellFormed
<1>3. QED
  BY <1>2 DEF Rendered, SqlType, ScalarSql, Scalars

\* The types of the columns after a statement: of those that were there
\* before, or in the schema.
LEMMA EffectOnTypes ==
  ASSUME NEW s, s.op \in Ops, IsDatabase(db), db' = After(s),
         NEW c, s.what = {c} \/ s.op \notin ColumnOps, NEW tc \in Columns(db'),
         s.op = "AddColumn" => <<s.on, c>> \in Columns(schema),
         s.op = "AlterColumn" => <<s.on, c>> \in Columns(schema) \cap Columns(db)
  PROVE  /\ DOMAIN db'.columns[tc] = {"type", "optional", "default", "unique"}
         /\ \/ /\ s.op \in {"CreateTable", "AddColumn", "AlterColumn"} /\ ~ IsComment(s)
               /\ tc \in Columns(schema)
               /\ IF s.op = "CreateTable" THEN tc[1] = s.on ELSE tc = <<s.on, c>>
               /\ db'.columns[tc].type = Rendered(provider, schema.columns[tc], schema.enums).type
            \/ /\ s.op = "AlterEnumName" /\ ~ IsComment(s)
               /\ tc \in Columns(db) /\ db.columns[tc].type = s.on
               /\ db'.columns[tc].type = s.ref
            \/ /\ s.op = "AlterEnumName" /\ ~ IsComment(s) => db.columns[tc].type # s.on
               /\ tc \in Columns(db) /\ db'.columns[tc].type = db.columns[tc].type
<1> DEFINE Fields4 == {"type", "optional", "default", "unique"}
           R(d) == Rendered(provider, schema.columns[d], schema.enums)
           Kept == /\ tc \in Columns(db) /\ db'.columns[tc] = db.columns[tc]
           Made == /\ tc \in Columns(schema) /\ db'.columns[tc] = R(tc)
                   /\ IF s.op = "CreateTable" THEN tc[1] = s.on ELSE tc = <<s.on, c>>
<1>1. DOMAIN db = DOMAIN Empty /\ \A d \in Columns(db) : DOMAIN db.columns[d] = Fields4
  BY DEF IsDatabase
<1>2. \A d : DOMAIN R(d) = Fields4
  BY DEF Rendered
<1>3. Kept => DOMAIN db'.columns[tc] = Fields4 /\ tc \in Columns(db) /\ db'.columns[tc].type = db.columns[tc].type
  BY <1>1
<1>4. Made => DOMAIN db'.columns[tc] = Fields4 /\ db'.columns[tc].type = R(tc).type
  BY <1>2
<1> USE <1>1 DEF Empty, Columns
<1>5. CASE IsComment(s)
  <2>1. db' = db /\ s.op \in Commented
    BY <1>5 DEF After, IsComment
  <2>2. QED
    BY <1>3, <1>5, <2>1 DEF Commented
<1>6. CASE s.op = "CreateTable"
  <2> DEFINE new == [d \in {d \in Columns(schema) : d[1] = s.on} |-> R(d)]
  <2>1. db'.columns = Joined(db.columns, new) /\ ~ IsComment(s)
    BY <1>6 DEF After, CreateTable, IsComment, Commented
  <2>2. tc \in DOMAIN db.columns => db'.columns[tc] = db.columns[tc]
    BY <2>1 DEF Joined
  <2>3. tc \notin DOMAIN db.columns => tc \in DOMAIN new /\ db'.columns[tc] = new[tc]
    BY <2>1 DEF Joined
  <2>4. tc \notin DOMAIN db.columns => Made
    BY <1>6, <2>3
  <2> HIDE DEF new, R, Made, Kept
  <2>5. Kept \/ Made
    BY <2>2, <2>4 DEF Kept
  <2>6. QED
    BY <1>3, <1>4, <1>6, <2>1, <2>5 DEF Kept, Made, R
<1>7. CASE s.op = "DropTable"
  <2>1. db'.columns = Without(db.columns, {d \in DOMAIN db.columns : d[1] = s.on}) /\ ~ IsComment(s)
    BY <1>7 DEF After, DropTable, IsComment, Commented
  <2>2. Kept
    BY <2>1 DEF Without, Restrict
  <2>3. QED
    BY <1>3, <1>7, <2>2
<1>8. CASE s.op = "AddColumn"
  <2>1. (CHOOSE d \in s.what : TRUE) = c
    BY <1>8 DEF ColumnOps
  <2>2. db'.columns = With(db.columns, <<s.on, c>>, R(<<s.on, c>>)) /\ ~ IsComment(s)
    BY <1>8, <2>1 DEF After, IsComment, Commented
  <2>3. Kept \/ Made
    BY <1>8, <2>2 DEF With, Joined
  <2> HIDE DEF R
  <2>4. QED
    BY <1>3, <1>4, <1>8, <2>2, <2>3 DEF R
<1>9. CASE s.op = "DropColumn"
  <2>1. (CHOOSE d \in s.what : TRUE) = c
    BY <1>9 DEF ColumnOps
  <2>2. db'.columns = Without(db.columns, {<<s.on, c>>})
    BY <1>9, <2>1 DEF After, DropColumn, IsComment, Commented
  <2>3. Kept
    BY <2>2 DEF Without, Restrict
  <2>4. QED
    BY <1>3, <1>9, <2>3
<1>10. CASE s.op = "AlterColumn" /\ ~ IsComment(s)
  <2>1. (CHOOSE d \in s.what : TRUE) = c
    BY <1>10 DEF ColumnOps
  <2> DEFINE e == <<s.on, c>>
             target == R(e)
             retyped == SqlType(provider, from.columns[e].type, schema.enums) # target.type
             old == db.columns[e]
             type == IF retyped THEN target.type ELSE old.type
             optional == IF from.columns[e].optional # schema.columns[e].optional
                         THEN target.optional ELSE old.optional
             default == IF DefaultSql(provider, from.columns[e].default)
                             # DefaultSql(provider, schema.columns[e].default)
                        THEN target.default ELSE old.default
             altered == [old EXCEPT !.type = type, !.optional = optional, !.default = default]
  <2>2. e \in DOMAIN db.columns
    BY <1>10
  <2>3. db' = [db EXCEPT !.columns[e] = altered]
    <3>1. db' = [db EXCEPT !.columns[e] = AlterColumn(e)]
      BY <1>10, <2>1 DEF After
    <3>2. AlterColumn(e) = altered
      BY DEF AlterColumn
    <3>3. QED
      BY <3>1, <3>2
  <2> HIDE DEF altered
  <2>4. db'.columns = [db.columns EXCEPT ![e] = altered]
    BY <2>3
  <2>5. tc # e => Kept
    BY <2>4
  <2>6. db'.columns[e] = altered
    BY <2>2, <2>4
  <2>7. /\ DOMAIN db'.columns[e] = Fields4
        /\ db'.columns[e].type = type
    <3> HIDE DEF retyped, target, optional, default, type
    <3>1. DOMAIN old = Fields4
      BY <2>2
    <3>2. QED
      BY <2>6, <3>1 DEF altered
  <2> HIDE DEF R
  <2>8. QED
    BY <1>3, <1>10, <2>5, <2>7 DEF R
<1>11. CASE s.op = "AlterEnumName" /\ ~ IsComment(s)
  <2>1. db'.columns = [d \in DOMAIN db.columns |-> IF db.columns[d].type = s.on
                                                THEN [db.columns[d] EXCEPT !.type = s.ref] ELSE db.columns[d]]
    BY <1>11 DEF After, RenameEnum
  <2>2. CASE db.columns[tc].type = s.on
    <3>1. db'.columns[tc] = [db.columns[tc] EXCEPT !.type = s.ref] /\ tc \in DOMAIN db.columns
      BY <2>1, <2>2
    <3>2. QED
      BY <1>11, <2>2, <3>1
  <2>3. CASE db.columns[tc].type # s.on
    <3>1. Kept
      BY <2>1, <2>3
    <3>2. QED
      BY <1>3, <1>11, <2>3, <3>1
  <2>4. QED
    BY <2>2, <2>3
<1>12. CASE s.op \in {"CreateEnum", "DropEnum", "AddEnumVariant", "AlterPrimaryKey", "AddForeignKey",
                      "DropForeignKey", "CreateIndex", "AddUnique", "DropUnique"} /\ ~ IsComment(s)
  <2>1. Kept
    BY <1>12 DEF After
  <2>2. QED
    BY <1>3, <1>12, <2>1
<1>13. QED
  BY <1>5, <1>6, <1>7, <1>8, <1>9, <1>10, <1>11, <1>12 DEF Ops, EnumOps, ColumnOps

LEMMA EffectOnEnums ==
  ASSUME NEW s, s.op \in Ops, DOMAIN db = DOMAIN Empty, db' = After(s)
  PROVE  /\ s.op \notin EnumOps \/ provider = "SQLite" => db'.enums = db.enums
         /\ provider # "SQLite" =>
              /\ s.op = "CreateEnum" => DOMAIN db'.enums = DOMAIN db.enums \cup {s.on}
              /\ s.op = "DropEnum" => DOMAIN db'.enums = DOMAIN db.enums \ {s.on}
              /\ s.op = "AlterEnumName" =>
                   DOMAIN db'.enums = (DOMAIN db.enums \ {s.on}) \cup {s.ref}
              /\ s.op = "AddEnumVariant" => DOMAIN db'.enums = DOMAIN db.enums
<1> USE DEF Empty
<1>1. CASE IsComment(s)
  <2>1. db' = db /\ provider = "SQLite"
    BY <1>1 DEF After, IsComment
  <2>2. QED
    BY <2>1
<1>2. CASE s.op \in {"CreateTable", "DropTable", "DropColumn", "AddColumn", "CreateIndex", "AddUnique",
                     "DropUnique"}
  BY <1>2 DEF After, CreateTable, DropTable, DropColumn, IsComment, Commented, EnumOps
<1>3. CASE s.op \in {"AlterColumn", "AlterPrimaryKey", "AddForeignKey", "DropForeignKey"} /\ ~ IsComment(s)
  BY <1>3 DEF After, EnumOps
<1>4. CASE s.op = "CreateEnum" /\ ~ IsComment(s)
  <2>1. db'.enums = With(db.enums, s.on, Labels(s))
    BY <1>4 DEF After
  <2>2. DOMAIN db'.enums = DOMAIN db.enums \cup {s.on}
    BY <2>1 DEF With, Joined
  <2>3. QED
    BY <1>4, <2>2 DEF EnumOps, IsComment, Commented
<1>5. CASE s.op = "DropEnum" /\ ~ IsComment(s)
  <2>1. db'.enums = Without(db.enums, {s.on})
    BY <1>5 DEF After
  <2>2. DOMAIN db'.enums = DOMAIN db.enums \ {s.on}
    BY <2>1 DEF Without, Restrict
  <2>3. QED
    BY <1>5, <2>2 DEF EnumOps, IsComment, Commented
<1>6. CASE s.op = "AlterEnumName" /\ ~ IsComment(s)
  <2>1. db'.enums = With(Without(db.enums, {s.on}), s.ref, db.enums[s.on])
    BY <1>6 DEF After, RenameEnum
  <2>2. DOMAIN db'.enums = (DOMAIN db.enums \ {s.on}) \cup {s.ref}
    BY <2>1 DEF With, Joined, Without, Restrict
  <2>3. QED
    BY <1>6, <2>2 DEF EnumOps, IsComment, Commented
<1>7. CASE s.op = "AddEnumVariant" /\ ~ IsComment(s)
  <2>1. db'.enums = [db.enums EXCEPT ![s.on] = @ \cup s.what]
    BY <1>7 DEF After
  <2>2. QED
    BY <1>7, <2>1 DEF EnumOps, IsComment, Commented
<1>8. QED
  BY <1>1, <1>2, <1>3, <1>4, <1>5, <1>6, <1>7 DEF Ops, EnumOps, ColumnOps

-----------------------------------------------------------------------------
(* A statement that is not refused keeps a database a database. *)

\* What the statements of both databases check first.
LEMMA NotRefused ==
  ASSUME NEW s, ~ Refuses(s), provider \in {"PostgreSQL", "SQLite"}
  PROVE  /\ s.op = "AddColumn" => s.on \in Tables(db)
         /\ s.op \in {"CreateIndex", "AddUnique"} => ~ Missing(s)
         /\ s.op = "AddUnique" => Key(s) \notin db.uniques
         /\ provider = "PostgreSQL" =>
              /\ s.op = "AlterColumn" => ~ Missing(s)
              /\ s.op = "AddForeignKey" => s.on \in Tables(db)
              /\ s.op = "DropEnum" => \A tc \in Columns(db) : db.columns[tc].type # s.on
              /\ s.op \in {"CreateTable", "AddColumn", "AlterColumn"} =>
                   \A type \in TypesOf(s) : TypeExists(type)
<1>1. CASE provider = "SQLite"
  BY <1>1 DEF Refuses, RefusedBySqlite
<1>2. CASE provider = "PostgreSQL"
  BY <1>2 DEF Refuses, RefusedByPostgres, Missing
<1>3. QED
  BY <1>1, <1>2

LEMMA ExecuteKeepsDatabase ==
  ASSUME MigrationInv, ControlInv, IsDatabase(db), IsShape(from),
         NEW s \in steps, ~ Refuses(s), db' = After(s), provider' = provider
  PROVE  IsDatabase(db)'
<1>1. /\ s \in Diff(provider, from, schema)
      /\ s.op \in Ops /\ s = Step(s.op, s.on, s.what, s.ref)
  BY StepIsRecord DEF MigrationInv
<1>2. IsShape(schema) /\ provider \in {"PostgreSQL", "SQLite"}
  BY SchemaIsShape, ProviderAssumption DEF ControlInv
<1>3. DOMAIN db = DOMAIN Empty
  BY DEF IsDatabase
<1>4. PICK c : /\ s.what = {c} \/ s.op \notin ColumnOps \cup {"AddForeignKey", "DropForeignKey"}
               /\ s.op \in {"AddColumn", "AlterColumn"} => <<s.on, c>> \in Columns(schema)
  <2>1. CASE s.op \in ColumnOps
    <3>1. PICK tc : /\ s.on = tc[1] /\ s.what = {tc[2]}
                    /\ s.op \in {"AddColumn", "AlterColumn"} => tc \in Columns(schema)
      BY <1>1, <2>1, ColumnOf
    <3>2. s.op \in {"AddColumn", "AlterColumn"} => <<s.on, tc[2]>> \in Columns(schema)
      BY <1>2, <3>1 DEF IsShape
    <3>3. QED
      BY <3>1, <3>2
  <2>2. CASE s.op \in {"AddForeignKey", "DropForeignKey"}
    <3>1. PICK fk : s.what = {fk.column}
      BY <1>1, <2>2, ForeignKeyOf
    <3>2. QED
      BY <2>2, <3>1
  <2>3. QED
    BY <2>1, <2>2 DEF ColumnOps
<1>5. /\ DOMAIN db' = DOMAIN Empty
      /\ s.op = "CreateTable" =>
           /\ Tables(db') = Tables(db) \cup {s.on}
           /\ Columns(db') = Columns(db) \cup {tc \in Columns(schema) : tc[1] = s.on}
      /\ s.op = "DropTable" =>
           /\ Tables(db') = Tables(db) \ {s.on}
           /\ Columns(db') = {tc \in Columns(db) : tc[1] # s.on}
      /\ s.op = "AddColumn" =>
           /\ Tables(db') = Tables(db)
           /\ Columns(db') = Columns(db) \cup {<<s.on, c>>}
      /\ s.op = "DropColumn" =>
           /\ Tables(db') = Tables(db)
           /\ Columns(db') = Columns(db) \ {<<s.on, c>>}
      /\ s.op \notin {"CreateTable", "DropTable", "AddColumn", "DropColumn"} =>
           Tables(db') = Tables(db) /\ Columns(db') = Columns(db)
  BY <1>1, <1>3, <1>4, EffectOnTables
<1>6. /\ s.op = "AddColumn" => s.on \in Tables(db)
      /\ s.op \in {"CreateIndex", "AddUnique"} => ~ Missing(s)
      /\ provider = "PostgreSQL" =>
           /\ s.op = "AlterColumn" => ~ Missing(s)
           /\ s.op = "AddForeignKey" => s.on \in Tables(db)
           /\ s.op = "DropEnum" => \A tc \in Columns(db) : db.columns[tc].type # s.on
           /\ s.op \in {"CreateTable", "AddColumn", "AlterColumn"} =>
                \A type \in TypesOf(s) : TypeExists(type)
  BY <1>2, NotRefused
<1>7. ASSUME NEW tc \in Columns(db')
      PROVE  tc = <<tc[1], tc[2]>> /\ tc[1] \in Tables(db')
  <2>1. \A d \in Columns(db) : d = <<d[1], d[2]>> /\ d[1] \in Tables(db)
    BY DEF IsDatabase
  <2>2. CASE s.op = "AddColumn"
    BY <1>5, <1>6, <2>1, <2>2
  <2>3. CASE s.op = "CreateTable"
    BY <1>2, <1>5, <2>1, <2>3 DEF IsShape
  <2>4. CASE s.op \notin {"AddColumn", "CreateTable"}
    BY <1>5, <2>1, <2>4
  <2>5. QED
    BY <2>2, <2>3, <2>4
<1>8. ASSUME NEW tc \in Columns(db')
      PROVE  /\ DOMAIN db'.columns[tc] = {"type", "optional", "default", "unique"}
             /\ db'.columns[tc].type \in Scalars \cup DOMAIN db'.enums
  <2>1. CASE IsComment(s)
    BY <2>1 DEF After, IsDatabase
  <2>2. CASE ~ IsComment(s)
    <3>1. s.op = "AlterColumn" => <<s.on, c>> \in Columns(schema) \cap Columns(db)
      <4>1. s.op = "AlterColumn" => provider = "PostgreSQL"
        BY <1>2, <2>2 DEF IsComment, Commented
      <4>2. QED
        BY <1>4, <1>6, <4>1 DEF Missing, StepColumns, ColumnOps
    <3> DEFINE type == Rendered(provider, schema.columns[tc], schema.enums).type
    <3>2. /\ DOMAIN db'.columns[tc] = {"type", "optional", "default", "unique"}
          /\ \/ /\ s.op \in {"CreateTable", "AddColumn", "AlterColumn"} /\ tc \in Columns(schema)
                /\ IF s.op = "CreateTable" THEN tc[1] = s.on ELSE tc = <<s.on, c>>
                /\ db'.columns[tc].type = type
             \/ s.op = "AlterEnumName" /\ db'.columns[tc].type = s.ref
             \/ /\ s.op = "AlterEnumName" => db.columns[tc].type # s.on
                /\ tc \in Columns(db) /\ db'.columns[tc].type = db.columns[tc].type
      BY <1>1, <1>4, <2>2, <3>1, EffectOnTypes
    <3>3. provider = "PostgreSQL" \/ s.op \notin EnumOps
      BY <1>2, <2>2 DEF IsComment, Commented, EnumOps
    <3>4. CASE /\ s.op \in {"CreateTable", "AddColumn", "AlterColumn"} /\ tc \in Columns(schema)
               /\ IF s.op = "CreateTable" THEN tc[1] = s.on ELSE tc = <<s.on, c>>
               /\ db'.columns[tc].type = type
      <4>1. db'.enums = db.enums
        BY <1>1, <1>3, <3>4, EffectOnEnums DEF EnumOps
      <4>2. CASE provider = "SQLite"
        BY <3>2, <3>4, <4>2, TypesExist DEF ControlInv
      <4>3. CASE provider = "PostgreSQL"
        <5>1. tc \in StepColumns(s) \/ (s.op = "CreateTable" /\ tc[1] = s.on)
          BY <1>4, <3>4 DEF StepColumns, ColumnOps
        <5>2. type \in TypesOf(s)
          BY <3>4, <5>1 DEF TypesOf
        <5>3. TypeExists(type)
          BY <1>6, <3>4, <4>3, <5>2
        <5>4. QED
          BY <3>2, <3>4, <4>1, <5>3 DEF TypeExists
      <4>4. QED
        BY <1>2, <4>2, <4>3
    <3>5. CASE s.op = "AlterEnumName" /\ db'.columns[tc].type = s.ref
      BY <1>1, <1>3, <3>2, <3>3, <3>5, EffectOnEnums DEF EnumOps
    <3>6. CASE /\ s.op = "AlterEnumName" => db.columns[tc].type # s.on
               /\ tc \in Columns(db) /\ db'.columns[tc].type = db.columns[tc].type
      <4>1. db.columns[tc].type \in Scalars \cup DOMAIN db.enums
        BY <3>6 DEF IsDatabase
      <4>2. DOMAIN db.enums \subseteq DOMAIN db'.enums \cup {s.on}
        BY <1>1, <1>2, <1>3, EffectOnEnums DEF EnumOps
      <4>3. s.op \notin {"DropEnum", "AlterEnumName"} => DOMAIN db.enums \subseteq DOMAIN db'.enums
        BY <1>1, <1>2, <1>3, EffectOnEnums DEF EnumOps
      <4>4. s.op \in {"DropEnum", "AlterEnumName"} => db.columns[tc].type # s.on
        BY <1>6, <3>3, <3>6 DEF EnumOps
      <4>5. QED
        BY <3>2, <3>6, <4>1, <4>2, <4>3, <4>4
    <3>7. QED
      BY <3>2, <3>4, <3>5, <3>6
  <2>3. QED
    BY <2>1, <2>2
<1>9. ASSUME NEW k \in KeysOf(db')
      PROVE  /\ k = [table |-> k.table, columns |-> k.columns] /\ k.table \in Tables(db')
             /\ \A d \in k.columns : <<k.table, d>> \in Columns(db')
  <2> DEFINE added == s.op \in {"CreateIndex", "AddUnique"} /\ k = Key(s)
  <2>1. /\ k \in KeysOf(db) \/ added
        /\ s.op = "DropTable" => k.table # s.on
        /\ s.op = "DropColumn" => ~ (k.table = s.on /\ c \in k.columns)
    <3>1. CASE k \in db'.uniques
      <4>1. /\ s.op = "DropTable" => db'.uniques = {u \in db.uniques : u.table # s.on}
            /\ s.op = "DropColumn" => db'.uniques = {u \in db.uniques : ~ (u.table = s.on /\ c \in u.columns)}
            /\ s.op = "AddUnique" => db'.uniques = db.uniques \cup {Key(s)}
            /\ s.op = "DropUnique" => db'.uniques = db.uniques \ {Key(s)}
            /\ s.op \notin {"DropTable", "DropColumn", "AddUnique", "DropUnique"} => db'.uniques = db.uniques
        BY <1>1, <1>3, <1>4, EffectOnUniques
      <4>2. QED
        BY <3>1, <4>1 DEF KeysOf
    <3>2. CASE k \in db'.indexes
      BY <1>1, <1>3, <1>4, <3>2, EffectOnIndexes DEF KeysOf
    <3>3. QED
      BY <3>1, <3>2 DEF KeysOf
  <2>2. CASE added
    <3>1. k = [table |-> k.table, columns |-> k.columns] /\ k.table = s.on /\ k.columns = s.what
      BY <2>2 DEF Key
    <3>2. QED
      BY <1>5, <1>6, <2>2, <3>1 DEF Missing, StepColumns
  <2>3. CASE k \in KeysOf(db)
    <3>1. /\ k = [table |-> k.table, columns |-> k.columns] /\ k.table \in Tables(db)
          /\ \A d \in k.columns : <<k.table, d>> \in Columns(db)
      BY <2>3 DEF IsDatabase
    <3>2. k.table \in Tables(db')
      BY <1>5, <2>1, <3>1
    <3>3. ASSUME NEW d \in k.columns
          PROVE  <<k.table, d>> \in Columns(db')
      BY <1>5, <2>1, <3>1
    <3>4. QED
      BY <3>1, <3>2, <3>3
  <2>4. QED
    BY <2>1, <2>2, <2>3
<1>10. ASSUME NEW fk \in db'.fks
       PROVE  fk.table \in Tables(db')
  <2>1. \A f \in db.fks : f.table \in Tables(db)
    BY DEF IsDatabase
  <2>2. CASE s.op = "CreateTable"
    <3>1. fk \in db.fks \/ fk \in InlineForeignKeys(s.on)
      BY <1>1, <1>3, <1>4, <2>2, EffectOnForeignKeys
    <3>2. InlineForeignKeys(s.on) \subseteq AddedForeignKeys(s.on)
      BY DEF InlineForeignKeys, SameColumn
    <3>3. QED
      BY <1>5, <2>1, <2>2, <3>1, <3>2 DEF AddedForeignKeys
  <2>3. CASE s.op = "AddForeignKey"
    <3>1. \/ fk \in db.fks
          \/ provider # "SQLite" /\ fk.table = s.on
      BY <1>1, <1>3, <1>4, <2>3, EffectOnForeignKeys
    <3>2. QED
      BY <1>2, <1>5, <1>6, <2>1, <2>3, <3>1
  <2>4. CASE s.op \notin {"CreateTable", "AddForeignKey"}
    <3>1. fk \in db.fks /\ (s.op = "DropTable" => fk.table # s.on)
      BY <1>1, <1>3, <1>4, <2>4, EffectOnForeignKeys
    <3>2. QED
      BY <1>5, <2>1, <2>4, <3>1
  <2>5. QED
    BY <2>2, <2>3, <2>4
<1>11. provider = "SQLite" => DOMAIN db'.enums = {}
  BY <1>1, <1>3, EffectOnEnums DEF IsDatabase
<1>12. QED
  BY <1>5, <1>7, <1>8, <1>9, <1>10, <1>11 DEF IsDatabase

-----------------------------------------------------------------------------
(* The invariant of tables and columns is inductive. *)

\* It carries along what is supposed of the schemas.
SInv == NoneSkipped /\ MigrationInv /\ ControlInv /\ DatabaseInv /\ TablesInv

LEMMA SInvInit == NoneSkipped /\ Init => SInv
<1> SUFFICES ASSUME NoneSkipped, Init PROVE SInv
  OBVIOUS
<1> USE DEF Init
<1>1. IsShape(Empty)
  BY SchemaIsShape
<1>2. SameShape(EmptyDatabase, Empty)
  BY DEF EmptyDatabase, Empty, SameShape, Tables, Columns
<1>3. IsDatabase(EmptyDatabase)
  BY DEF EmptyDatabase, Empty, IsDatabase, Tables, Columns, KeysOf
<1>4. Diff(provider, Empty, Empty) = {}
  <2>1. DiffEnums(Empty, Empty) = {}
    BY DEF DiffEnums, Empty
  <2>2. DiffColumns(provider, Empty, Empty) = {}
    BY DEF DiffColumns, Empty, Columns
  <2>3. DiffModels(provider, Empty, Empty) = {}
    BY <2>2 DEF DiffModels, Empty, Tables
  <2>4. DiffForeignKeys(Empty, Empty) = {}
    BY DEF DiffForeignKeys, ForeignKeys, Empty
  <2>5. DiffIndexes(Empty, Empty) = {} /\ DiffUniques(Empty, Empty) = {}
    BY DEF DiffIndexes, DiffUniques, Empty
  <2>6. QED
    BY <2>1, <2>3, <2>4, <2>5 DEF Diff
<1>5. MigrationInv
  BY <1>4 DEF MigrationInv
<1>6. ControlInv
  BY BoundAssumption DEF ControlInv
<1>7. QED
  BY <1>1, <1>2, <1>3, <1>5, <1>6 DEF SInv, DatabaseInv, TablesInv

\* What is read back of the database between migrations.
LEMMA ReadingOf ==
  ASSUME SInv, pc \in {"idle", "applied"}, NEW old \in Readings(provider, db)
  PROVE  /\ SameShape(db, old) /\ old.fks \in FirstOfEach(db.fks) /\ old.fks \subseteq db.fks
         /\ old.uniques = {} /\ old.indexes = IF provider = "SQLite" THEN db.indexes ELSE KeysOf(db)
         /\ \A t \in Tables(db) :
              old.keys[t] = IF provider = "SQLite" THEN KeyByLayout(db, t) ELSE db.keys[t]
         /\ provider = "SQLite" => old.enums = {} /\ \E U : old.columns = ReadColumns("SQLite", db, U)
         /\ provider # "SQLite" => /\ old.enums = IntrospectEnums(db)
                                   /\ old.columns = ReadColumns("PostgreSQL", db, db.uniques)
<1>1. IsDatabase(db) /\ Tables(db) \cap Skipped = {}
  BY NoTableSkipped DEF SInv, DatabaseInv, TablesInv, ControlInv
<1>2. QED
  BY <1>1, ReadBack

LEMMA DevKeepsSInv ==
  ASSUME SInv, NEW target \in Schemas, NEW old \in Readings(provider, db) \cup {snapshot},
         Dev(target, old)
  PROVE  SInv'
<1> USE DEF Dev
<1>1. /\ SameShape(db, snapshot) /\ snapshot \in Schemas \cup {Empty}
      /\ provider \in Providers /\ devs \in 0 .. MaxMigrations
      /\ IsDatabase(db)
  BY DEF SInv, TablesInv, ControlInv, DatabaseInv
<1>2. IsShape(old) /\ SameShape(db, old)
  BY <1>1, FromIsShape DEF SInv
<1>3. IsShape(target)
  BY SchemaIsShape
<1>4. migration' = Diff(provider, old, target) /\ steps' = migration' /\ from' = old /\ schema' = target
  OBVIOUS
<1>5. MigrationInv'
  BY <1>4 DEF MigrationInv
<1>6. ControlInv'
  <2>1. devs' \in 0 .. MaxMigrations
    BY <1>1, BoundAssumption
  <2>2. steps' # {} <=> pc' \in {"apply", "refused"}
    BY <1>4
  <2>3. pc' \in {"idle", "apply", "applied", "refused"}
    OBVIOUS
  <2>4. QED
    BY <1>1, <1>4, <2>1, <2>2, <2>3 DEF ControlInv
<1>7. DatabaseInv'
  BY <1>1 DEF DatabaseInv, IsDatabase
<1>8. TablesInv'
  <2>1. pc' = "applied" => SameShape(old, target)
    BY <1>2, <1>3, <1>4, NoStepsSameShape
  <2>2. Underway'
    <3>1. \A t : HasTable(t)' <=> t \in Tables(old)
      <4>1. \A t \in Tables(old) \ Tables(target) : Pending("DropTable", t, {})'
        BY <1>4, DiffHasSteps DEF Pending
      <4>2. \A t \in Tables(target) \ Tables(old) : Pending("CreateTable", t, {})'
        BY <1>4, DiffHasSteps DEF Pending
      <4>3. QED
        BY <1>4, <4>1, <4>2 DEF HasTable
    <3>2. \A tc : HasColumn(tc)' <=> tc \in Columns(old)
      <4>1. \A t \in Tables(old) \ Tables(target) : Pending("DropTable", t, {})'
        BY <1>4, DiffHasSteps DEF Pending
      <4>2. \A t \in Tables(target) \ Tables(old) : Pending("CreateTable", t, {})'
        BY <1>4, DiffHasSteps DEF Pending
      <4>3. \A tc \in Columns(old) \ Columns(target) :
              tc[1] \in Tables(target) => Pending("DropColumn", tc[1], {tc[2]})'
        BY <1>2, <1>4, DiffHasSteps DEF Pending, IsShape
      <4>4. \A tc \in Columns(target) \ Columns(old) :
              tc[1] \in Tables(old) => Pending("AddColumn", tc[1], {tc[2]})'
        BY <1>3, <1>4, DiffHasSteps DEF Pending, IsShape
      <4>5. \A tc \in Columns(old) : tc[1] \in Tables(old)
        BY <1>2 DEF IsShape
      <4>6. \A tc \in Columns(target) : tc[1] \in Tables(target)
        BY <1>3 DEF IsShape
      <4>7. QED
        BY <1>4, <4>1, <4>2, <4>3, <4>4, <4>5, <4>6 DEF HasColumn
    <3>3. QED
      BY <1>2, <3>1, <3>2 DEF Underway, SameShape
  <2>3. SameShape(db, snapshot)' /\ SameShape(base, snapshot)'
    BY <1>1 DEF SameShape
  <2>4. (pc = "applied" => SameShape(db, schema))'
    BY <1>2, <1>4, <2>1 DEF SameShape
  <2>5. IsShape(from)'
    BY <1>2, <1>4
  <2>6. QED
    BY <2>2, <2>3, <2>4, <2>5 DEF TablesInv
<1>9. QED
  BY <1>5, <1>6, <1>7, <1>8 DEF SInv

\* When no step is left, the shape is that of the schema.
LEMMA DoneMeansSameShape ==
  Underway /\ steps = {} /\ IsShape(from) /\ IsShape(schema) => SameShape(db, schema)
BY DEF Underway, HasTable, HasColumn, Pending, SameShape, IsShape

LEMMA ExecuteKeepsSInv ==
  ASSUME SInv, NEW s \in steps, Execute(s)
  PROVE  SInv'
<1> USE DEF Execute
<1>1. MigrationInv /\ ControlInv /\ DatabaseInv /\ TablesInv
  BY DEF SInv
<1>2. IsShape(from) /\ Underway /\ IsShape(schema) /\ IsDatabase(db)
  BY <1>1, SchemaIsShape DEF TablesInv, ControlInv, DatabaseInv
<1>3. MigrationInv'
  <2>1. \A r \in steps : ~ Precedes(r, s, migration)
    BY DEF Ready
  <2>2. QED
    BY <1>1, <2>1 DEF MigrationInv, Precedes
<1>4. ControlInv'
  BY <1>1 DEF ControlInv
<1>5. DatabaseInv'
  <2>1. IsDatabase(db)'
    BY <1>1, <1>2, ExecuteKeepsDatabase
  <2>2. IsDatabase(base)'
    BY <1>1 DEF DatabaseInv, IsDatabase
  <2>3. QED
    BY <2>1, <2>2 DEF DatabaseInv
<1>6. TablesInv'
  <2>1. Underway'
    BY <1>1, <1>2, ExecuteKeepsUnderway
  <2>2. IsShape(from)' /\ IsShape(schema)'
    BY <1>2 DEF IsShape
  <2>3. steps' = {} => SameShape(db, schema)'
    <3>1. (Underway /\ steps = {} /\ IsShape(from) /\ IsShape(schema) => SameShape(db, schema))'
      BY DoneMeansSameShape, PTL
    <3>2. QED
      BY <2>1, <2>2, <3>1
  <2>4. SameShape(base, snapshot)
    BY <1>1 DEF TablesInv
  <2>5. QED
    BY <2>1, <2>2, <2>3, <2>4 DEF TablesInv, SameShape
<1>7. QED
  BY <1>3, <1>4, <1>5, <1>6 DEF SInv

LEMMA RefuseKeepsSInv ==
  ASSUME SInv, NEW s \in steps, Refuse(s)
  PROVE  SInv'
<1> USE DEF Refuse
<1>1. MigrationInv'
  BY DEF SInv, MigrationInv
<1>2. ControlInv'
  BY DEF SInv, ControlInv
<1>3. DatabaseInv'
  BY DEF SInv, DatabaseInv, IsDatabase
<1>4. TablesInv'
  BY DEF SInv, TablesInv, SameShape, IsShape, Underway, HasTable, HasColumn, Pending
<1>5. QED
  BY <1>1, <1>2, <1>3, <1>4 DEF SInv

LEMMA DiscardKeepsSInv ==
  ASSUME SInv, Discard
  PROVE  SInv'
<1> USE DEF Discard
<1>1. MigrationInv'
  BY DEF SInv, MigrationInv
<1>2. ControlInv'
  BY DEF SInv, ControlInv
<1>3. DatabaseInv'
  BY DEF SInv, DatabaseInv, IsDatabase
<1>4. TablesInv'
  BY DEF SInv, TablesInv, SameShape, IsShape
<1>5. QED
  BY <1>1, <1>2, <1>3, <1>4 DEF SInv

LEMMA SInvNext == SInv /\ [Next]_vars => SInv'
<1> SUFFICES ASSUME SInv, [Next]_vars PROVE SInv'
  OBVIOUS
<1>1. CASE DevShadow
  BY <1>1, DevKeepsSInv DEF DevShadow
<1>2. CASE DevSnapshot
  BY <1>2, DevKeepsSInv DEF DevSnapshot
<1>3. CASE \E s \in steps : Execute(s)
  BY <1>3, ExecuteKeepsSInv
<1>4. CASE \E s \in steps : Refuse(s)
  BY <1>4, RefuseKeepsSInv
<1>5. CASE Discard
  BY <1>5, DiscardKeepsSInv
<1>6. CASE UNCHANGED vars
  <2> USE <1>6 DEF vars
  <2>1. MigrationInv'
    BY DEF SInv, MigrationInv
  <2>2. ControlInv'
    BY DEF SInv, ControlInv
  <2>3. DatabaseInv'
    BY DEF SInv, DatabaseInv, IsDatabase
  <2>4. TablesInv'
    BY DEF SInv, TablesInv, SameShape, IsShape, Underway, HasTable, HasColumn, Pending
  <2>5. QED
    BY <2>1, <2>2, <2>3, <2>4 DEF SInv
<1>7. QED
  BY <1>1, <1>2, <1>3, <1>4, <1>5, <1>6 DEF Next

\* A step that is ready finds the tables and the columns it needs.
InPlace(s) ==
  /\ s.op = "CreateTable" => s.on \notin Tables(db)
  /\ s.op \in ColumnOps \cup {"DropTable", "AlterPrimaryKey", "CreateIndex", "AddUnique", "AddForeignKey"}
       => s.on \in Tables(db)
  /\ s.op = "AddColumn" => StepColumns(s) \cap Columns(db) = {}
  /\ s.op \in {"DropColumn", "AlterColumn", "CreateIndex", "AddUnique"} => StepColumns(s) \subseteq Columns(db)
  /\ s.op = "AddForeignKey" => s.ref \in Tables(db)

LEMMA ReadyIsInPlace ==
  ASSUME SInv, pc = "apply", NEW s, Ready(s)
  PROVE  InPlace(s)
<1>1. MigrationInv /\ Underway /\ IsShape(from) /\ schema \in Schemas \cup {Empty}
  BY DEF SInv, TablesInv, ControlInv
<1>2. IsShape(schema)
  BY <1>1, SchemaIsShape
<1>3. s \in steps /\ s \in Diff(provider, from, schema) /\ \A r \in steps : ~ Precedes(r, s, migration)
  BY <1>1 DEF Ready, MigrationInv
<1>4. s.op \in Ops /\ s = Step(s.op, s.on, s.what, s.ref)
  BY <1>3, StepIsRecord
<1>5. \A t, cs : s.op # "CreateTable" \/ t # s.on \/ cs # s.what \/ s.ref # "none" \/ Pending("CreateTable", t, cs)
  BY <1>3, <1>4 DEF Pending
<1>6. \A t : Pending("CreateTable", t, {}) => Creates(t, migration)
  BY <1>1, Fields DEF Pending, Creates, MigrationInv
<1>7. ASSUME NEW t \in Tables(schema), s.op \in {"CreateIndex", "AddUnique"} => t = s.on,
             s.op \in {"CreateIndex", "AddUnique", "AddForeignKey"}
      PROVE  /\ ~ Pending("CreateTable", t, {})
             /\ \A cs : ~ Pending("AddColumn", t, cs)
             /\ t \in Tables(db)
             /\ \A d : <<t, d>> \in Columns(schema) => <<t, d>> \in Columns(db)
  <2>1. ~ Pending("CreateTable", t, {})
    BY <1>3, <1>6, <1>7, Fields, Order DEF Pending
  <2>2. \A cs : ~ Pending("AddColumn", t, cs)
    BY <1>3, <1>7, Fields, Order DEF Pending
  <2>3. t \in Tables(db)
    BY <1>1, <1>7, <2>1 DEF Underway, HasTable
  <2>4. \A d : <<t, d>> \in Columns(schema) => <<t, d>> \in Columns(db)
    BY <1>1, <1>7, <2>1, <2>2 DEF Underway, HasColumn
  <2>5. QED
    BY <2>1, <2>2, <2>3, <2>4
<1>8. CASE s.op \in {"CreateTable", "DropTable", "AlterPrimaryKey"}
  <2>1. /\ s.op = "CreateTable" => s.on \in Tables(schema) \ Tables(from) /\ Pending("CreateTable", s.on, {})
        /\ s.op = "DropTable" => s.on \in Tables(from) /\ Pending("DropTable", s.on, {})
        /\ s.op = "AlterPrimaryKey" => s.on \in Tables(from) \cap Tables(schema)
    <3>1. CASE s.op = "CreateTable"
      BY <1>3, <3>1, StepsOfDiff, Fields DEF CreatesTable, Pending
    <3>2. CASE s.op = "DropTable"
      BY <1>3, <3>2, StepsOfDiff, Fields DEF DropsTable, Pending
    <3>3. CASE s.op = "AlterPrimaryKey"
      BY <1>3, <3>3, StepsOfDiff, Fields DEF Rekeys
    <3>4. QED
      BY <1>8, <3>1, <3>2, <3>3
  <2>2. QED
    BY <1>1, <1>8, <2>1 DEF InPlace, Underway, HasTable, ColumnOps
<1>9. CASE s.op \in ColumnOps
  <2>1. PICK tc : /\ s.on = tc[1] /\ s.what = {tc[2]} /\ s.ref = "none"
                  /\ tc[1] \in Tables(from) \cap Tables(schema)
                  /\ s.op = "AddColumn" => tc \in Columns(schema) \ Columns(from)
                  /\ s.op = "DropColumn" => tc \in Columns(from) \ Columns(schema)
                  /\ s.op = "AlterColumn" => tc \in Columns(from) \cap Columns(schema)
    BY <1>3, <1>9, ColumnOf
  <2>2. StepColumns(s) = {tc}
    <3>1. tc = <<tc[1], tc[2]>>
      BY <1>1, <1>2, <1>9, <2>1 DEF IsShape, ColumnOps
    <3>2. QED
      BY <2>1, <3>1 DEF StepColumns
  <2>3. Pending(s.op, tc[1], {tc[2]})
    BY <1>3, <1>4, <2>1 DEF Pending
  <2>4. tc[1] \in Tables(db)
    BY <1>1, <2>1 DEF Underway, HasTable
  <2>5. s.op = "AddColumn" => tc \notin Columns(db)
    BY <1>1, <2>1, <2>3 DEF Underway, HasColumn
  <2>6. s.op \in {"DropColumn", "AlterColumn"} => tc \in Columns(db)
    BY <1>1, <2>1, <2>3 DEF Underway, HasColumn
  <2>7. QED
    BY <1>9, <2>1, <2>2, <2>4, <2>5, <2>6 DEF InPlace, ColumnOps
<1>10. CASE s.op \in {"CreateIndex", "AddUnique"}
  <2>1. PICK k \in KeysOf(schema) : s.on = k.table /\ s.what = k.columns
    BY <1>3, <1>10, KeyOf DEF KeysOf
  <2>2. k.table \in Tables(schema) /\ \A c \in k.columns : <<k.table, c>> \in Columns(schema)
    <3>1. schema \in Schemas
      BY <1>1, <2>1 DEF KeysOf, Empty
    <3>2. QED
      BY <2>1, <3>1, SchemaAssumption DEF WellFormed
  <2>3. QED
    BY <1>7, <1>10, <2>1, <2>2 DEF InPlace, ColumnOps, StepColumns
<1>11. CASE s.op = "AddForeignKey"
  <2>1. PICK fk \in ForeignKeys(schema) : s.on = fk.table /\ s.ref = fk.ref
    BY <1>3, <1>11, ForeignKeyOf
  <2>2. fk.table \in Tables(schema) /\ fk.ref \in Tables(schema)
    BY <1>2, <2>1 DEF IsShape, ForeignKeys
  <2>3. QED
    BY <1>7, <1>11, <2>1, <2>2 DEF InPlace, ColumnOps
<1>12. CASE s.op \in EnumOps \cup {"DropForeignKey", "DropUnique"}
  BY <1>12 DEF InPlace, EnumOps, ColumnOps
<1>13. QED
  BY <1>4, <1>8, <1>9, <1>10, <1>11, <1>12 DEF Ops

LEMMA EveryTableHasAColumn ==
  ASSUME SInv
  PROVE  {tc[1] : tc \in Columns(db)} = Tables(db)
<1>1. \A tc \in Columns(db) : tc[1] \in Tables(db)
  BY DEF SInv, DatabaseInv, IsDatabase
<1>2. ASSUME NEW t \in Tables(db)
      PROVE  \E tc \in Columns(db) : tc[1] = t
  <2>1. CASE pc \in {"idle", "applied"}
    <3>1. SameShape(db, snapshot) /\ IsShape(snapshot)
      BY <2>1, SchemaIsShape DEF SInv, TablesInv, ControlInv
    <3>2. QED
      BY <3>1 DEF SameShape, IsShape
  <2>2. CASE pc \in {"apply", "refused"}
    <3>1. MigrationInv /\ Underway /\ IsShape(from) /\ IsShape(schema)
      BY <2>2, SchemaIsShape DEF SInv, TablesInv, ControlInv
    <3>2. HasTable(t)
      BY <3>1 DEF Underway
    <3>3. CASE t \notin Tables(from)
      <4>1. PICK tc \in Columns(schema) : tc[1] = t
        BY <3>1, <3>2, <3>3 DEF HasTable, IsShape
      <4>2. HasColumn(tc)
        BY <3>1, <3>2, <3>3, <4>1 DEF HasTable, HasColumn, IsShape
      <4>3. QED
        BY <3>1, <4>1, <4>2 DEF Underway
    <3>4. CASE t \in Tables(from) \ Tables(schema)
      <4>1. PICK tc \in Columns(from) : tc[1] = t
        BY <3>1, <3>4 DEF IsShape
      <4>2. HasColumn(tc)
        BY <3>1, <3>2, <3>4, <4>1 DEF HasTable, HasColumn, IsShape
      <4>3. QED
        BY <3>1, <4>1, <4>2 DEF Underway
    <3>5. CASE t \in Tables(from) \cap Tables(schema)
      <4>1. PICK old \in Columns(from) : old[1] = t
        BY <3>1, <3>5 DEF IsShape
      <4>2. PICK new \in Columns(schema) : new[1] = t
        BY <3>1, <3>5 DEF IsShape
      <4>3. CASE HasColumn(old)
        BY <3>1, <4>1, <4>3 DEF Underway
      <4>4. CASE HasColumn(new)
        BY <3>1, <4>2, <4>4 DEF Underway
      <4>5. CASE ~ HasColumn(old) /\ ~ HasColumn(new)
        <5> DEFINE add == Step("AddColumn", t, {new[2]}, "none")
                   drop == Step("DropColumn", t, {old[2]}, "none")
        <5>1. old \notin Columns(schema) /\ drop \notin steps
          BY <3>5, <4>1, <4>5 DEF HasColumn, Pending
        <5>2. new \notin Columns(from) /\ add \in steps
          BY <3>5, <4>2, <4>5 DEF HasColumn, Pending
        <5>3. drop \in Diff(provider, from, schema)
          BY <3>5, <4>1, <5>1, DiffHasSteps
        <5>4. Precedes(add, drop, migration)
          BY Fields, Order
        <5>5. QED
          BY <3>1, <5>1, <5>2, <5>3, <5>4 DEF MigrationInv
      <4>6. QED
        BY <4>3, <4>4, <4>5
    <3>6. QED
      BY <3>2, <3>3, <3>4, <3>5
  <2>3. QED
    BY <2>1, <2>2 DEF SInv, ControlInv
<1>3. QED
  BY <1>1, <1>2

-----------------------------------------------------------------------------
(* Theorems for both databases. *)

THEOREM SpecSInv == ASSUME NoneSkipped PROVE Spec => []SInv
<1>1. Init => SInv
  BY SInvInit
<1>2. QED
  BY <1>1, SInvNext, PTL DEF Spec

\* TypeOK: every table has a column, every constraint and index is on columns
\* that exist, and every column has a type that exists, at any moment of any
\* migration, whether it goes through or is refused, if introspection passes
\* over no table (diff_schemas, the renderers, sort_steps).
THEOREM Types == ASSUME NoneSkipped PROVE Spec => []TypeOK
<1>1. SInv => TypeOK
  <2> SUFFICES ASSUME SInv PROVE TypeOK
    OBVIOUS
  <2>1. MigrationInv /\ ControlInv /\ IsDatabase(db)
    BY DEF SInv, DatabaseInv
  <2>2. {tc[1] : tc \in Columns(db)} = Tables(db)
    BY EveryTableHasAColumn
  <2>3. \A k \in KeysOf(db) : \A c \in k.columns : <<k.table, c>> \in Columns(db)
    BY <2>1 DEF IsDatabase
  <2>4. \A tc \in Columns(db) : TypeExists(db.columns[tc].type)
    BY <2>1 DEF IsDatabase, TypeExists
  <2>5. pc = "apply" <=> (steps # {} /\ pc # "refused")
    BY <2>1 DEF ControlInv
  <2>6. QED
    BY <2>1, <2>2, <2>3, <2>4, <2>5 DEF TypeOK, ControlInv, MigrationInv
<1>2. Spec => []SInv
  BY SpecSInv
<1>3. QED
  BY <1>1, <1>2, PTL

\* KeepsColumns: a column that the database has and the schema wants is never
\* dropped on the way, not even to be created again, if introspection passes
\* over no table (diff_columns).
THEOREM ColumnsAreKept == ASSUME NoneSkipped PROVE Spec => KeepsColumns
<1> DEFINE Kept == pc = "apply" => Columns(db) \cap Columns(schema) \subseteq Columns(db')
<1>1. SInv /\ SInv' /\ [Next]_vars => [Kept]_vars
  <2> SUFFICES ASSUME SInv, SInv', [Next]_vars, pc = "apply", NEW tc \in Columns(db) \cap Columns(schema)
               PROVE  tc \in Columns(db')
    OBVIOUS
  <2>1. CASE \E s \in steps : Execute(s)
    <3>1. PICK s \in steps : Execute(s)
      BY <2>1
    <3>2. Underway /\ steps' \subseteq steps /\ from' = from /\ schema' = schema
      BY <3>1 DEF SInv, TablesInv, Execute
    <3>3. CASE pc' = "applied"
      BY <3>2, <3>3 DEF SInv, TablesInv, SameShape
    <3>4. CASE pc' = "apply"
      <4>1. Underway'
        BY <3>4 DEF SInv, TablesInv
      <4>2. HasColumn(tc)
        BY <3>2 DEF Underway
      <4>3. HasColumn(tc)'
        BY <3>2, <4>2 DEF HasColumn, Pending
      <4>4. QED
        BY <4>1, <4>3 DEF Underway
    <3>5. QED
      BY <3>1, <3>3, <3>4 DEF Execute
  <2>2. CASE \E s \in steps : Refuse(s)
    BY <2>2 DEF Refuse
  <2>3. CASE UNCHANGED vars
    BY <2>3 DEF vars
  <2>4. QED
    BY <2>1, <2>2, <2>3 DEF Next, DevShadow, DevSnapshot, Dev, Discard
<1> HIDE DEF Kept
<1>2. Spec => []SInv
  BY SpecSInv
<1>3. Spec => [][Kept]_vars
  BY <1>1, <1>2, PTL DEF Spec
<1>4. QED
  BY <1>3 DEF Kept, KeepsColumns

\* On both databases and in whatever order the hash maps give, no statement is
\* there before the tables and columns it needs, and none creates or drops
\* what is already created or dropped, if introspection passes over no table
\* (sort_steps).
THEOREM StepsFindTheirTables ==
  ASSUME NoneSkipped
  PROVE  Spec => [](pc = "apply" => \A s \in steps : Ready(s) => InPlace(s))
<1>1. SInv => (pc = "apply" => \A s \in steps : Ready(s) => InPlace(s))
  BY ReadyIsInPlace
<1>2. Spec => []SInv
  BY SpecSInv
<1>3. QED
  BY <1>1, <1>2, PTL

-----------------------------------------------------------------------------
(* What a migration keeps: what the schema is about. *)

LEMMA SchemaFacts ==
  ASSUME NEW s \in Schemas \cup {Empty}
  PROVE  /\ \A k \in KeysOf(s) : /\ k = [table |-> k.table, columns |-> k.columns] /\ k.table \in Tables(s)
                                 /\ \A c \in k.columns : <<k.table, c>> \in Columns(s)
         /\ \A fk \in s.fks : fk.table \in Tables(s) /\ fk.ref \in Tables(s)
         /\ \A t \in Tables(s) : \A c \in Range(s.keys[t]) : <<t, c>> \in Columns(s)
         /\ ForeignKeys(s) = s.fks
<1>1. CASE s \in Schemas
  <2>1. WellFormed(s)
    BY <1>1, SchemaAssumption
  <2>2. ASSUME NEW t \in Tables(s), NEW c \in Range(s.keys[t])
        PROVE  <<t, c>> \in Columns(s)
    <3>1. c \in {tc[2] : tc \in {tc \in Columns(s) : tc[1] = t}}
      BY <2>1 DEF WellFormed
    <3>2. PICK tc \in Columns(s) : tc[1] = t /\ tc[2] = c
      BY <3>1
    <3>3. QED
      BY <2>1, <3>2 DEF WellFormed
  <2>3. \A t \in Tables(s) : \A c \in Range(s.keys[t]) : <<t, c>> \in Columns(s)
    BY <2>2
  <2>4. QED
    BY <2>1, <2>3 DEF WellFormed, ForeignKeys
<1>2. CASE s = Empty
  BY <1>2 DEF Empty, KeysOf, Tables, ForeignKeys
<1>3. QED
  BY <1>1, <1>2

LEMMA ResolvedFacts ==
  ASSUME Resolved, NEW s \in Schemas \cup {Empty}
  PROVE  /\ \A fk \in s.fks : <<fk.table, fk.column>> \in Columns(s)
         /\ \A f, g \in s.fks : f.table = g.table /\ f.column = g.column /\ f.ref = g.ref => f = g
BY DEF Resolved, ForeignKeysResolve, Empty

\* The facts about a step that is executed on which the lemmas below rest.
LEMMA Executed ==
  ASSUME SInv, NEW s \in steps, Execute(s)
  PROVE  /\ s \in Diff(provider, from, schema) /\ s.op \in Ops
         /\ DOMAIN db = DOMAIN Empty /\ db' = After(s)
         /\ IsShape(from) /\ IsShape(schema) /\ schema \in Schemas \cup {Empty}
         /\ provider \in {"PostgreSQL", "SQLite"} /\ ~ Refuses(s)
         /\ steps' = steps \ {s} /\ s = Step(s.op, s.on, s.what, s.ref)
         /\ \E c : /\ s.what = {c} \/ s.op \notin ColumnOps \cup {"AddForeignKey", "DropForeignKey"}
                   /\ s.op = "DropColumn" => <<s.on, c>> \notin Columns(schema)
         /\ s.op = "DropTable" => s.on \notin Tables(schema)
<1>1. MigrationInv /\ ControlInv /\ IsDatabase(db) /\ IsShape(from)
  BY DEF SInv, DatabaseInv, TablesInv
<1>2. s \in Diff(provider, from, schema) /\ s.op \in Ops /\ s = Step(s.op, s.on, s.what, s.ref)
  BY <1>1, StepIsRecord DEF MigrationInv
<1>3. IsShape(schema) /\ schema \in Schemas \cup {Empty} /\ provider \in {"PostgreSQL", "SQLite"}
  BY <1>1, SchemaIsShape, ProviderAssumption DEF ControlInv
<1>4. \E c : /\ s.what = {c} \/ s.op \notin ColumnOps \cup {"AddForeignKey", "DropForeignKey"}
             /\ s.op = "DropColumn" => <<s.on, c>> \notin Columns(schema)
  <2>1. CASE s.op \in ColumnOps
    <3>1. PICK tc : /\ s.on = tc[1] /\ s.what = {tc[2]}
                    /\ s.op = "DropColumn" => tc \in Columns(from) \ Columns(schema)
      BY <1>2, <2>1, ColumnOf
    <3>2. s.op = "DropColumn" => <<s.on, tc[2]>> \notin Columns(schema)
      BY <1>1, <3>1 DEF IsShape
    <3>3. QED
      BY <3>1, <3>2
  <2>2. CASE s.op \in {"AddForeignKey", "DropForeignKey"}
    <3>1. PICK fk : s.what = {fk.column}
      BY <1>2, <2>2, ForeignKeyOf
    <3>2. QED
      BY <2>2, <3>1
  <2>3. CASE s.op \notin ColumnOps \cup {"AddForeignKey", "DropForeignKey"}
    BY <2>3 DEF ColumnOps
  <2>4. QED
    BY <2>1, <2>2, <2>3
<1>5. s.op = "DropTable" => s.on \notin Tables(schema)
  BY <1>2, StepsOfDiff, Fields DEF DropsTable
<1>6. QED
  BY <1>1, <1>2, <1>3, <1>4, <1>5 DEF Execute, IsDatabase

\* A constraint of the schema stays, and a step that adds it does.
LEMMA ExecuteKeepsUniques ==
  ASSUME SInv, NEW s \in steps, Execute(s), NEW u \in schema.uniques,
         u \in db.uniques \/ Pending("AddUnique", u.table, u.columns)
  PROVE  u \in db'.uniques \/ Pending("AddUnique", u.table, u.columns)'
<1>1. /\ s \in Diff(provider, from, schema) /\ s.op \in Ops
      /\ DOMAIN db = DOMAIN Empty /\ db' = After(s)
      /\ IsShape(from) /\ schema \in Schemas \cup {Empty}
      /\ steps' = steps \ {s}
      /\ s.op = "DropTable" => s.on \notin Tables(schema)
  BY Executed
<1>2. PICK c : /\ s.what = {c} \/ s.op \notin ColumnOps
               /\ s.op = "DropColumn" => <<s.on, c>> \notin Columns(schema)
  BY Executed
<1>3. /\ u = [table |-> u.table, columns |-> u.columns] /\ u.table \in Tables(schema)
      /\ \A d \in u.columns : <<u.table, d>> \in Columns(schema)
  BY <1>1, SchemaFacts DEF KeysOf
<1>4. CASE u \in db.uniques
  <2>1. s.op = "DropUnique" => Key(s) # u
    <3>1. s.op = "DropUnique" =>
            \E k \in from.uniques \ schema.uniques : s.on = k.table /\ s.what = k.columns
      BY <1>1, KeyOf
    <3>2. \A k \in from.uniques : k = [table |-> k.table, columns |-> k.columns]
      BY <1>1 DEF IsShape, KeysOf
    <3>3. QED
      BY <3>1, <3>2 DEF Key
  <2>2. /\ s.op = "DropTable" => db'.uniques = {v \in db.uniques : v.table # s.on}
        /\ s.op = "DropColumn" => db'.uniques = {v \in db.uniques : ~ (v.table = s.on /\ c \in v.columns)}
        /\ s.op = "AddUnique" => db'.uniques = db.uniques \cup {Key(s)}
        /\ s.op = "DropUnique" => db'.uniques = db.uniques \ {Key(s)}
        /\ s.op \notin {"DropTable", "DropColumn", "AddUnique", "DropUnique"} => db'.uniques = db.uniques
    BY <1>1, <1>2, EffectOnUniques
  <2>3. QED
    BY <1>1, <1>2, <1>3, <1>4, <2>1, <2>2
<1>5. CASE Pending("AddUnique", u.table, u.columns)
  <2>1. CASE s = Step("AddUnique", u.table, u.columns, "none")
    <3>1. s.op = "AddUnique" /\ Key(s) = u
      BY <1>3, <2>1, Fields DEF Key
    <3>2. db'.uniques = db.uniques \cup {Key(s)}
      BY <1>1, <1>2, <3>1, EffectOnUniques
    <3>3. QED
      BY <3>1, <3>2
  <2>2. CASE s # Step("AddUnique", u.table, u.columns, "none")
    BY <1>1, <1>5, <2>2 DEF Pending
  <2>3. QED
    BY <2>1, <2>2
<1>6. QED
  BY <1>4, <1>5

LEMMA UniquesNext == SInv /\ UniquesInv /\ [Next]_vars => UniquesInv'
<1> SUFFICES ASSUME SInv, UniquesInv, [Next]_vars PROVE UniquesInv'
  OBVIOUS
<1>1. ASSUME NEW target \in Schemas, NEW old \in Readings(provider, db) \cup {snapshot}, Dev(target, old)
      PROVE  UniquesInv'
  <2> USE <1>1 DEF Dev
  <2>1. snapshot.uniques \subseteq db.uniques
    BY DEF UniquesInv
  <2>2. old.uniques \subseteq db.uniques
    BY <2>1, ReadingOf
  <2>3. \A u \in target.uniques : u \in db.uniques \/ Pending("AddUnique", u.table, u.columns)'
    BY <2>2, DiffHasSteps DEF Pending
  <2>4. QED
    BY <2>1, <2>3 DEF UniquesInv, Pending
<1>2. ASSUME NEW s \in steps, Execute(s)
      PROVE  UniquesInv'
  <2>1. \A u \in schema.uniques : u \in db.uniques \/ Pending("AddUnique", u.table, u.columns)
    BY <1>2 DEF UniquesInv, Execute
  <2>2. \A u \in schema.uniques : u \in db'.uniques \/ Pending("AddUnique", u.table, u.columns)'
    BY <1>2, <2>1, ExecuteKeepsUniques
  <2>3. steps' = {} => schema.uniques \subseteq db'.uniques
    BY <2>2 DEF Pending
  <2>4. QED
    BY <1>2, <2>2, <2>3 DEF UniquesInv, Execute
<1>3. CASE \E s \in steps : Refuse(s)
  BY <1>3 DEF Refuse, UniquesInv
<1>4. CASE Discard
  BY <1>4 DEF Discard, UniquesInv
<1>5. CASE UNCHANGED vars
  BY <1>5 DEF vars, UniquesInv, Pending
<1>6. QED
  BY <1>1, <1>2, <1>3, <1>4, <1>5 DEF Next, DevShadow, DevSnapshot

-----------------------------------------------------------------------------

LEMMA ExecuteKeepsIndexes ==
  ASSUME SInv, IndexesUnderway, NEW s \in steps, Execute(s)
  PROVE  IndexesUnderway'
<1>1. /\ s \in Diff(provider, from, schema) /\ s.op \in Ops
      /\ DOMAIN db = DOMAIN Empty /\ db' = After(s)
      /\ IsShape(from) /\ schema \in Schemas \cup {Empty}
      /\ steps' = steps \ {s} /\ provider \in {"PostgreSQL", "SQLite"} /\ ~ Refuses(s)
      /\ s.op = "DropTable" => s.on \notin Tables(schema)
  BY Executed
<1>2. PICK c : /\ s.what = {c} \/ s.op \notin ColumnOps
               /\ s.op = "DropColumn" => <<s.on, c>> \notin Columns(schema)
  BY Executed
<1>3. UNCHANGED <<provider, from, schema>>
  BY DEF Execute
<1> SUFFICES ASSUME NEW i \in schema.indexes
             PROVE  \/ i \in db'.indexes
                    \/ Pending("CreateIndex", i.table, i.columns)'
                    \/ /\ provider = "PostgreSQL" /\ i \in db'.uniques \ from.uniques
                       /\ i \in schema.uniques => Pending("AddUnique", i.table, i.columns)'
  BY <1>3 DEF IndexesUnderway
<1>4. /\ i = [table |-> i.table, columns |-> i.columns] /\ i.table \in Tables(schema)
      /\ \A d \in i.columns : <<i.table, d>> \in Columns(schema)
  BY <1>1, SchemaFacts DEF KeysOf
<1>5. CASE i \in db.indexes
  <2>1. /\ s.op = "DropTable" => db'.indexes = {v \in db.indexes : v.table # s.on}
        /\ s.op = "DropColumn" => db'.indexes = {v \in db.indexes : ~ (v.table = s.on /\ c \in v.columns)}
        /\ s.op = "CreateIndex" => db'.indexes = db.indexes \cup {Key(s)}
        /\ s.op \notin {"DropTable", "DropColumn", "CreateIndex"} => db'.indexes = db.indexes
    BY <1>1, <1>2, EffectOnIndexes
  <2>2. QED
    BY <1>1, <1>2, <1>4, <1>5, <2>1
<1>6. CASE Pending("CreateIndex", i.table, i.columns)
  <2>1. CASE s = Step("CreateIndex", i.table, i.columns, "none")
    <3>1. s.op = "CreateIndex" /\ Key(s) = i
      BY <1>4, <2>1, Fields DEF Key
    <3>2. db'.indexes = db.indexes \cup {Key(s)}
      BY <1>1, <1>2, <3>1, EffectOnIndexes
    <3>3. QED
      BY <3>1, <3>2
  <2>2. CASE s # Step("CreateIndex", i.table, i.columns, "none")
    BY <1>1, <1>6, <2>2 DEF Pending
  <2>3. QED
    BY <2>1, <2>2
<1>7. CASE /\ provider = "PostgreSQL" /\ i \in db.uniques \ from.uniques
           /\ i \in schema.uniques => Pending("AddUnique", i.table, i.columns)
  <2>1. s.op = "DropUnique" => Key(s) # i
    <3>1. s.op = "DropUnique" =>
            \E k \in from.uniques \ schema.uniques : s.on = k.table /\ s.what = k.columns
      BY <1>1, KeyOf
    <3>2. \A k \in from.uniques : k = [table |-> k.table, columns |-> k.columns]
      BY <1>1 DEF IsShape, KeysOf
    <3>3. QED
      BY <1>7, <3>1, <3>2 DEF Key
  <2>2. /\ s.op = "DropTable" => db'.uniques = {v \in db.uniques : v.table # s.on}
        /\ s.op = "DropColumn" => db'.uniques = {v \in db.uniques : ~ (v.table = s.on /\ c \in v.columns)}
        /\ s.op = "AddUnique" => db'.uniques = db.uniques \cup {Key(s)}
        /\ s.op = "DropUnique" => db'.uniques = db.uniques \ {Key(s)}
        /\ s.op \notin {"DropTable", "DropColumn", "AddUnique", "DropUnique"} => db'.uniques = db.uniques
    BY <1>1, <1>2, EffectOnUniques
  <2>3. i \in db'.uniques
    BY <1>1, <1>2, <1>4, <1>7, <2>1, <2>2
  <2>4. s # Step("AddUnique", i.table, i.columns, "none")
    <3>1. s.op = "AddUnique" => Key(s) \notin db.uniques
      BY <1>1, NotRefused
    <3>2. QED
      BY <1>4, <1>7, <3>1, Fields DEF Key
  <2>5. QED
    BY <1>1, <1>7, <2>3, <2>4 DEF Pending
<1>8. QED
  BY <1>5, <1>6, <1>7 DEF IndexesUnderway

LEMMA IndexesNext == SInv /\ IndexesInv /\ [Next]_vars => IndexesInv'
<1> SUFFICES ASSUME SInv, IndexesInv, [Next]_vars PROVE IndexesInv'
  OBVIOUS
<1>1. ASSUME NEW target \in Schemas, NEW old \in Readings(provider, db) \cup {snapshot}, Dev(target, old)
      PROVE  IndexesInv'
  <2> USE <1>1 DEF Dev
  <2>1. Indexed(db, snapshot) /\ provider \in {"PostgreSQL", "SQLite"}
    BY ProviderAssumption DEF IndexesInv, SInv, ControlInv
  <2>2. Indexed(db, old)
    <3>1. CASE old \in Readings(provider, db)
      <4>1. old.uniques = {} /\ old.indexes = IF provider = "SQLite" THEN db.indexes ELSE KeysOf(db)
        BY <3>1, ReadingOf
      <4>2. QED
        BY <2>1, <4>1 DEF Indexed, KeysOf
    <3>2. QED
      BY <2>1, <3>1
  <2>3. IndexesUnderway'
    <3> SUFFICES ASSUME NEW i \in target.indexes
                 PROVE  \/ i \in db.indexes
                        \/ Pending("CreateIndex", i.table, i.columns)'
                        \/ /\ provider = "PostgreSQL" /\ i \in db.uniques \ old.uniques
                           /\ i \in target.uniques => Pending("AddUnique", i.table, i.columns)'
      BY DEF IndexesUnderway
    <3>1. i \notin old.indexes => Pending("CreateIndex", i.table, i.columns)'
      BY DiffHasSteps DEF Pending
    <3>2. i \notin old.uniques /\ i \in target.uniques => Pending("AddUnique", i.table, i.columns)'
      BY DiffHasSteps DEF Pending
    <3>3. QED
      BY <2>2, <3>1, <3>2 DEF Indexed
  <2>4. steps' = {} => Indexed(db, schema)'
    BY <2>3 DEF IndexesUnderway, Pending, Indexed
  <2>5. Indexed(db, snapshot)' /\ Indexed(base, snapshot)'
    BY <2>1 DEF Indexed
  <2>6. QED
    BY <2>3, <2>4, <2>5 DEF IndexesInv
<1>2. ASSUME NEW s \in steps, Execute(s)
      PROVE  IndexesInv'
  <2>1. IndexesUnderway'
    BY <1>2, ExecuteKeepsIndexes DEF IndexesInv, Execute
  <2>2. steps' = {} => Indexed(db, schema)'
    BY <2>1 DEF IndexesUnderway, Pending, Indexed
  <2>3. Indexed(base, snapshot)
    BY <1>2 DEF IndexesInv, Execute
  <2>4. QED
    BY <1>2, <2>1, <2>2, <2>3 DEF IndexesInv, Execute, Indexed
<1>3. CASE \E s \in steps : Refuse(s)
  BY <1>3 DEF Refuse, IndexesInv, Indexed
<1>4. CASE Discard
  BY <1>4 DEF Discard, IndexesInv, Indexed
<1>5. CASE UNCHANGED vars
  BY <1>5 DEF vars, IndexesInv, Indexed, IndexesUnderway, Pending
<1>6. QED
  BY <1>1, <1>2, <1>3, <1>4, <1>5 DEF Next, DevShadow, DevSnapshot

\* The foreign keys of a table that is created are in its CREATE TABLE.
LEMMA ExecuteKeepsInline ==
  ASSUME Resolved, SInv, provider = "SQLite", NEW s \in steps, Execute(s),
         NEW fk \in schema.fks, Creates(fk.table, migration),
         \/ \E f \in db.fks \cap schema.fks : SameColumn(f, fk)
         \/ Pending("CreateTable", fk.table, {})
  PROVE  \/ \E f \in db'.fks \cap schema.fks : SameColumn(f, fk)
         \/ Pending("CreateTable", fk.table, {})'
<1>1. /\ s \in Diff(provider, from, schema) /\ s.op \in Ops
      /\ DOMAIN db = DOMAIN Empty /\ db' = After(s)
      /\ IsShape(from) /\ schema \in Schemas \cup {Empty}
      /\ steps' = steps \ {s}
      /\ s.op = "DropTable" => s.on \notin Tables(schema)
  BY Executed
<1>2. PICK c : /\ s.what = {c} \/ s.op \notin ColumnOps \cup {"AddForeignKey", "DropForeignKey"}
               /\ s.op = "DropColumn" => <<s.on, c>> \notin Columns(schema)
  BY Executed
<1>3. /\ fk.table \in Tables(schema) /\ <<fk.table, fk.column>> \in Columns(schema)
      /\ fk \in ForeignKeys(schema)
  BY <1>1, SchemaFacts, ResolvedFacts
<1>4. CASE \E f \in db.fks \cap schema.fks : SameColumn(f, fk)
  <2>1. PICK f \in db.fks \cap schema.fks : SameColumn(f, fk)
    BY <1>4
  <2>2. f.table \in Tables(schema) /\ <<f.table, f.column>> \in Columns(schema)
    BY <1>3, <2>1 DEF SameColumn
  <2>3. /\ s.op = "CreateTable" => f \in db'.fks
        /\ s.op = "DropTable" => (f \in db'.fks <=> f.table # s.on)
        /\ s.op = "DropColumn" => (f \in db'.fks <=> ~ (f.table = s.on /\ f.column = c))
        /\ s.op \notin {"CreateTable", "DropTable", "DropColumn"} => f \in db'.fks
    BY <1>1, <1>2, <2>1, EffectOnForeignKeys
  <2>4. f \in db'.fks
    BY <1>1, <1>2, <2>2, <2>3
  <2>5. QED
    BY <2>1, <2>4
<1>5. CASE Pending("CreateTable", fk.table, {})
  <2>1. CASE s = Step("CreateTable", fk.table, {}, "none")
    <3>1. s.op = "CreateTable" /\ s.on = fk.table
      BY <2>1, Fields
    <3>2. fk.table \in Tables(schema) \ Tables(from)
      BY <1>1, <3>1, StepsOfDiff, Fields DEF CreatesTable
    <3>3. fk \notin ForeignKeys(from)
      BY <1>1, <3>2 DEF IsShape, ForeignKeys
    <3>4. Step("AddForeignKey", fk.table, {fk.column}, fk.ref) \in migration
      BY <1>3, <3>3, DiffHasSteps DEF SInv, MigrationInv
    <3>5. fk \in AddedForeignKeys(s.on)
      BY <1>3, <3>1, <3>4 DEF AddedForeignKeys
    <3> DEFINE f == CHOOSE g \in AddedForeignKeys(s.on) : SameColumn(g, fk)
    <3>6. f \in AddedForeignKeys(s.on) /\ SameColumn(f, fk)
      BY <3>5 DEF SameColumn
    <3>7. f \in InlineForeignKeys(s.on)
      BY <3>5 DEF InlineForeignKeys
    <3>8. f \in schema.fks
      BY <3>6 DEF AddedForeignKeys
    <3> HIDE DEF f
    <3>9. f \in db'.fks
      BY <1>1, <1>2, <3>1, <3>7, EffectOnForeignKeys
    <3>10. QED
      BY <3>6, <3>8, <3>9
  <2>2. CASE s # Step("CreateTable", fk.table, {}, "none")
    BY <1>1, <1>5, <2>2 DEF Pending
  <2>3. QED
    BY <2>1, <2>2
<1>6. QED
  BY <1>4, <1>5

LEMMA InlineNext == Resolved => (SInv /\ InlineInv /\ [Next]_vars => InlineInv')
<1> SUFFICES ASSUME Resolved, SInv, InlineInv, [Next]_vars PROVE InlineInv'
  OBVIOUS
<1>1. ASSUME NEW target \in Schemas, NEW old \in Readings(provider, db) \cup {snapshot}, Dev(target, old)
      PROVE  InlineInv'
  <2> SUFFICES ASSUME NEW fk \in target.fks, Creates(fk.table, migration)'
               PROVE  Pending("CreateTable", fk.table, {})'
    BY <1>1 DEF Dev, InlineInv
  <2>1. PICK s \in Diff(provider, old, target) : s.op = "CreateTable" /\ s.on = fk.table
    BY <1>1 DEF Creates, Dev
  <2>2. PICK t : s = Step("CreateTable", t, {}, "none")
    BY <2>1, StepsOfDiff DEF CreatesTable
  <2>3. s = Step("CreateTable", fk.table, {}, "none")
    BY <2>1, <2>2, Fields
  <2>4. QED
    BY <1>1, <2>3 DEF Dev, Pending
<1>2. ASSUME NEW s \in steps, Execute(s)
      PROVE  InlineInv'
  <2>1. pc = "apply" /\ UNCHANGED <<provider, schema, migration>>
    BY <1>2 DEF Execute
  <2>2. ASSUME provider = "SQLite", NEW fk \in schema.fks, Creates(fk.table, migration)
        PROVE  \/ \E f \in db'.fks \cap schema.fks : SameColumn(f, fk)
               \/ Pending("CreateTable", fk.table, {})'
    <3>1. \/ \E f \in db.fks \cap schema.fks : SameColumn(f, fk)
          \/ Pending("CreateTable", fk.table, {})
      BY <2>1, <2>2 DEF InlineInv
    <3>2. QED
      BY <1>2, <2>2, <3>1, ExecuteKeepsInline
  <2>3. QED
    BY <2>1, <2>2 DEF InlineInv, Creates
<1>3. CASE \E s \in steps : Refuse(s)
  BY <1>3 DEF Refuse, InlineInv
<1>4. CASE Discard
  BY <1>4 DEF Discard, InlineInv
<1>5. CASE UNCHANGED vars
  BY <1>5 DEF vars, InlineInv, Creates, Pending
<1>6. QED
  BY <1>1, <1>2, <1>3, <1>4, <1>5 DEF Next, DevShadow, DevSnapshot

-----------------------------------------------------------------------------
(* On PostgreSQL: keys. *)

LEMMA ExecuteKeepsKeys ==
  ASSUME SInv, provider = "PostgreSQL", NEW s \in steps, Execute(s),
         \A t \in Tables(db) \cap Tables(schema) :
           db.keys[t] = schema.keys[t] \/ Pending("AlterPrimaryKey", t, {}),
         NEW t \in Tables(db') \cap Tables(schema)
  PROVE  db'.keys[t] = schema.keys[t] \/ Pending("AlterPrimaryKey", t, {})'
<1>1. /\ s \in Diff(provider, from, schema) /\ s.op \in Ops
      /\ DOMAIN db = DOMAIN Empty /\ db' = After(s)
      /\ schema \in Schemas \cup {Empty} /\ steps' = steps \ {s}
  BY Executed
<1>2. PICK c : /\ s.what = {c} \/ s.op \notin ColumnOps
               /\ s.op = "DropColumn" => <<s.on, c>> \notin Columns(schema)
  BY Executed
<1>3. s.op # "AlterPrimaryKey" \/ s.on # t => (Pending("AlterPrimaryKey", t, {})' <=> Pending("AlterPrimaryKey", t, {}))
  BY <1>1, Fields DEF Pending
<1>4. /\ s.op = "CreateTable" =>
           \/ t \in Tables(db) /\ db'.keys[t] = db.keys[t]
           \/ t = s.on /\ db'.keys[t] = schema.keys[t]
      /\ s.op = "DropColumn" => db'.keys[t] = IF t = s.on /\ c \in Range(db.keys[t]) THEN <<>> ELSE db.keys[t]
      /\ s.op = "AlterPrimaryKey" => db'.keys[t] = IF t = s.on THEN schema.keys[t] ELSE db.keys[t]
      /\ s.op \notin {"CreateTable", "DropColumn", "AlterPrimaryKey"} => db'.keys[t] = db.keys[t]
  BY <1>1, <1>2, EffectOnKeys
<1>5. s.op # "CreateTable" => t \in Tables(db)
  BY <1>1, <1>2, EffectOnTables
<1>6. CASE s.op = "DropColumn" /\ t = s.on /\ c \in Range(db.keys[t])
  <2>1. c \notin Range(schema.keys[t])
    BY <1>1, <1>2, <1>6, SchemaFacts
  <2>2. QED
    BY <1>3, <1>5, <1>6, <2>1
<1>7. CASE ~ (s.op = "DropColumn" /\ t = s.on /\ c \in Range(db.keys[t]))
  BY <1>3, <1>4, <1>5, <1>7
<1>8. QED
  BY <1>6, <1>7

LEMMA KeysNext == SInv /\ KeysInv /\ [Next]_vars => KeysInv'
<1> SUFFICES ASSUME SInv, KeysInv, [Next]_vars, (provider = "PostgreSQL")' PROVE KeysInv'
  BY DEF KeysInv
<1>1. provider' = provider /\ provider = "PostgreSQL"
  BY DEF Next, DevShadow, DevSnapshot, Dev, Execute, Refuse, Discard, vars
<1>2. ASSUME NEW target \in Schemas, NEW old \in Readings(provider, db) \cup {snapshot}, Dev(target, old)
      PROVE  KeysInv'
  <2> USE <1>2 DEF Dev
  <2>1. SameKeys(db, snapshot)
    BY <1>1 DEF KeysInv
  <2>2. SameShape(db, old)
    BY FromIsShape DEF SInv, TablesInv, ControlInv
  <2>3. SameKeys(db, old)
    <3>1. CASE old \in Readings(provider, db)
      BY <1>1, <3>1, ReadingOf DEF SameKeys
    <3>2. QED
      BY <2>1, <3>1
  <2>4. ASSUME NEW t \in Tables(db) \cap Tables(target)
        PROVE  db.keys[t] = target.keys[t] \/ Pending("AlterPrimaryKey", t, {})'
    <3>1. t \in Tables(old) /\ db.keys[t] = old.keys[t]
      BY <2>2, <2>3 DEF SameKeys, SameShape
    <3>2. QED
      BY <3>1, DiffHasSteps DEF Pending
  <2>5. steps' = {} => SameKeys(db, target)
    BY <2>4 DEF Pending, SameKeys
  <2>6. QED
    BY <2>1, <2>4, <2>5 DEF KeysInv, SameKeys
<1>3. ASSUME NEW s \in steps, Execute(s)
      PROVE  KeysInv'
  <2> USE <1>3 DEF Execute
  <2>1. \A t \in Tables(db) \cap Tables(schema) :
          db.keys[t] = schema.keys[t] \/ Pending("AlterPrimaryKey", t, {})
    BY <1>1 DEF KeysInv
  <2>2. \A t \in Tables(db') \cap Tables(schema) :
          db'.keys[t] = schema.keys[t] \/ Pending("AlterPrimaryKey", t, {})'
    BY <1>1, <2>1, ExecuteKeepsKeys
  <2>3. steps' = {} => SameKeys(db', schema)
    BY <2>2 DEF Pending, SameKeys
  <2>4. SameKeys(base, snapshot)
    BY <1>1 DEF KeysInv
  <2>5. QED
    BY <2>2, <2>3, <2>4 DEF KeysInv, SameKeys
<1>4. CASE \E s \in steps : Refuse(s)
  BY <1>1, <1>4 DEF Refuse, KeysInv, SameKeys
<1>5. CASE Discard
  BY <1>1, <1>5 DEF Discard, KeysInv, SameKeys
<1>6. CASE UNCHANGED vars
  BY <1>1, <1>6 DEF vars, KeysInv, SameKeys, Pending
<1>7. QED
  BY <1>2, <1>3, <1>4, <1>5, <1>6 DEF Next, DevShadow, DevSnapshot

-----------------------------------------------------------------------------
(* On PostgreSQL: foreign keys. *)

LEMMA ExecuteKeepsForeignKeys ==
  ASSUME Resolved, SInv, provider = "PostgreSQL", SoundForeignKeys(db), SoundForeignKeys(base),
         ForeignKeysUnderway, NEW s \in steps, Execute(s)
  PROVE  SoundForeignKeys(db)' /\ ForeignKeysUnderway'
<1>1. /\ s \in Diff(provider, from, schema) /\ s.op \in Ops
      /\ DOMAIN db = DOMAIN Empty /\ db' = After(s)
      /\ schema \in Schemas \cup {Empty} /\ s = Step(s.op, s.on, s.what, s.ref)
      /\ steps' = steps \ {s} /\ s \in migration
      /\ s.op = "DropTable" => s.on \notin Tables(schema)
      /\ ~ RefusedByPostgres(s)
  BY Executed DEF SInv, MigrationInv, Refuses
<1>2. PICK c : /\ s.what = {c} \/ s.op \notin ColumnOps \cup {"AddForeignKey", "DropForeignKey"}
               /\ s.op = "DropColumn" => <<s.on, c>> \notin Columns(schema)
  BY Executed
<1>3. UNCHANGED <<from, schema, migration, base>>
  BY DEF Execute
<1>4. ASSUME NEW fk
      PROVE  /\ s.op = "DropTable" => (fk \in db'.fks <=> fk \in db.fks /\ fk.table # s.on /\ fk.ref # s.on)
             /\ s.op = "DropColumn" => (fk \in db'.fks <=> fk \in db.fks /\ ~ (fk.table = s.on /\ fk.column = c))
             /\ s.op = "AddForeignKey" =>
                  (fk \in db'.fks <=>
                     fk \in db.fks \/ (fk \in schema.fks /\ fk.table = s.on /\ fk.column = c /\ fk.ref = s.ref))
             /\ s.op = "DropForeignKey" =>
                  (fk \in db'.fks <=> fk \in db.fks /\ ~ (fk.table = s.on /\ fk.column = c /\ fk.ref = s.ref))
             /\ s.op \notin {"DropTable", "DropColumn", "AddForeignKey", "DropForeignKey"}
                  => (fk \in db'.fks <=> fk \in db.fks)
  BY <1>1, <1>2, EffectOnForeignKeys
<1>5. ASSUME NEW fk
      PROVE  /\ s.op = "AddForeignKey" =>
                  (s = Adds(fk) <=> fk.table = s.on /\ fk.column = c /\ fk.ref = s.ref)
             /\ s.op = "DropForeignKey" =>
                  (s = DropsIt(fk) <=> fk.table = s.on /\ fk.column = c /\ fk.ref = s.ref)
  <2> DEFINE cs == {fk.column}
  <2>1. s.op \in {"AddForeignKey", "DropForeignKey"} => (s.what = cs <=> fk.column = c)
    BY <1>2
  <2>2. /\ Adds(fk) = Step("AddForeignKey", fk.table, cs, fk.ref)
        /\ DropsIt(fk) = Step("DropForeignKey", fk.table, cs, fk.ref)
    BY DEF Adds, DropsIt
  <2> HIDE DEF cs
  <2>3. s = Adds(fk) <=> s.op = "AddForeignKey" /\ s.on = fk.table /\ s.what = cs /\ s.ref = fk.ref
    BY <1>1, <2>2, SameStep
  <2>4. s = DropsIt(fk) <=> s.op = "DropForeignKey" /\ s.on = fk.table /\ s.what = cs /\ s.ref = fk.ref
    BY <1>1, <2>2, SameStep
  <2>5. QED
    BY <2>1, <2>3, <2>4
<1>6. ASSUME NEW fk \in schema.fks
      PROVE  fk \in db'.fks \/ Adds(fk) \in steps'
  <2>1. /\ fk.table \in Tables(schema) /\ fk.ref \in Tables(schema)
        /\ <<fk.table, fk.column>> \in Columns(schema)
    BY <1>1, SchemaFacts, ResolvedFacts
  <2>2. CASE fk \in db.fks
    <3>1. CASE s.op = "DropForeignKey" /\ fk.table = s.on /\ fk.column = c /\ fk.ref = s.ref
      <4>1. PICK g \in from.fks \ schema.fks : s.on = g.table /\ s.what = {g.column} /\ s.ref = g.ref
        <5>1. PICK g : /\ s.on = g.table /\ s.what = {g.column} /\ s.ref = g.ref
                       /\ g \in ForeignKeys(from) \ ForeignKeys(schema)
          BY <1>1, <3>1, ForeignKeyOf
        <5>2. ForeignKeys(schema) = schema.fks /\ ForeignKeys(from) \subseteq from.fks
          BY <1>1, SchemaFacts DEF ForeignKeys
        <5>3. QED
          BY <5>1, <5>2
      <4>2. g.column = c
        <5>1. g.column \in {c}
          BY <1>2, <3>1, <4>1
        <5>2. QED
          BY <5>1
      <4>3. fk \notin base.fks
        BY <3>1, <4>1, <4>2 DEF ForeignKeysUnderway, SoundForeignKeys
      <4>4. Adds(fk) \in migration \ steps
        BY <2>2, <4>3 DEF ForeignKeysUnderway
      <4>5. Precedes(s, Adds(fk), migration)
        BY <3>1, Fields, Order DEF Adds
      <4>6. QED
        BY <4>4, <4>5 DEF SInv, MigrationInv
    <3>2. CASE ~ (s.op = "DropForeignKey" /\ fk.table = s.on /\ fk.column = c /\ fk.ref = s.ref)
      BY <1>1, <1>2, <1>4, <2>1, <2>2, <3>2
    <3>3. QED
      BY <3>1, <3>2
  <2>3. CASE Adds(fk) \in steps
    <3>1. CASE s = Adds(fk)
      <4>1. s.op = "AddForeignKey"
        BY <3>1, Fields DEF Adds
      <4>2. QED
        BY <1>4, <1>5, <3>1, <4>1
    <3>2. QED
      BY <1>1, <2>3, <3>1
  <2>4. QED
    BY <2>2, <2>3 DEF ForeignKeysUnderway
<1>7. ASSUME NEW fk \in db'.fks
      PROVE  fk \in schema.fks \/ DropsIt(fk) \in steps' \/ fk \in base.fks \ from.fks
  <2>1. fk \in db.fks \/ fk \in schema.fks
    BY <1>4
  <2>2. CASE DropsIt(fk) \in steps
    <3>1. CASE s = DropsIt(fk)
      <4>1. s.op = "DropForeignKey"
        BY <3>1, Fields DEF DropsIt
      <4>2. QED
        BY <1>4, <1>5, <3>1, <4>1
    <3>2. QED
      BY <1>1, <2>2, <3>1
  <2>3. QED
    BY <2>1, <2>2 DEF ForeignKeysUnderway
<1>8. ASSUME NEW fk \in db'.fks
      PROVE  fk \in base.fks \/ Adds(fk) \in migration \ steps'
  <2>1. CASE fk \in db.fks
    BY <1>1, <2>1 DEF ForeignKeysUnderway
  <2>2. CASE fk \notin db.fks
    <3>1. s.op = "AddForeignKey" /\ fk.table = s.on /\ fk.column = c /\ fk.ref = s.ref
      BY <1>4, <2>2
    <3>2. s = Adds(fk)
      BY <1>5, <3>1
    <3>3. QED
      BY <1>1, <3>2
  <2>3. QED
    BY <2>1, <2>2
<1>9. SoundForeignKeys(db')
  <2>1. s.op = "AddForeignKey" =>
          /\ s.ref \in Tables(db) /\ s.what = {c}
          /\ \A f \in db.fks : ~ (f.table = s.on /\ s.what = {f.column} /\ f.ref = s.ref)
    BY <1>1, <1>2 DEF RefusedByPostgres
  <2>2. \A f \in db'.fks :
          \/ f \in db.fks
          \/ s.op = "AddForeignKey" /\ f \in schema.fks /\ f.table = s.on /\ f.column = c /\ f.ref = s.ref
    BY <1>4
  <2>3. ASSUME NEW f \in db'.fks
        PROVE  f.ref \in Tables(db')
    <3>1. f.ref \in Tables(db)
      BY <2>1, <2>2 DEF SoundForeignKeys
    <3>2. s.op = "DropTable" => f.ref # s.on
      BY <1>4
    <3>3. QED
      BY <1>1, <1>2, <3>1, <3>2, EffectOnTables
  <2>4. ASSUME NEW f \in db'.fks, NEW g \in db'.fks,
               f.table = g.table, f.column = g.column, f.ref = g.ref
        PROVE  f = g
    <3>1. CASE f \in db.fks /\ g \in db.fks
      BY <2>4, <3>1 DEF SoundForeignKeys
    <3>2. CASE ~ (f \in db.fks /\ g \in db.fks)
      <4>1. s.op = "AddForeignKey" /\ f.table = s.on /\ f.column = c /\ f.ref = s.ref
        BY <2>2, <2>4, <3>2
      <4>2. f \notin db.fks /\ g \notin db.fks
        BY <2>1, <2>4, <4>1
      <4>3. f \in schema.fks /\ g \in schema.fks
        BY <2>2, <4>2
      <4>4. QED
        BY <1>1, <2>4, <4>3, ResolvedFacts
    <3>3. QED
      BY <3>1, <3>2
  <2>5. QED
    BY <2>3, <2>4 DEF SoundForeignKeys
<1>10. SoundForeignKeys(db)'
  BY <1>9 DEF SoundForeignKeys
<1>11. QED
  BY <1>3, <1>6, <1>7, <1>8, <1>10 DEF ForeignKeysUnderway, Adds, DropsIt

LEMMA ForeignKeysNext == Resolved => (SInv /\ ForeignKeysInv /\ [Next]_vars => ForeignKeysInv')
<1> SUFFICES ASSUME Resolved, SInv, ForeignKeysInv, [Next]_vars, (provider = "PostgreSQL")'
             PROVE  ForeignKeysInv'
  BY DEF ForeignKeysInv
<1>1. provider' = provider /\ provider = "PostgreSQL"
  BY DEF Next, DevShadow, DevSnapshot, Dev, Execute, Refuse, Discard, vars
<1>2. ASSUME NEW target \in Schemas, NEW old \in Readings(provider, db) \cup {snapshot}, Dev(target, old)
      PROVE  ForeignKeysInv'
  <2> USE <1>2 DEF Dev
  <2>1. /\ SoundForeignKeys(db) /\ snapshot.fks \subseteq db.fks
        /\ snapshot \in Schemas \cup {Empty} /\ SameShape(db, snapshot)
    BY <1>1 DEF ForeignKeysInv, SInv, ControlInv, TablesInv
  <2>2. old.fks \subseteq db.fks /\ SameShape(db, old)
    BY <2>1, ReadingOf
  <2>3. ForeignKeys(old) = old.fks
    BY <2>1, <2>2 DEF ForeignKeys, SameShape, SoundForeignKeys
  <2>4. ForeignKeys(target) = target.fks
    BY SchemaFacts
  <2>5. \A fk \in target.fks : fk \in db.fks \/ Adds(fk)' \in steps'
    BY <2>2, <2>3, <2>4, DiffHasSteps DEF Adds
  <2>6. \A fk \in db.fks : fk \in target.fks \/ DropsIt(fk)' \in steps' \/ fk \in db.fks \ old.fks
    BY <2>3, <2>4, DiffHasSteps DEF DropsIt
  <2>7. ForeignKeysUnderway'
    <3>1. (ForeignKeys(from) = from.fks)'
      BY <2>3 DEF ForeignKeys
    <3>2. QED
      BY <2>2, <2>5, <2>6, <3>1 DEF ForeignKeysUnderway
  <2>8. steps' = {} => target.fks \subseteq db.fks /\ db.fks \ target.fks \subseteq db.fks \ old.fks
    BY <2>5, <2>6
  <2>9. SoundForeignKeys(db)' /\ SoundForeignKeys(base)'
    BY <2>1 DEF SoundForeignKeys
  <2>10. QED
    BY <2>1, <2>7, <2>8, <2>9 DEF ForeignKeysInv
<1>3. ASSUME NEW s \in steps, Execute(s)
      PROVE  ForeignKeysInv'
  <2> USE <1>3 DEF Execute
  <2>1. SoundForeignKeys(base) /\ snapshot.fks \subseteq base.fks
    BY <1>1 DEF ForeignKeysInv
  <2>2. SoundForeignKeys(db)' /\ ForeignKeysUnderway'
    BY <1>1, ExecuteKeepsForeignKeys DEF ForeignKeysInv
  <2>3. steps' = {} => (schema.fks \subseteq db.fks /\ db.fks \ schema.fks \subseteq base.fks \ from.fks)'
    BY <2>2 DEF ForeignKeysUnderway
  <2>4. SoundForeignKeys(base)'
    BY <2>1 DEF SoundForeignKeys
  <2>5. QED
    BY <2>1, <2>2, <2>3, <2>4 DEF ForeignKeysInv
<1>4. CASE \E s \in steps : Refuse(s)
  BY <1>1, <1>4 DEF Refuse, ForeignKeysInv, SoundForeignKeys
<1>5. CASE Discard
  BY <1>1, <1>5 DEF Discard, ForeignKeysInv, SoundForeignKeys
<1>6. CASE UNCHANGED vars
  BY <1>1, <1>6 DEF vars, ForeignKeysInv, ForeignKeysUnderway, SoundForeignKeys, Adds, DropsIt
<1>7. QED
  BY <1>2, <1>3, <1>4, <1>5, <1>6 DEF Next, DevShadow, DevSnapshot

-----------------------------------------------------------------------------
(* Theorems about what is refused and what is delivered. *)

THEOREM SpecUniquesInv == ASSUME NoneSkipped PROVE Spec => []UniquesInv
<1>1. Init => UniquesInv
  BY DEF Init, UniquesInv, EmptyDatabase, Empty
<1>2. Spec => []SInv
  BY SpecSInv
<1>3. QED
  BY <1>1, <1>2, UniquesNext, PTL DEF Spec

THEOREM SpecIndexesInv == ASSUME NoneSkipped PROVE Spec => []IndexesInv
<1>1. Init => IndexesInv
  BY DEF Init, IndexesInv, Indexed, EmptyDatabase, Empty
<1>2. Spec => []SInv
  BY SpecSInv
<1>3. QED
  BY <1>1, <1>2, IndexesNext, PTL DEF Spec

THEOREM SpecInlineInv == ASSUME Resolved, NoneSkipped PROVE Spec => []InlineInv
<1>1. Init => InlineInv
  BY DEF Init, InlineInv
<1>2. SInv /\ InlineInv /\ [Next]_vars => InlineInv'
  BY InlineNext
<1>3. Spec => []SInv
  BY SpecSInv
<1>4. QED
  BY <1>1, <1>2, <1>3, PTL DEF Spec

THEOREM SpecKeysInv == ASSUME NoneSkipped PROVE Spec => []KeysInv
<1>1. Init => KeysInv
  BY DEF Init, KeysInv, SameKeys, EmptyDatabase, Empty, Tables
<1>2. Spec => []SInv
  BY SpecSInv
<1>3. QED
  BY <1>1, <1>2, KeysNext, PTL DEF Spec

THEOREM SpecForeignKeysInv == ASSUME Resolved, NoneSkipped PROVE Spec => []ForeignKeysInv
<1>1. Init => ForeignKeysInv
  BY DEF Init, ForeignKeysInv, SoundForeignKeys, EmptyDatabase, Empty
<1>2. SInv /\ ForeignKeysInv /\ [Next]_vars => ForeignKeysInv'
  BY ForeignKeysNext
<1>3. Spec => []SInv
  BY SpecSInv
<1>4. QED
  BY <1>1, <1>2, <1>3, PTL DEF Spec

\* RefusalsHaveACause on SQLite: what is refused was there unseen, or is a
\* DROP COLUMN or the addition of a unique column (sort_steps, sqlite.rs).
THEOREM SqliteRefusesForACause == ASSUME NoneSkipped PROVE Spec => [](provider = "SQLite" => RefusalsHaveACause)
<1>1. SInv /\ provider = "SQLite" => RefusalsHaveACause
  <2> SUFFICES ASSUME SInv, provider = "SQLite", pc = "apply", NEW s \in steps, Ready(s), Refuses(s)
               PROVE  Present(s) \/ Unsupported(s)
    BY DEF RefusalsHaveACause
  <2>1. InPlace(s) /\ s \in Diff(provider, from, schema) /\ RefusedBySqlite(s)
    BY ReadyIsInPlace DEF SInv, MigrationInv, Refuses
  <2>2. s.op \in {"CreateTable", "AddColumn", "DropColumn", "CreateIndex", "AddUnique"}
    BY <2>1 DEF RefusedBySqlite
  <2>3. CASE s.op = "CreateTable"
    BY <2>1, <2>3 DEF RefusedBySqlite, InPlace
  <2>4. CASE s.op = "AddColumn"
    <3>1. StepColumns(s) # {}
      <4>1. PICK tc : s.on = tc[1] /\ s.what = {tc[2]}
        BY <2>1, <2>4, ColumnOf DEF ColumnOps
      <4>2. <<s.on, tc[2]>> \in StepColumns(s)
        BY <4>1 DEF StepColumns
      <4>3. QED
        BY <4>2
    <3>2. \E tc \in StepColumns(s) : schema.columns[tc].unique
      BY <2>1, <2>4, <3>1 DEF RefusedBySqlite, InPlace, ColumnOps
    <3>3. QED
      BY <2>4, <3>2 DEF Unsupported
  <2>5. CASE s.op = "DropColumn"
    BY <2>5 DEF Unsupported
  <2>6. CASE s.op \in {"CreateIndex", "AddUnique"}
    BY <2>1, <2>6 DEF RefusedBySqlite, InPlace, Missing, Present
  <2>7. QED
    BY <2>2, <2>3, <2>4, <2>5, <2>6
<1>2. Spec => []SInv
  BY SpecSInv
<1>3. QED
  BY <1>1, <1>2, PTL

\* Delivers on SQLite: an applied migration leaves the tables, the columns,
\* the constraints and the indexes of the schema, and in the tables it created
\* a foreign key on each column that has one.
THEOREM SqliteDelivers == ASSUME Resolved, NoneSkipped PROVE Spec => [](provider = "SQLite" => Delivers)
<1>1. SInv /\ UniquesInv /\ IndexesInv /\ InlineInv => (provider = "SQLite" => Delivers)
  <2> SUFFICES ASSUME SInv, UniquesInv, IndexesInv, InlineInv, provider = "SQLite", pc = "applied"
               PROVE  Delivers
    BY DEF Delivers
  <2>1. SameShape(db, schema) /\ schema.uniques \subseteq db.uniques
    BY DEF SInv, TablesInv, UniquesInv
  <2>2. schema.indexes \subseteq db.indexes
    BY DEF IndexesInv, Indexed
  <2>3. steps = {}
    BY DEF SInv, ControlInv
  <2>4. \A fk \in schema.fks : Creates(fk.table, migration) =>
          \E f \in db.fks \cap schema.fks : SameColumn(f, fk)
    BY <2>3 DEF InlineInv, Pending
  <2>5. QED
    BY <2>1, <2>2, <2>4 DEF Delivers, SameShape
<1>2. Spec => []SInv /\ []UniquesInv /\ []IndexesInv /\ []InlineInv
  BY SpecSInv, SpecUniquesInv, SpecIndexesInv, SpecInlineInv
<1>3. QED
  BY <1>1, <1>2, PTL

\* What SQLite reads back of a column is rendered as it was, but for the 0 and
\* the 1 that are taken for FALSE and TRUE.
LEMMA SqliteReadsBack ==
  ASSUME NEW s \in Schemas, NEW tc \in Columns(s), NEW d, NEW U, DOMAIN d.enums = {}, tc \in Columns(d),
         d.columns[tc] = Rendered("SQLite", s.columns[tc], s.enums), s.columns[tc].default \notin {"0", "1"},
         NEW old, old.columns = ReadColumns("SQLite", d, U), tc \in Columns(old)
  PROVE  ~ Altered("SQLite", old, s, tc)
<1> DEFINE def == s.columns[tc]
           got == d.columns[tc]
           back == old.columns[tc]
<1>1. /\ def.type.kind = "scalar" => def.type.of \in {"String", "Int", "Boolean"}
      /\ def.default # "empty"
  BY SchemaAssumption DEF WellFormed
<1>2. /\ back.type = ReadType(d, got.type) /\ back.optional = got.optional
      /\ back.default = ParseSqliteDefault(got.default)
  BY DEF ReadColumns, Columns
<1>3. /\ got.type = SqlType("SQLite", def.type, s.enums) /\ got.optional = def.optional
      /\ got.default = IF DefaultSql("SQLite", def.default) = "empty" THEN "none"
                       ELSE DefaultSql("SQLite", def.default)
  BY DEF Rendered
<1> HIDE DEF def, got, back
<1>4. SqlType("SQLite", back.type, s.enums) = got.type
  <2>1. got.type \in {"TEXT", "INTEGER"}
    BY <1>1, <1>3 DEF SqlType, ScalarSql
  <2>2. back.type.kind = "scalar" /\ back.type.of = IF got.type = "TEXT" THEN "String" ELSE "Int"
    BY <1>2, <2>1 DEF ReadType, Labelled
  <2>3. QED
    BY <2>1, <2>2 DEF SqlType, ScalarSql
<1>5. DefaultSql("SQLite", back.default) = DefaultSql("SQLite", def.default)
  <2>1. got.default = DefaultSql("SQLite", def.default)
    BY <1>1, <1>3 DEF DefaultSql
  <2>2. got.default \notin {"autoincrement", "uuid()", "0", "1"}
    BY <2>1 DEF DefaultSql, def
  <2>3. QED
    BY <1>2, <2>1, <2>2 DEF DefaultSql, ParseSqliteDefault
<1>6. QED
  BY <1>2, <1>3, <1>4, <1>5 DEF Altered, back, def

\* Settles on SQLite: what the next diff with the shadow database finds is
\* what introspection does not read back, or what was a comment
\* (introspect_sqlite, diff_schemas).
THEOREM SqliteSettles == ASSUME Resolved, NoneSkipped PROVE Spec => [](provider = "SQLite" => Settles)
<1>1. SInv /\ IndexesInv => (provider = "SQLite" => Settles)
  <2> SUFFICES ASSUME SInv, IndexesInv, provider = "SQLite", pc = "applied",
                      NEW old \in Readings(provider, db), NEW s \in Diff("SQLite", old, schema)
               PROVE  Unreadable(s) \/ Outstanding(s)
    BY DEF Settles
  <2>1. /\ SameShape(db, old) /\ old.uniques = {} /\ old.indexes = db.indexes /\ old.enums = {}
        /\ old.fks \in FirstOfEach(db.fks) /\ old.fks \subseteq db.fks
        /\ \A t \in Tables(db) : old.keys[t] = KeyByLayout(db, t)
    BY ReadingOf
  <2>2. PICK U : old.columns = ReadColumns("SQLite", db, U)
    BY ReadingOf
  <2>3. /\ SameShape(db, schema) /\ schema.indexes \subseteq db.indexes
        /\ schema \in Schemas \cup {Empty} /\ IsDatabase(db)
    BY DEF SInv, TablesInv, ControlInv, DatabaseInv, IndexesInv, Indexed
  <2>4. Tables(old) = Tables(schema) /\ Columns(old) = Columns(schema) /\ Columns(schema) = Columns(db)
    BY <2>1, <2>3 DEF SameShape
  <2>5. IsShape(schema)
    BY <2>3, SchemaIsShape
  <2>6. s.op \in Ops /\ s = Step(s.op, s.on, s.what, s.ref)
    BY StepIsRecord
  <2>7. CASE s.op \in EnumOps
    <3>1. s.op \notin {"AlterEnumName", "AddEnumVariant"}
      BY <2>1, StepsOfDiff DEF RenamesEnum, AddsVariant
    <3>2. QED
      BY <2>7, <3>1 DEF Unreadable, EnumOps
  <2>8. CASE s.op \in {"CreateTable", "DropTable"}
    BY <2>4, <2>8, StepsOfDiff DEF CreatesTable, DropsTable
  <2>9. CASE s.op \in {"AddColumn", "DropColumn"}
    BY <2>4, <2>9, StepsOfDiff DEF AddsColumn, DropsColumn
  <2>10. CASE s.op = "AlterColumn"
    <3>1. PICK tc \in Columns(schema) : /\ s.on = tc[1] /\ s.what = {tc[2]}
                                        /\ Altered("SQLite", old, schema, tc)
      BY <2>10, ColumnOf DEF ColumnOps
    <3>2. tc = <<tc[1], tc[2]>>
      BY <2>5 DEF IsShape
    <3>3. (CHOOSE c \in s.what : TRUE) = tc[2] /\ <<s.on, tc[2]>> = tc /\ tc \in StepColumns(s)
      BY <3>1, <3>2 DEF StepColumns
    <3>4. CASE schema.columns[tc].default \in {"0", "1"}
      BY <2>10, <3>3, <3>4 DEF Unreadable
    <3>5. CASE db.columns[tc] # Rendered("SQLite", schema.columns[tc], schema.enums)
      BY <2>10, <3>3, <3>5 DEF Outstanding
    <3>6. CASE /\ schema.columns[tc].default \notin {"0", "1"}
               /\ db.columns[tc] = Rendered("SQLite", schema.columns[tc], schema.enums)
      <4>1. schema \in Schemas
        BY <2>3 DEF Empty, Columns
      <4>2. DOMAIN db.enums = {} /\ tc \in Columns(db)
        BY <2>3, <2>4 DEF IsDatabase
      <4>3. QED
        BY <2>2, <2>4, <3>1, <3>6, <4>1, <4>2, SqliteReadsBack
    <3>7. QED
      BY <3>4, <3>5, <3>6
  <2>11. CASE s.op = "AlterPrimaryKey"
    <3>1. PICK t \in Tables(old) : s = Step("AlterPrimaryKey", t, {}, "none") /\ old.keys[t] # schema.keys[t]
      BY <2>11, StepsOfDiff DEF Rekeys
    <3>2. KeyByLayout(db, s.on) # schema.keys[s.on]
      BY <2>1, <2>4, <3>1, Fields DEF SameShape
    <3>3. CASE KeyByLayout(db, s.on) # db.keys[s.on]
      BY <2>11, <3>3 DEF Unreadable
    <3>4. CASE db.keys[s.on] # schema.keys[s.on]
      BY <2>11, <3>4 DEF Outstanding
    <3>5. QED
      BY <3>2, <3>3, <3>4
  <2>12. CASE s.op \in {"AddForeignKey", "DropForeignKey"}
    <3>1. PICK fk : /\ s.on = fk.table /\ s.what = {fk.column} /\ s.ref = fk.ref
                    /\ s.op = "AddForeignKey" => fk \in ForeignKeys(schema) \ ForeignKeys(old)
                    /\ s.op = "DropForeignKey" => fk \in ForeignKeys(old) \ ForeignKeys(schema)
      BY <2>12, ForeignKeyOf
    <3>2. (CHOOSE c \in s.what : TRUE) = fk.column
      BY <3>1
    <3>3. ForeignKeys(schema) = schema.fks /\ ForeignKeys(old) = {f \in old.fks : f.ref \in Tables(schema)}
      BY <2>3, <2>4, SchemaFacts DEF ForeignKeys
    <3>4. CASE s.op = "AddForeignKey"
      <4>1. fk \in schema.fks /\ fk \notin old.fks
        BY <2>3, <3>1, <3>3, <3>4, SchemaFacts
      <4>2. CASE fk \in db.fks
        <5>1. PICK g \in old.fks : SameColumn(fk, g)
          BY <2>1, <4>2 DEF FirstOfEach
        <5>2. g \in db.fks /\ fk # g
          BY <2>1, <4>1, <5>1
        <5>3. s = Step(s.op, fk.table, {fk.column}, fk.ref)
          BY <2>6, <3>1
        <5>4. QED
          BY <3>4, <4>2, <5>1, <5>2, <5>3 DEF Unreadable
      <4>3. CASE fk \notin db.fks
        <5>1. \A f \in db.fks :
                f.table = s.on /\ f.column = fk.column /\ f.ref = s.ref => f \notin schema.fks
          BY <2>3, <3>1, <4>1, <4>3, ResolvedFacts
        <5>2. QED
          BY <3>2, <3>4, <5>1 DEF Outstanding
      <4>4. QED
        BY <4>2, <4>3
    <3>5. CASE s.op = "DropForeignKey"
      <4>1. fk \in db.fks
        BY <2>1, <3>1, <3>3, <3>5
      <4>2. fk \in {f \in db.fks : f.table = s.on /\ f.column = fk.column /\ f.ref = s.ref}
        BY <3>1, <4>1
      <4>3. QED
        BY <3>2, <3>5, <4>2 DEF Outstanding
    <3>6. QED
      BY <2>12, <3>4, <3>5
  <2>13. CASE s.op = "CreateIndex"
    BY <2>1, <2>3, <2>13, StepsOfDiff DEF CreatesIndex
  <2>14. CASE s.op = "AddUnique"
    BY <2>14 DEF Unreadable
  <2>15. CASE s.op = "DropUnique"
    BY <2>1, <2>15, StepsOfDiff DEF DropsUnique
  <2>16. QED
    BY <2>6, <2>7, <2>8, <2>9, <2>10, <2>11, <2>12, <2>13, <2>14, <2>15 DEF Ops, ColumnOps
<1>2. Spec => []SInv /\ []IndexesInv
  BY SpecSInv, SpecIndexesInv
<1>3. QED
  BY <1>1, <1>2, PTL

-----------------------------------------------------------------------------
(***************************************************************************)
(* On PostgreSQL an enum is a type of its own that steps create, rename,   *)
(* extend and drop before the columns that have it change.                 *)
(*                                                                         *)
(* What makes this hard is that the diff matches enums by the name in the  *)
(* schema, the database knows them by another one, and the same type may   *)
(* have been given up by one enum and taken by another.  EnumsUnderway     *)
(* follows which enum is which type, step by step.                         *)
(***************************************************************************)

(* The inductive invariant. *)

Renaming(o, e) == Step("AlterEnumName", o.db, {}, e.db) \in steps

\* The enum of name n is the type x at present.
Holds(n, x) ==
  \/ \E o \in from.enums :
       /\ o.name = n /\ o.db = x
       /\ IF Named(n, schema.enums) = {} THEN Pending("DropEnum", x, {})
          ELSE \E e \in Named(n, schema.enums) : e.db = x \/ Renaming(o, e)
  \/ \E e \in schema.enums :
       /\ e.name = n /\ e.db = x
       /\ IF Named(n, from.enums) = {} THEN ~ Pending("CreateEnum", x, {})
          ELSE \A o \in Named(n, from.enums) : ~ Renaming(o, e)

ToldApart(enums) ==
  /\ \A e, f \in enums : e.name = f.name \/ e.db = f.db => e = f
  /\ \A e \in enums : e.db \notin Scalars

\* Every type is that of one enum, no two enums share one, and the labels of
\* an enum are there or on their way.
EnumsUnderway ==
  /\ ToldApart(from.enums)
  /\ \A n, x : Holds(n, x) => x \in DOMAIN db.enums
  /\ \A x \in DOMAIN db.enums : \E n : Holds(n, x)
  /\ \A m, n, x : Holds(m, x) /\ Holds(n, x) => m = n
  /\ \A e \in schema.enums : \A x : Holds(e.name, x) =>
       \A v \in e.variants : v.label \in db.enums[x] \/ Pending("AddEnumVariant", e.db, {v.label})

TypeIs(type, x) ==
  IF type.kind = "scalar" THEN x = ScalarSql("PostgreSQL", type.of) /\ x \in Scalars
  ELSE Holds(type.of, x)

Defaulted(default) ==
  LET d == DefaultSql("PostgreSQL", default) IN IF d = "empty" THEN "none" ELSE d

Alters(tc) == tc \in Columns(schema) /\ Altered("PostgreSQL", from, schema, tc)

\* A column that no step has made or changed yet.
AsBefore(tc) ==
  tc \in Columns(from) /\ (Alters(tc) => Pending("AlterColumn", tc[1], {tc[2]}))

Like(c, d) == c.type = d.type /\ c.optional = d.optional /\ c.default = d.default

Wanted(s, tc) == Rendered("PostgreSQL", s.columns[tc], s.enums)

\* Such a column is what the diff took it for, but that its enum may have
\* been renamed; the others are what the schema wants.
ColumnsUnderway ==
  \A tc \in Columns(db) :
    IF AsBefore(tc)
    THEN /\ TypeIs(from.columns[tc].type, db.columns[tc].type)
         /\ db.columns[tc].optional = from.columns[tc].optional
         /\ db.columns[tc].default = Defaulted(from.columns[tc].default)
    ELSE Like(db.columns[tc], Wanted(schema, tc))

\* Between migrations, types and columns are those of the snapshot.
Conforms(d, s) ==
  /\ DOMAIN d.enums = {e.db : e \in s.enums}
  /\ \A e \in s.enums : \A v \in e.variants : v.label \in d.enums[e.db]
  /\ \A tc \in Columns(s) \cap Columns(d) : Like(d.columns[tc], Wanted(s, tc))

TypesInv ==
  provider = "PostgreSQL" =>
    /\ pc \in {"idle", "applied"} => Conforms(db, snapshot)
    /\ pc = "applied" => Conforms(db, schema)
    /\ pc \in {"apply", "refused"} => Conforms(base, snapshot)
    /\ pc = "apply" => EnumsUnderway /\ ColumnsUnderway

-----------------------------------------------------------------------------
(* Enums. *)

\* What differs between enums, and between columns, has its step.
LEMMA DiffHasTypeSteps ==
  ASSUME NEW p, NEW old, NEW new
  PROVE  /\ \A e \in new.enums :
              Named(e.name, old.enums) = {} => Step("CreateEnum", e.db, {}, "none") \in Diff(p, old, new)
         /\ \A o \in old.enums :
              Named(o.name, new.enums) = {} => Step("DropEnum", o.db, {}, "none") \in Diff(p, old, new)
         /\ \A o \in old.enums, e \in new.enums : o.name = e.name =>
              /\ o.db # e.db => Step("AlterEnumName", o.db, {}, e.db) \in Diff(p, old, new)
              /\ \A v \in e.variants \ o.variants :
                   Step("AddEnumVariant", e.db, {v.label}, "none") \in Diff(p, old, new)
         /\ \A tc \in Columns(old) \cap Columns(new) :
              tc[1] \in Tables(old) \cap Tables(new) /\ Altered(p, old, new, tc)
                => Step("AlterColumn", tc[1], {tc[2]}, "none") \in Diff(p, old, new)
<1> DEFINE both == {b \in old.enums \X new.enums : b[1].name = b[2].name}
<1>1. ASSUME NEW e \in new.enums, Named(e.name, old.enums) = {}
      PROVE  Step("CreateEnum", e.db, {}, "none") \in DiffEnums(old, new)
  BY <1>1 DEF DiffEnums
<1>2. ASSUME NEW o \in old.enums, Named(o.name, new.enums) = {}
      PROVE  Step("DropEnum", o.db, {}, "none") \in DiffEnums(old, new)
  BY <1>2 DEF DiffEnums
<1>3. ASSUME NEW o \in old.enums, NEW e \in new.enums, o.name = e.name
      PROVE  /\ o.db # e.db => Step("AlterEnumName", o.db, {}, e.db) \in DiffEnums(old, new)
             /\ \A v \in e.variants \ o.variants :
                  Step("AddEnumVariant", e.db, {v.label}, "none") \in DiffEnums(old, new)
  <2> DEFINE b == <<o, e>>
  <2>1. b \in both /\ b[1] = o /\ b[2] = e
    BY <1>3
  <2>2. DiffEnums(old, new) =
          {Step("CreateEnum", n.db, {}, "none") : n \in {n \in new.enums : Named(n.name, old.enums) = {}}}
          \cup {Step("DropEnum", n.db, {}, "none") : n \in {n \in old.enums : Named(n.name, new.enums) = {}}}
          \cup {Step("AlterEnumName", d[1].db, {}, d[2].db) : d \in {d \in both : d[1].db # d[2].db}}
          \cup UNION {{Step("AddEnumVariant", d[2].db, {v.label}, "none") : v \in d[2].variants \ d[1].variants}
                        : d \in both}
    BY DEF DiffEnums
  <2> HIDE DEF both, b
  <2>3. o.db # e.db => Step("AlterEnumName", b[1].db, {}, b[2].db)
                         \in {Step("AlterEnumName", d[1].db, {}, d[2].db) : d \in {d \in both : d[1].db # d[2].db}}
    BY <2>1
  <2>4. ASSUME NEW v \in e.variants \ o.variants
        PROVE  Step("AddEnumVariant", e.db, {v.label}, "none") \in DiffEnums(old, new)
    <3> DEFINE of(d) == {Step("AddEnumVariant", d[2].db, {w.label}, "none") : w \in d[2].variants \ d[1].variants}
    <3>1. Step("AddEnumVariant", b[2].db, {v.label}, "none") \in of(b)
      BY <2>1, <2>4
    <3> HIDE DEF of
    <3>2. Step("AddEnumVariant", b[2].db, {v.label}, "none") \in UNION {of(d) : d \in both}
      BY <2>1, <3>1
    <3>3. QED
      BY <2>1, <2>2, <3>2 DEF of
  <2>5. QED
    BY <2>1, <2>2, <2>3, <2>4
<1>4. ASSUME NEW tc \in Columns(old) \cap Columns(new), tc[1] \in Tables(old) \cap Tables(new),
             Altered(p, old, new, tc)
      PROVE  Step("AlterColumn", tc[1], {tc[2]}, "none") \in DiffColumns(p, old, new)
  BY <1>4 DEF DiffColumns
<1>5. DiffColumns(p, old, new) \subseteq DiffModels(p, old, new)
  BY DEF DiffModels
<1>6. QED
  BY <1>1, <1>2, <1>3, <1>4, <1>5 DEF Diff

\* Without a step on an enum left, enums are what the schema says.
LEMMA HoldsAtTheEnd ==
  (\A s \in steps : s.op \notin EnumOps) =>
    \A n, x : Holds(n, x) <=> \E e \in schema.enums : e.name = n /\ e.db = x
<1> SUFFICES ASSUME \A s \in steps : s.op \notin EnumOps, NEW n, NEW x
             PROVE  Holds(n, x) <=> \E e \in schema.enums : e.name = n /\ e.db = x
  OBVIOUS
<1>1. \A op \in EnumOps : \A on, what, ref : Step(op, on, what, ref) \notin steps
  BY Fields
<1>2. \A on, what : ~ Pending("DropEnum", on, what) /\ ~ Pending("CreateEnum", on, what)
  BY <1>1 DEF Pending, EnumOps
<1>3. \A o, e : ~ Renaming(o, e)
  BY <1>1 DEF Renaming, EnumOps
<1>4. QED
  BY <1>2, <1>3 DEF Holds, Named

LEMMA HoldsAfter ==
  ASSUME MigrationInv, ToldApart(from.enums), ToldApart(schema.enums),
         NEW s \in steps, steps' = steps \ {s}, UNCHANGED <<from, schema>>, NEW n, NEW x
  PROVE  /\ \A e \in schema.enums :
              s = Step("CreateEnum", e.db, {}, "none") /\ Named(e.name, from.enums) = {} =>
                (Holds(n, x)' <=> Holds(n, x) \/ (n = e.name /\ x = e.db))
         /\ \A o \in from.enums :
              s = Step("DropEnum", o.db, {}, "none") /\ Named(o.name, schema.enums) = {} =>
                (Holds(n, x)' <=> Holds(n, x) /\ ~ (n = o.name /\ x = o.db))
         /\ \A o \in from.enums, e \in schema.enums :
              s = Step("AlterEnumName", o.db, {}, e.db) /\ o.name = e.name /\ o.db # e.db =>
                (Holds(n, x)' <=> \/ Holds(n, x) /\ ~ (n = o.name /\ x = o.db)
                                  \/ n = o.name /\ x = e.db)
         /\ s.op \notin {"CreateEnum", "DropEnum", "AlterEnumName"} => (Holds(n, x)' <=> Holds(n, x))
<1>1. \A op, t, cs : Pending(op, t, cs)' <=>
        Pending(op, t, cs) /\ ~ (s.op = op /\ s.on = t /\ s.what = cs /\ s.ref = "none")
  BY PendingAfter
<1>2. ASSUME NEW o, NEW e
      PROVE  Renaming(o, e)' <=>
               Renaming(o, e) /\ ~ (s.op = "AlterEnumName" /\ s.on = o.db /\ s.what = {} /\ s.ref = e.db)
  <2>1. s \in Diff(provider, from, schema)
    BY PendingAfter
  <2> DEFINE cs == {}
  <2> HIDE DEF cs
  <2>2. s = Step("AlterEnumName", o.db, cs, e.db) <=>
          s.op = "AlterEnumName" /\ s.on = o.db /\ s.what = cs /\ s.ref = e.db
    BY <2>1, SameStep
  <2>3. QED
    BY <2>2 DEF Renaming, cs
<1>3. ASSUME NEW e \in schema.enums, s = Step("CreateEnum", e.db, {}, "none"), Named(e.name, from.enums) = {}
      PROVE  Holds(n, x)' <=> Holds(n, x) \/ (n = e.name /\ x = e.db)
  <2>1. s.op = "CreateEnum" /\ s.on = e.db /\ s.what = {} /\ s.ref = "none"
    BY <1>3, Fields
  <2>2. \A f \in schema.enums : f.db = e.db => f = e
    BY DEF ToldApart
  <2>3. QED
    BY <1>1, <1>2, <1>3, <2>1, <2>2 DEF Holds
<1>4. ASSUME NEW o \in from.enums, s = Step("DropEnum", o.db, {}, "none"), Named(o.name, schema.enums) = {}
      PROVE  Holds(n, x)' <=> Holds(n, x) /\ ~ (n = o.name /\ x = o.db)
  <2>1. s.op = "DropEnum" /\ s.on = o.db /\ s.what = {} /\ s.ref = "none"
    BY <1>4, Fields
  <2>2. \A f \in from.enums : f.db = o.db => f = o
    BY DEF ToldApart
  <2>3. \A e \in schema.enums : e.name # o.name
    BY <1>4 DEF Named
  <2>4. QED
    BY <1>1, <1>2, <1>4, <2>1, <2>2, <2>3 DEF Holds
<1>5. ASSUME NEW o \in from.enums, NEW e \in schema.enums,
             s = Step("AlterEnumName", o.db, {}, e.db), o.name = e.name, o.db # e.db
      PROVE  Holds(n, x)' <=> \/ Holds(n, x) /\ ~ (n = o.name /\ x = o.db)
                              \/ n = o.name /\ x = e.db
  <2>1. s.op = "AlterEnumName" /\ s.on = o.db /\ s.what = {} /\ s.ref = e.db
    BY <1>5, Fields
  <2>2. /\ \A f \in from.enums : f.db = o.db \/ f.name = o.name => f = o
        /\ \A f \in schema.enums : f.db = e.db \/ f.name = e.name => f = e
    BY DEF ToldApart
  <2>3. CASE n = o.name
    BY <1>1, <1>2, <1>5, <2>1, <2>2, <2>3 DEF Holds, Named
  <2>4. CASE n # o.name
    BY <1>1, <1>2, <1>5, <2>1, <2>2, <2>4 DEF Holds, Named
  <2>5. QED
    BY <2>3, <2>4
<1>6. ASSUME s.op \notin {"CreateEnum", "DropEnum", "AlterEnumName"}
      PROVE  Holds(n, x)' <=> Holds(n, x)
  BY <1>1, <1>2, <1>6 DEF Holds
<1>7. QED
  BY <1>3, <1>4, <1>5, <1>6

-----------------------------------------------------------------------------
(* What a statement does to labels and to the definitions of columns. *)

LEMMA EffectOnLabels ==
  ASSUME provider = "PostgreSQL", NEW s, s.op \in Ops, DOMAIN db = DOMAIN Empty, db' = After(s), ~ Refuses(s),
         NEW x \in DOMAIN db'.enums
  PROVE  /\ s.op = "CreateEnum" =>
              /\ s.on \notin DOMAIN db.enums
              /\ db'.enums[x] = IF x = s.on THEN Labels(s) ELSE db.enums[x]
         /\ s.op = "AlterEnumName" =>
              /\ s.on \in DOMAIN db.enums /\ s.ref \notin DOMAIN db.enums
              /\ db'.enums[x] = IF x = s.ref THEN db.enums[s.on] ELSE db.enums[x]
         /\ s.op = "AddEnumVariant" =>
              db'.enums[x] = IF x = s.on THEN db.enums[x] \cup s.what ELSE db.enums[x]
         /\ s.op \notin {"CreateEnum", "AlterEnumName", "AddEnumVariant"} => db'.enums[x] = db.enums[x]
<1> USE DEF Empty
<1>1. ~ IsComment(s) /\ ~ RefusedByPostgres(s)
  BY DEF IsComment, Refuses
<1>2. CASE s.op = "CreateEnum"
  <2>1. db'.enums = With(db.enums, s.on, Labels(s))
    BY <1>1, <1>2 DEF After
  <2>2. s.on \notin DOMAIN db.enums
    BY <1>1, <1>2 DEF RefusedByPostgres
  <2>3. QED
    BY <1>2, <2>1, <2>2 DEF With, Joined
<1>3. CASE s.op = "DropEnum"
  <2>1. db'.enums = Without(db.enums, {s.on})
    BY <1>1, <1>3 DEF After
  <2>2. QED
    BY <1>3, <2>1 DEF Without, Restrict
<1>4. CASE s.op = "AlterEnumName"
  <2>1. db'.enums = With(Without(db.enums, {s.on}), s.ref, db.enums[s.on])
    BY <1>1, <1>4 DEF After, RenameEnum
  <2>2. s.on \in DOMAIN db.enums /\ s.ref \notin DOMAIN db.enums
    BY <1>1, <1>4 DEF RefusedByPostgres
  <2>3. QED
    BY <1>4, <2>1, <2>2 DEF With, Joined, Without, Restrict
<1>5. CASE s.op = "AddEnumVariant"
  <2>1. db'.enums = [db.enums EXCEPT ![s.on] = @ \cup s.what]
    BY <1>1, <1>5 DEF After
  <2>2. QED
    BY <1>5, <2>1
<1>6. CASE s.op \notin EnumOps
  <2>1. db'.enums = db.enums
    BY <1>6, EffectOnEnums
  <2>2. QED
    BY <1>6, <2>1 DEF EnumOps
<1>7. QED
  BY <1>2, <1>3, <1>4, <1>5, <1>6 DEF EnumOps

LEMMA EffectOnColumns ==
  ASSUME provider = "PostgreSQL", NEW s, s.op \in Ops, IsDatabase(db), db' = After(s),
         NEW c, s.what = {c} \/ s.op \notin ColumnOps, NEW tc \in Columns(db'),
         s.op = "AddColumn" => <<s.on, c>> \in Columns(schema),
         s.op = "AlterColumn" => <<s.on, c>> \in Columns(schema) \cap Columns(db)
  PROVE  /\ s.op \in {"CreateTable", "AddColumn"} =>
              \/ tc \in Columns(db) /\ db'.columns[tc] = db.columns[tc]
              \/ /\ tc \in Columns(schema) /\ db'.columns[tc] = Wanted(schema, tc)
                 /\ IF s.op = "CreateTable" THEN tc[1] = s.on ELSE tc = <<s.on, c>>
         /\ s.op = "AlterColumn" /\ tc # <<s.on, c>> => tc \in Columns(db) /\ db'.columns[tc] = db.columns[tc]
         /\ s.op = "AlterColumn" /\ tc = <<s.on, c>> =>
              /\ tc \in Columns(db)
              /\ db'.columns[tc].type =
                   IF SqlType("PostgreSQL", from.columns[tc].type, schema.enums) # Wanted(schema, tc).type
                   THEN Wanted(schema, tc).type ELSE db.columns[tc].type
              /\ db'.columns[tc].optional =
                   IF from.columns[tc].optional # schema.columns[tc].optional
                   THEN Wanted(schema, tc).optional ELSE db.columns[tc].optional
              /\ db'.columns[tc].default =
                   IF DefaultSql("PostgreSQL", from.columns[tc].default)
                        # DefaultSql("PostgreSQL", schema.columns[tc].default)
                   THEN Wanted(schema, tc).default ELSE db.columns[tc].default
         /\ s.op = "AlterEnumName" =>
              /\ tc \in Columns(db)
              /\ db'.columns[tc].type = IF db.columns[tc].type = s.on THEN s.ref ELSE db.columns[tc].type
              /\ db'.columns[tc].optional = db.columns[tc].optional
              /\ db'.columns[tc].default = db.columns[tc].default
         /\ s.op \notin {"CreateTable", "AddColumn", "AlterColumn", "AlterEnumName"} =>
              tc \in Columns(db) /\ db'.columns[tc] = db.columns[tc]
<1> DEFINE Fields4 == {"type", "optional", "default", "unique"}
           R(d) == Wanted(schema, d)
           Kept == tc \in Columns(db) /\ db'.columns[tc] = db.columns[tc]
<1>1. DOMAIN db = DOMAIN Empty /\ ~ IsComment(s) /\ \A d \in Columns(db) : DOMAIN db.columns[d] = Fields4
  BY DEF IsDatabase, IsComment
<1>2. \A d : R(d) = Rendered(provider, schema.columns[d], schema.enums)
  BY DEF Wanted
<1> HIDE DEF R
<1> USE <1>1 DEF Empty, Columns
<1>3. CASE s.op = "CreateTable"
  <2> DEFINE new == [d \in {d \in Columns(schema) : d[1] = s.on} |-> R(d)]
  <2>1. db'.columns = Joined(db.columns, new)
    BY <1>2, <1>3 DEF After, CreateTable
  <2>2. tc \in DOMAIN db.columns => db'.columns[tc] = db.columns[tc]
    BY <2>1 DEF Joined
  <2>3. tc \notin DOMAIN db.columns => tc \in DOMAIN new /\ db'.columns[tc] = new[tc]
    BY <2>1 DEF Joined
  <2>4. QED
    BY <1>3, <2>2, <2>3 DEF R
<1>4. CASE s.op = "DropTable"
  <2>1. db'.columns = Without(db.columns, {d \in DOMAIN db.columns : d[1] = s.on})
    BY <1>4 DEF After, DropTable
  <2>2. Kept
    BY <2>1 DEF Without, Restrict
  <2>3. QED
    BY <1>4, <2>2
<1>5. CASE s.op = "AddColumn"
  <2>1. (CHOOSE d \in s.what : TRUE) = c
    BY <1>5 DEF ColumnOps
  <2>2. db'.columns = With(db.columns, <<s.on, c>>, R(<<s.on, c>>))
    BY <1>2, <1>5, <2>1 DEF After
  <2>3. QED
    BY <1>5, <2>2 DEF With, Joined, R
<1>6. CASE s.op = "DropColumn"
  <2>1. (CHOOSE d \in s.what : TRUE) = c
    BY <1>6 DEF ColumnOps
  <2>2. db'.columns = Without(db.columns, {<<s.on, c>>})
    BY <1>6, <2>1 DEF After, DropColumn
  <2>3. Kept
    BY <2>2 DEF Without, Restrict
  <2>4. QED
    BY <1>6, <2>3
<1>7. CASE s.op = "AlterColumn"
  <2>1. (CHOOSE d \in s.what : TRUE) = c
    BY <1>7 DEF ColumnOps
  <2> DEFINE e == <<s.on, c>>
             retyped == SqlType("PostgreSQL", from.columns[e].type, schema.enums) # R(e).type
             old == db.columns[e]
             type == IF retyped THEN R(e).type ELSE old.type
             optional == IF from.columns[e].optional # schema.columns[e].optional
                         THEN R(e).optional ELSE old.optional
             default == IF DefaultSql("PostgreSQL", from.columns[e].default)
                             # DefaultSql("PostgreSQL", schema.columns[e].default)
                        THEN R(e).default ELSE old.default
             altered == [old EXCEPT !.type = type, !.optional = optional, !.default = default]
  <2>2. e \in DOMAIN db.columns
    BY <1>7
  <2>3. db' = [db EXCEPT !.columns[e] = altered]
    <3>1. db' = [db EXCEPT !.columns[e] = AlterColumn(e)]
      BY <1>7, <2>1 DEF After
    <3>2. AlterColumn(e) = altered
      BY <1>2 DEF AlterColumn
    <3>3. QED
      BY <3>1, <3>2
  <2> HIDE DEF altered
  <2>4. db'.columns = [db.columns EXCEPT ![e] = altered]
    BY <2>3
  <2>5. tc # e => Kept
    BY <2>4
  <2>6. db'.columns[e] = altered
    BY <2>2, <2>4
  <2>7. /\ db'.columns[e].type = type /\ db'.columns[e].optional = optional
        /\ db'.columns[e].default = default
    <3> HIDE DEF retyped, optional, default, type
    <3>1. DOMAIN old = Fields4
      BY <2>2
    <3>2. QED
      BY <2>6, <3>1 DEF altered
  <2>8. QED
    BY <1>7, <2>2, <2>5, <2>7 DEF R
<1>8. CASE s.op = "AlterEnumName"
  <2>1. db'.columns = [d \in DOMAIN db.columns |-> IF db.columns[d].type = s.on
                                                THEN [db.columns[d] EXCEPT !.type = s.ref] ELSE db.columns[d]]
    BY <1>8 DEF After, RenameEnum
  <2>2. CASE db.columns[tc].type = s.on
    <3>1. db'.columns[tc] = [db.columns[tc] EXCEPT !.type = s.ref] /\ tc \in DOMAIN db.columns
      BY <2>1, <2>2
    <3>2. DOMAIN db.columns[tc] = Fields4
      BY <3>1
    <3>3. QED
      BY <1>8, <2>2, <3>1, <3>2
  <2>3. CASE db.columns[tc].type # s.on
    <3>1. Kept
      BY <2>1, <2>3
    <3>2. QED
      BY <1>8, <2>3, <3>1
  <2>4. QED
    BY <2>2, <2>3
<1>9. CASE s.op \in {"CreateEnum", "DropEnum", "AddEnumVariant", "AlterPrimaryKey", "AddForeignKey",
                     "DropForeignKey", "CreateIndex", "AddUnique", "DropUnique"}
  <2>1. Kept
    BY <1>9 DEF After
  <2>2. QED
    BY <1>9, <2>1
<1>10. QED
  BY <1>3, <1>4, <1>5, <1>6, <1>7, <1>8, <1>9 DEF Ops, EnumOps, ColumnOps

-----------------------------------------------------------------------------
(* Execution. *)

LEMMA EnumFacts ==
  ASSUME EnumsDiffer, NEW s \in Schemas \cup {Empty}
  PROVE  ToldApart(s.enums)
<1>1. CASE s \in Schemas
  <2>1. \A e \in s.enums : e \in UNION {t.enums : t \in Schemas}
    BY <1>1
  <2>2. QED
    BY <1>1, <2>1 DEF EnumsDiffer, ToldApart
<1>2. CASE s = Empty
  BY <1>2 DEF Empty, ToldApart
<1>3. QED
  BY <1>1, <1>2

\* A variant is added after the enum it is added to has its name.
LEMMA RenamesFirst ==
  ASSUME NEW o, NEW e, NEW s, s.op = "AddEnumVariant", s.on = e.db, NEW m
  PROVE  Precedes(Step("AlterEnumName", o.db, {}, e.db), s, m)
<1> DEFINE r == Step("AlterEnumName", o.db, {}, e.db)
<1>1. r.op = "AlterEnumName" /\ r.ref = s.on
  BY Fields
<1> HIDE DEF r
<1>2. Place(r, m) = 3 /\ Place(s, m) = 3
  BY <1>1 DEF Place
<1>3. Precedes(r, s, m)
  BY <1>1, <1>2 DEF Precedes
<1>4. QED
  BY <1>3 DEF r

LEMMA ExecuteKeepsEnums ==
  ASSUME SInv, provider = "PostgreSQL", EnumsUnderway, ToldApart(schema.enums), NEW s \in steps, Execute(s)
  PROVE  EnumsUnderway'
<1>1. /\ s \in Diff(provider, from, schema) /\ s.op \in Ops
      /\ DOMAIN db = DOMAIN Empty /\ db' = After(s) /\ ~ Refuses(s)
      /\ steps' = steps \ {s} /\ UNCHANGED <<from, schema>>
  BY Executed DEF Execute
<1>2. MigrationInv /\ ToldApart(from.enums)
  BY DEF SInv, EnumsUnderway
<1>3. /\ \A n, x : Holds(n, x) => x \in DOMAIN db.enums
      /\ \A x \in DOMAIN db.enums : \E n : Holds(n, x)
      /\ \A m, n, x : Holds(m, x) /\ Holds(n, x) => m = n
      /\ \A e \in schema.enums : \A x : Holds(e.name, x) =>
           \A v \in e.variants : v.label \in db.enums[x] \/ Pending("AddEnumVariant", e.db, {v.label})
  BY DEF EnumsUnderway
<1>4. ASSUME NEW l, NEW x
      PROVE  Pending("AddEnumVariant", x, {l}) /\ ~ (s.op = "AddEnumVariant" /\ s.on = x /\ s.what = {l})
               => Pending("AddEnumVariant", x, {l})'
  BY <1>1, <1>2, PendingAfter
<1> DEFINE HaveLabels == \A e \in schema.enums : \A x : Holds(e.name, x)' =>
                           \A v \in e.variants : v.label \in db'.enums[x] \/ Pending("AddEnumVariant", e.db, {v.label})'
           Typed == /\ \A n, x : Holds(n, x)' => x \in DOMAIN db'.enums
                    /\ \A x \in DOMAIN db'.enums : \E n : Holds(n, x)'
                    /\ \A m, n, x : Holds(m, x)' /\ Holds(n, x)' => m = n
<1>5. CASE s.op = "CreateEnum"
  <2>1. PICK e \in schema.enums : s = Step("CreateEnum", e.db, {}, "none") /\ Named(e.name, from.enums) = {}
    BY <1>1, <1>5, StepsOfDiff DEF CreatesEnum
  <2>2. ASSUME NEW n, NEW x
        PROVE  Holds(n, x)' <=> Holds(n, x) \/ (n = e.name /\ x = e.db)
    BY <1>1, <1>2, <2>1, HoldsAfter
  <2>3. s.on = e.db /\ e.db \notin DOMAIN db.enums /\ DOMAIN db'.enums = DOMAIN db.enums \cup {e.db}
    <3>1. s.on = e.db
      BY <2>1, Fields
    <3>2. DOMAIN db'.enums = DOMAIN db.enums \cup {s.on}
      BY <1>1, <1>5, EffectOnEnums
    <3>3. QED
      BY <1>1, <1>5, <3>1, <3>2, EffectOnLabels
  <2>4. ASSUME NEW x \in DOMAIN db'.enums
        PROVE  db'.enums[x] = IF x = e.db THEN Labels(s) ELSE db.enums[x]
    <3>1. db'.enums[x] = IF x = s.on THEN Labels(s) ELSE db.enums[x]
      BY <1>1, <1>5, EffectOnLabels
    <3>2. QED
      BY <2>3, <3>1
  <2>5. Typed
    BY <1>3, <2>2, <2>3
  <2>6. \A v \in e.variants : v.label \in Labels(s)
    BY <2>3 DEF Labels, Definitions
  <2>7. HaveLabels
    <3> SUFFICES ASSUME NEW f \in schema.enums, NEW x, Holds(f.name, x)', NEW v \in f.variants
                 PROVE  v.label \in db'.enums[x] \/ Pending("AddEnumVariant", f.db, {v.label})'
      OBVIOUS
    <3>1. x \in DOMAIN db'.enums
      BY <2>5
    <3>2. CASE x = e.db
      <4>1. f.name = e.name
        BY <1>3, <2>2, <2>3, <3>2
      <4>2. f = e
        BY <4>1 DEF ToldApart
      <4>3. QED
        BY <2>4, <2>6, <3>1, <3>2, <4>2
    <3>3. CASE x # e.db
      BY <1>3, <1>4, <1>5, <2>2, <2>4, <3>1, <3>3
    <3>4. QED
      BY <3>2, <3>3
  <2>8. QED
    BY <1>1, <1>2, <2>5, <2>7 DEF EnumsUnderway
<1>6. CASE s.op = "DropEnum"
  <2>1. PICK o \in from.enums : s = Step("DropEnum", o.db, {}, "none") /\ Named(o.name, schema.enums) = {}
    BY <1>1, <1>6, StepsOfDiff DEF DropsEnum
  <2>2. ASSUME NEW n, NEW x
        PROVE  Holds(n, x)' <=> Holds(n, x) /\ ~ (n = o.name /\ x = o.db)
    BY <1>1, <1>2, <2>1, HoldsAfter
  <2>3. s.on = o.db /\ DOMAIN db'.enums = DOMAIN db.enums \ {o.db}
    BY <1>1, <1>6, <2>1, Fields, EffectOnEnums
  <2>4. \A x \in DOMAIN db'.enums : db'.enums[x] = db.enums[x]
    BY <1>1, <1>6, EffectOnLabels
  <2>5. Holds(o.name, o.db)
    BY <2>1 DEF Holds, Pending
  <2>6. Typed
    BY <1>3, <2>2, <2>3, <2>5
  <2>7. HaveLabels
    <3> SUFFICES ASSUME NEW f \in schema.enums, NEW x, Holds(f.name, x)', NEW v \in f.variants
                 PROVE  v.label \in db'.enums[x] \/ Pending("AddEnumVariant", f.db, {v.label})'
      OBVIOUS
    <3>1. x \in DOMAIN db'.enums /\ Holds(f.name, x)
      BY <2>2, <2>6
    <3>2. QED
      BY <1>3, <1>4, <1>6, <2>4, <3>1
  <2>8. QED
    BY <1>1, <1>2, <2>6, <2>7 DEF EnumsUnderway
<1>7. CASE s.op = "AlterEnumName"
  <2>1. PICK o \in from.enums, e \in schema.enums :
          s = Step("AlterEnumName", o.db, {}, e.db) /\ o.name = e.name /\ o.db # e.db
    BY <1>1, <1>7, StepsOfDiff DEF RenamesEnum
  <2>2. ASSUME NEW n, NEW x
        PROVE  Holds(n, x)' <=> (Holds(n, x) /\ ~ (n = o.name /\ x = o.db)) \/ (n = o.name /\ x = e.db)
    BY <1>1, <1>2, <2>1, HoldsAfter
  <2>3. /\ s.on = o.db /\ s.ref = e.db /\ e.db \notin DOMAIN db.enums
        /\ DOMAIN db'.enums = (DOMAIN db.enums \ {o.db}) \cup {e.db}
    <3>1. s.on = o.db /\ s.ref = e.db
      BY <2>1, Fields
    <3>2. DOMAIN db'.enums = (DOMAIN db.enums \ {s.on}) \cup {s.ref}
      BY <1>1, <1>7, EffectOnEnums
    <3>3. QED
      BY <1>1, <1>7, <3>1, <3>2, EffectOnLabels
  <2>4. \A x \in DOMAIN db'.enums : db'.enums[x] = IF x = e.db THEN db.enums[o.db] ELSE db.enums[x]
    BY <1>1, <1>7, <2>3, EffectOnLabels
  <2>5. Holds(o.name, o.db)
    BY <2>1 DEF Holds, Renaming, Named
  <2>6. Typed
    BY <1>3, <2>1, <2>2, <2>3, <2>5
  <2>7. HaveLabels
    <3> SUFFICES ASSUME NEW f \in schema.enums, NEW x, Holds(f.name, x)', NEW v \in f.variants
                 PROVE  v.label \in db'.enums[x] \/ Pending("AddEnumVariant", f.db, {v.label})'
      OBVIOUS
    <3>1. x \in DOMAIN db'.enums
      BY <2>6
    <3>2. CASE x = e.db
      <4>1. f.name = o.name
        BY <1>3, <2>2, <2>3, <3>2
      <4>2. v.label \in db.enums[o.db] \/ Pending("AddEnumVariant", f.db, {v.label})
        BY <1>3, <2>5, <4>1
      <4>3. QED
        BY <1>4, <1>7, <2>4, <3>1, <3>2, <4>2
    <3>3. CASE x # e.db
      BY <1>3, <1>4, <1>7, <2>2, <2>4, <3>1, <3>3
    <3>4. QED
      BY <3>2, <3>3
  <2>8. QED
    BY <1>1, <1>2, <2>6, <2>7 DEF EnumsUnderway
<1>8. CASE s.op \notin {"CreateEnum", "DropEnum", "AlterEnumName"}
  <2>1. ASSUME NEW n, NEW x
        PROVE  Holds(n, x)' <=> Holds(n, x)
    BY <1>1, <1>2, <1>8, HoldsAfter
  <2>2. DOMAIN db'.enums = DOMAIN db.enums
    BY <1>1, <1>8, EffectOnEnums DEF EnumOps
  <2>3. Typed
    BY <1>3, <2>1, <2>2
  <2>4. CASE s.op = "AddEnumVariant"
    <3>1. PICK o \in from.enums, e \in schema.enums :
            /\ o.name = e.name
            /\ \E v \in e.variants \ o.variants : s = Step("AddEnumVariant", e.db, {v.label}, "none")
      BY <1>1, <2>4, StepsOfDiff DEF AddsVariant
    <3>2. PICK w \in e.variants : s.on = e.db /\ s.what = {w.label}
      BY <3>1, Fields
    <3>3. \A x \in DOMAIN db'.enums : db'.enums[x] = IF x = e.db THEN db.enums[x] \cup {w.label} ELSE db.enums[x]
      BY <1>1, <2>4, <3>2, EffectOnLabels
    <3>4. ASSUME NEW x, Holds(e.name, x)
          PROVE  x = e.db
      <4>1. ASSUME NEW r
            PROVE  ~ Renaming(r, e)
        <5>1. Precedes(Step("AlterEnumName", r.db, {}, e.db), s, migration)
          BY <2>4, <3>2, RenamesFirst
        <5>2. QED
          BY <5>1 DEF Execute, Ready, Renaming
      <4>2. \A f \in schema.enums : f.name = e.name => f = e
        BY DEF ToldApart
      <4>3. QED
        BY <3>4, <4>1, <4>2 DEF Holds, Named
    <3>5. HaveLabels
      <4> SUFFICES ASSUME NEW f \in schema.enums, NEW x, Holds(f.name, x)', NEW v \in f.variants
                   PROVE  v.label \in db'.enums[x] \/ Pending("AddEnumVariant", f.db, {v.label})'
        OBVIOUS
      <4>1. x \in DOMAIN db'.enums /\ Holds(f.name, x)
        BY <2>1, <2>3
      <4>2. v.label \in db.enums[x] \/ Pending("AddEnumVariant", f.db, {v.label})
        BY <1>3, <4>1
      <4>3. CASE s.on = f.db /\ s.what = {v.label}
        <5>1. f = e
          BY <3>2, <4>3 DEF ToldApart
        <5>2. v.label = w.label
          <6>1. v.label \in {w.label}
            BY <3>2, <4>3
          <6>2. QED
            BY <6>1
        <5>3. x = e.db
          BY <3>4, <4>1, <5>1
        <5>4. QED
          BY <3>3, <4>1, <5>2, <5>3
      <4>4. CASE ~ (s.on = f.db /\ s.what = {v.label})
        BY <1>4, <3>3, <4>1, <4>2, <4>4
      <4>5. QED
        BY <4>3, <4>4
    <3>6. QED
      BY <1>1, <1>2, <2>3, <3>5 DEF EnumsUnderway
  <2>5. CASE s.op # "AddEnumVariant"
    <3>1. \A x \in DOMAIN db'.enums : db'.enums[x] = db.enums[x]
      BY <1>1, <1>8, <2>5, EffectOnLabels
    <3>2. HaveLabels
      BY <1>3, <1>4, <2>1, <2>3, <2>5, <3>1
    <3>3. QED
      BY <1>1, <1>2, <2>3, <3>2 DEF EnumsUnderway
  <2>6. QED
    BY <2>4, <2>5
<1>9. QED
  BY <1>5, <1>6, <1>7, <1>8

\* Once the enums are done, a type is the one that the schema's enums give.
LEMMA TypeAtTheEnd ==
  (\A s \in steps : s.op \notin EnumOps) /\ ToldApart(schema.enums) =>
    \A type, x : TypeIs(type, x) => x = SqlType("PostgreSQL", type, schema.enums)
<1> SUFFICES ASSUME \A s \in steps : s.op \notin EnumOps, ToldApart(schema.enums),
                    NEW type, NEW x, TypeIs(type, x)
             PROVE  x = SqlType("PostgreSQL", type, schema.enums)
  OBVIOUS
<1>1. CASE type.kind = "scalar"
  BY <1>1 DEF TypeIs, SqlType
<1>2. CASE type.kind # "scalar"
  <2>1. PICK e \in schema.enums : e.name = type.of /\ e.db = x
    BY <1>2, HoldsAtTheEnd DEF TypeIs
  <2>2. \A f \in schema.enums : f.name = type.of => f = e
    BY <2>1 DEF ToldApart
  <2> DEFINE n == type.of
             chosen == CHOOSE f \in schema.enums : f.name = n
  <2>3. SqlType("PostgreSQL", type, schema.enums) = chosen.db
    BY <1>2, <2>1 DEF SqlType
  <2> HIDE DEF n
  <2>4. chosen = e
    BY <2>1, <2>2 DEF n
  <2>5. QED
    BY <2>1, <2>3, <2>4
<1>3. QED
  BY <1>1, <1>2

\* Types are created and renamed before columns change.
LEMMA EnumsFirst ==
  ASSUME NEW r, NEW s, NEW m, r.op \in EnumOps,
         s.op \in ColumnOps \cup {"CreateTable"}
  PROVE  Precedes(r, s, m)
<1>1. Place(r, m) \in {1, 2, 3}
  BY DEF Place, EnumOps
<1>2. Place(s, m) \in {5, 10}
  BY DEF Place, ColumnOps
<1>3. QED
  BY <1>1, <1>2 DEF Precedes

\* So while there are steps on enums, every column is as before.
LEMMA AsBeforeFirst ==
  ASSUME SInv, provider = "PostgreSQL", pc = "apply", NEW r \in steps, r.op \in EnumOps, NEW tc \in Columns(db)
  PROVE  AsBefore(tc)
<1>1. /\ MigrationInv /\ Underway /\ IsShape(from) /\ IsShape(schema)
  BY SchemaIsShape DEF SInv, TablesInv, ControlInv
<1>2. \A s \in migration : s.op \in ColumnOps \cup {"CreateTable"} => s \in steps
  BY <1>1, EnumsFirst DEF MigrationInv
<1>3. tc \in Columns(from)
  <2> SUFFICES ASSUME tc \notin Columns(from) PROVE FALSE
    OBVIOUS
  <2>1. /\ tc \in Columns(schema) /\ tc[1] \in Tables(schema)
        /\ IF tc[1] \in Tables(from) THEN ~ Pending("AddColumn", tc[1], {tc[2]})
           ELSE ~ Pending("CreateTable", tc[1], {})
    BY <1>1 DEF Underway, HasColumn, IsShape
  <2>2. CASE tc[1] \in Tables(from)
    <3>1. Step("AddColumn", tc[1], {tc[2]}, "none") \in migration
      BY <1>1, <2>1, <2>2, DiffHasSteps DEF MigrationInv
    <3>2. QED
      BY <1>2, <2>1, <2>2, <3>1, Fields DEF Pending, ColumnOps
  <2>3. CASE tc[1] \notin Tables(from)
    <3>1. Step("CreateTable", tc[1], {}, "none") \in migration
      BY <1>1, <2>1, <2>3, DiffHasSteps DEF MigrationInv
    <3>2. QED
      BY <1>2, <2>1, <2>3, <3>1, Fields DEF Pending
  <2>4. QED
    BY <2>2, <2>3
<1>4. Alters(tc) => Pending("AlterColumn", tc[1], {tc[2]})
  <2> SUFFICES ASSUME tc \in Columns(schema), Altered("PostgreSQL", from, schema, tc)
               PROVE  Pending("AlterColumn", tc[1], {tc[2]})
    BY DEF Alters
  <2>1. tc[1] \in Tables(from) \cap Tables(schema)
    BY <1>1, <1>3 DEF IsShape
  <2>2. Step("AlterColumn", tc[1], {tc[2]}, "none") \in migration
    BY <1>1, <1>3, <2>1, DiffHasTypeSteps DEF MigrationInv
  <2>3. QED
    BY <1>2, <2>2, Fields DEF Pending, ColumnOps
<1>5. QED
  BY <1>3, <1>4 DEF AsBefore

\* What a column has to be: as it was, or as the schema wants it.
InOrder(tc) ==
  IF AsBefore(tc)
  THEN /\ TypeIs(from.columns[tc].type, db.columns[tc].type)
       /\ db.columns[tc].optional = from.columns[tc].optional
       /\ db.columns[tc].default = Defaulted(from.columns[tc].default)
  ELSE Like(db.columns[tc], Wanted(schema, tc))

LEMMA ExecuteKeepsColumns ==
  ASSUME SInv, provider = "PostgreSQL", EnumsUnderway, ColumnsUnderway, ToldApart(schema.enums),
         NEW s \in steps, Execute(s)
  PROVE  ColumnsUnderway'
<1>1. /\ s \in Diff(provider, from, schema) /\ s.op \in Ops
      /\ db' = After(s) /\ ~ Refuses(s) /\ steps' = steps \ {s} /\ UNCHANGED <<from, schema>>
      /\ pc = "apply" /\ IsShape(from) /\ IsShape(schema) /\ \A r \in steps : ~ Precedes(r, s, migration)
  BY Executed DEF Execute, Ready
<1>2. MigrationInv /\ IsDatabase(db) /\ Underway /\ ToldApart(from.enums)
  BY <1>1 DEF SInv, DatabaseInv, TablesInv, EnumsUnderway
<1>3. PICK c : /\ s.what = {c} \/ s.op \notin ColumnOps
               /\ s.op \in ColumnOps => s.ref = "none"
               /\ s.op = "AddColumn" => <<s.on, c>> \in Columns(schema) \ Columns(from)
               /\ s.op = "AlterColumn" =>
                    /\ <<s.on, c>> \in Columns(schema) \cap Columns(from) \cap Columns(db)
                    /\ Altered("PostgreSQL", from, schema, <<s.on, c>>)
  <2>1. CASE s.op \in ColumnOps
    <3>1. PICK tc : /\ s.on = tc[1] /\ s.what = {tc[2]} /\ s.ref = "none"
                    /\ s.op = "AddColumn" => tc \in Columns(schema) \ Columns(from)
                    /\ s.op = "AlterColumn" => /\ tc \in Columns(from) \cap Columns(schema)
                                               /\ Altered("PostgreSQL", from, schema, tc)
      BY <1>1, <2>1, ColumnOf
    <3>2. s.op \in {"AddColumn", "AlterColumn"} => tc = <<s.on, tc[2]>>
      BY <1>1, <3>1 DEF IsShape
    <3>3. s.op = "AlterColumn" => <<s.on, tc[2]>> \in Columns(db)
      BY <1>1, <3>1, NotRefused DEF Missing, StepColumns
    <3>4. QED
      BY <3>1, <3>2, <3>3
  <2>2. CASE s.op \notin ColumnOps
    BY <2>2 DEF ColumnOps
  <2>3. QED
    BY <2>1, <2>2
<1>4. SUFFICES ASSUME NEW tc \in Columns(db') PROVE InOrder(tc)'
  BY DEF ColumnsUnderway, InOrder
<1>5. tc \in Columns(db) => InOrder(tc)
  BY DEF ColumnsUnderway, InOrder
<1>6. ~ (s.op = "AlterColumn" /\ tc = <<s.on, c>>) => (AsBefore(tc)' <=> AsBefore(tc))
  <2> SUFFICES ASSUME ~ (s.op = "AlterColumn" /\ tc = <<s.on, c>>), tc \in Columns(schema)
               PROVE  Pending("AlterColumn", tc[1], {tc[2]})' <=> Pending("AlterColumn", tc[1], {tc[2]})
    BY <1>1 DEF AsBefore, Alters
  <2> DEFINE cs == {tc[2]}
  <2>1. tc = <<tc[1], tc[2]>>
    BY <1>1 DEF IsShape
  <2>2. s.op = "AlterColumn" /\ s.on = tc[1] => s.what # cs
    BY <1>3, <2>1 DEF ColumnOps
  <2> HIDE DEF cs
  <2>3. Pending("AlterColumn", tc[1], cs)' <=> Pending("AlterColumn", tc[1], cs)
    BY <1>1, <1>2, <2>2, PendingAfter
  <2>4. QED
    BY <2>3 DEF cs
<1>7. Wanted(schema, tc)' = Wanted(schema, tc) /\ Alters(tc)' = Alters(tc)
  BY <1>1 DEF Wanted, Alters
<1>8. /\ s.op \in {"CreateTable", "AddColumn"} =>
           \/ tc \in Columns(db) /\ db'.columns[tc] = db.columns[tc]
           \/ /\ tc \in Columns(schema) /\ db'.columns[tc] = Wanted(schema, tc)
              /\ IF s.op = "CreateTable" THEN tc[1] = s.on ELSE tc = <<s.on, c>>
      /\ s.op = "AlterColumn" /\ tc # <<s.on, c>> => tc \in Columns(db) /\ db'.columns[tc] = db.columns[tc]
      /\ s.op = "AlterColumn" /\ tc = <<s.on, c>> =>
           /\ tc \in Columns(db)
           /\ db'.columns[tc].type =
                IF SqlType("PostgreSQL", from.columns[tc].type, schema.enums) # Wanted(schema, tc).type
                THEN Wanted(schema, tc).type ELSE db.columns[tc].type
           /\ db'.columns[tc].optional =
                IF from.columns[tc].optional # schema.columns[tc].optional
                THEN Wanted(schema, tc).optional ELSE db.columns[tc].optional
           /\ db'.columns[tc].default =
                IF DefaultSql("PostgreSQL", from.columns[tc].default)
                     # DefaultSql("PostgreSQL", schema.columns[tc].default)
                THEN Wanted(schema, tc).default ELSE db.columns[tc].default
      /\ s.op = "AlterEnumName" =>
           /\ tc \in Columns(db)
           /\ db'.columns[tc].type = IF db.columns[tc].type = s.on THEN s.ref ELSE db.columns[tc].type
           /\ db'.columns[tc].optional = db.columns[tc].optional
           /\ db'.columns[tc].default = db.columns[tc].default
      /\ s.op \notin {"CreateTable", "AddColumn", "AlterColumn", "AlterEnumName"} =>
           tc \in Columns(db) /\ db'.columns[tc] = db.columns[tc]
  BY <1>1, <1>2, <1>3, EffectOnColumns
<1>9. CASE s.op \in EnumOps
  <2>1. tc \in Columns(db) /\ AsBefore(tc) /\ AsBefore(tc)'
    <3>1. tc \in Columns(db)
      BY <1>8, <1>9 DEF EnumOps
    <3>2. AsBefore(tc)
      BY <1>1, <1>9, <3>1, AsBeforeFirst
    <3>3. QED
      BY <1>6, <1>9, <3>1, <3>2 DEF EnumOps
  <2>2. /\ TypeIs(from.columns[tc].type, db.columns[tc].type)
        /\ db.columns[tc].optional = from.columns[tc].optional
        /\ db.columns[tc].default = Defaulted(from.columns[tc].default)
    BY <1>5, <2>1 DEF InOrder
  <2>3. /\ db'.columns[tc].optional = db.columns[tc].optional
        /\ db'.columns[tc].default = db.columns[tc].default
    BY <1>8, <1>9 DEF EnumOps
  <2>4. ASSUME NEW n, NEW x, NEW y, x = db.columns[tc].type, y = db'.columns[tc].type, Holds(n, x)
        PROVE  Holds(n, y)'
    <3>1. CASE s.op = "CreateEnum"
      <4>1. PICK e \in schema.enums : s = Step("CreateEnum", e.db, {}, "none") /\ Named(e.name, from.enums) = {}
        BY <1>1, <3>1, StepsOfDiff DEF CreatesEnum
      <4>2. Holds(n, x)'
        BY <1>1, <1>2, <2>4, <4>1, HoldsAfter
      <4>3. QED
        BY <1>8, <2>4, <3>1, <4>2
    <3>2. CASE s.op = "DropEnum"
      <4>1. PICK o \in from.enums : s = Step("DropEnum", o.db, {}, "none") /\ Named(o.name, schema.enums) = {}
        BY <1>1, <3>2, StepsOfDiff DEF DropsEnum
      <4>2. x # o.db
        BY <1>1, <2>1, <2>4, <3>2, <4>1, Fields, NotRefused
      <4>3. Holds(n, x)'
        BY <1>1, <1>2, <2>4, <4>1, <4>2, HoldsAfter
      <4>4. QED
        BY <1>8, <2>4, <3>2, <4>3
    <3>3. CASE s.op = "AlterEnumName"
      <4>1. PICK o \in from.enums, e \in schema.enums :
              s = Step("AlterEnumName", o.db, {}, e.db) /\ o.name = e.name /\ o.db # e.db
        BY <1>1, <3>3, StepsOfDiff DEF RenamesEnum
      <4>2. ASSUME NEW z
            PROVE  Holds(n, z)' <=> (Holds(n, z) /\ ~ (n = o.name /\ z = o.db)) \/ (n = o.name /\ z = e.db)
        BY <1>1, <1>2, <4>1, HoldsAfter
      <4>3. s.on = o.db /\ s.ref = e.db
        BY <4>1, Fields
      <4>4. Holds(o.name, o.db)
        BY <4>1 DEF Holds, Renaming, Named
      <4>5. x = o.db => n = o.name
        BY <2>4, <4>4 DEF EnumsUnderway
      <4>6. QED
        BY <1>8, <2>4, <3>3, <4>2, <4>3, <4>5
    <3>4. CASE s.op = "AddEnumVariant"
      <4>1. Holds(n, x)'
        BY <1>1, <1>2, <2>4, <3>4, HoldsAfter
      <4>2. QED
        BY <1>8, <2>4, <3>4, <4>1
    <3>5. QED
      BY <1>9, <3>1, <3>2, <3>3, <3>4 DEF EnumOps
  <2>5. db.columns[tc].type \in Scalars => db'.columns[tc].type = db.columns[tc].type
    <3>1. CASE s.op = "AlterEnumName"
      <4>1. PICK o \in from.enums, e \in schema.enums :
              s = Step("AlterEnumName", o.db, {}, e.db) /\ o.name = e.name /\ o.db # e.db
        BY <1>1, <3>1, StepsOfDiff DEF RenamesEnum
      <4>2. s.on = o.db /\ o.db \notin Scalars
        BY <1>2, <4>1, Fields DEF ToldApart
      <4>3. QED
        BY <1>8, <2>4, <3>1, <4>2
    <3>2. CASE s.op # "AlterEnumName"
      BY <1>8, <1>9, <3>2 DEF EnumOps
    <3>3. QED
      BY <3>1, <3>2
  <2>6. ASSUME NEW type, NEW y, type = from.columns[tc].type, y = db'.columns[tc].type
        PROVE  TypeIs(type, y)'
    BY <2>2, <2>4, <2>5, <2>6 DEF TypeIs
  <2>7. QED
    BY <1>1, <2>1, <2>2, <2>3, <2>6 DEF InOrder
<1>10. CASE s.op \notin EnumOps
  <2>1. \A n, x : Holds(n, x)' <=> Holds(n, x)
    BY <1>1, <1>2, <1>10, HoldsAfter DEF EnumOps
  <2>2. \A type, x : TypeIs(type, x)' <=> TypeIs(type, x)
    BY <2>1 DEF TypeIs
  <2>3. ASSUME tc \in Columns(db), db'.columns[tc] = db.columns[tc], ~ (s.op = "AlterColumn" /\ tc = <<s.on, c>>)
        PROVE  InOrder(tc)'
    BY <1>1, <1>5, <1>6, <1>7, <2>2, <2>3 DEF InOrder
  <2>4. CASE s.op \in {"CreateTable", "AddColumn"} /\ ~ (tc \in Columns(db) /\ db'.columns[tc] = db.columns[tc])
    <3>1. /\ tc \in Columns(schema) /\ db'.columns[tc] = Wanted(schema, tc)
          /\ IF s.op = "CreateTable" THEN tc[1] = s.on ELSE tc = <<s.on, c>>
      BY <1>8, <2>4
    <3>2. tc \notin Columns(from)
      <4>1. CASE s.op = "CreateTable"
        <5>1. s.on \notin Tables(from)
          BY <1>1, <4>1, StepsOfDiff, Fields DEF CreatesTable
        <5>2. QED
          BY <1>1, <3>1, <4>1, <5>1 DEF IsShape
      <4>2. CASE s.op = "AddColumn"
        BY <1>3, <3>1, <4>2
      <4>3. QED
        BY <2>4, <4>1, <4>2
    <3>3. ~ AsBefore(tc)'
      BY <1>1, <3>2 DEF AsBefore
    <3>4. QED
      BY <1>7, <3>1, <3>3 DEF InOrder, Like
  <2>5. CASE s.op = "AlterColumn" /\ tc = <<s.on, c>>
    <3>1. \A r \in steps : r.op \notin EnumOps
      BY <1>1, <2>5, EnumsFirst DEF ColumnOps
    <3>2. Alters(tc) /\ tc \in Columns(from) /\ s = Step("AlterColumn", tc[1], {tc[2]}, "none")
      <4> DEFINE cs == {tc[2]}
      <4>1. s.what = cs /\ s.on = tc[1] /\ s.ref = "none"
        BY <1>3, <2>5 DEF ColumnOps
      <4> HIDE DEF cs
      <4>2. s = Step("AlterColumn", tc[1], cs, "none")
        BY <1>1, <2>5, <4>1, SameStep
      <4>3. QED
        BY <1>3, <2>5, <4>2 DEF Alters, cs
    <3>3. AsBefore(tc) /\ ~ AsBefore(tc)'
      BY <1>1, <1>7, <3>2 DEF AsBefore, Pending
    <3>4. /\ TypeIs(from.columns[tc].type, db.columns[tc].type)
          /\ db.columns[tc].optional = from.columns[tc].optional
          /\ db.columns[tc].default = Defaulted(from.columns[tc].default)
      BY <1>5, <1>8, <2>5, <3>3 DEF InOrder
    <3>5. db.columns[tc].type = SqlType("PostgreSQL", from.columns[tc].type, schema.enums)
      BY <3>1, <3>4, TypeAtTheEnd
    <3>6. /\ Wanted(schema, tc).optional = schema.columns[tc].optional
          /\ Wanted(schema, tc).default = Defaulted(schema.columns[tc].default)
      BY DEF Wanted, Rendered, Defaulted
    <3>7. Like(db'.columns[tc], Wanted(schema, tc))
      BY <1>8, <2>5, <3>4, <3>5, <3>6 DEF Like, Defaulted
    <3>8. QED
      BY <1>7, <3>3, <3>7 DEF InOrder
  <2>6. QED
    BY <1>8, <1>10, <2>3, <2>4, <2>5 DEF EnumOps
<1>11. QED
  BY <1>9, <1>10

\* When no step is left, types and columns are those of the schema.
LEMMA UnderwayAtTheEnd ==
  EnumsUnderway /\ ColumnsUnderway /\ steps = {} /\ ToldApart(schema.enums) => Conforms(db, schema)
<1> SUFFICES ASSUME EnumsUnderway, ColumnsUnderway, steps = {}, ToldApart(schema.enums)
             PROVE  Conforms(db, schema)
  OBVIOUS
<1>1. \A n, x : Holds(n, x) <=> \E e \in schema.enums : e.name = n /\ e.db = x
  BY HoldsAtTheEnd
<1>2. \A op, t, cs : ~ Pending(op, t, cs)
  BY DEF Pending
<1>3. DOMAIN db.enums = {e.db : e \in schema.enums}
  <2>1. \A x : x \in DOMAIN db.enums <=> \E n : Holds(n, x)
    BY DEF EnumsUnderway
  <2>2. \A x : x \in DOMAIN db.enums <=> x \in {e.db : e \in schema.enums}
    BY <1>1, <2>1
  <2>3. QED
    BY <2>2
<1>4. \A e \in schema.enums : \A v \in e.variants : v.label \in db.enums[e.db]
  BY <1>1, <1>2 DEF EnumsUnderway
<1>5. ASSUME NEW tc \in Columns(schema) \cap Columns(db)
      PROVE  Like(db.columns[tc], Wanted(schema, tc))
  <2>1. CASE AsBefore(tc)
    <3>1. /\ TypeIs(from.columns[tc].type, db.columns[tc].type)
          /\ db.columns[tc].optional = from.columns[tc].optional
          /\ db.columns[tc].default = Defaulted(from.columns[tc].default)
      BY <2>1 DEF ColumnsUnderway
    <3>2. ~ Altered("PostgreSQL", from, schema, tc)
      BY <1>2, <2>1 DEF AsBefore, Alters
    <3>3. db.columns[tc].type = SqlType("PostgreSQL", from.columns[tc].type, schema.enums)
      BY <3>1, TypeAtTheEnd
    <3>4. /\ Wanted(schema, tc).type = SqlType("PostgreSQL", schema.columns[tc].type, schema.enums)
          /\ Wanted(schema, tc).optional = schema.columns[tc].optional
          /\ Wanted(schema, tc).default = Defaulted(schema.columns[tc].default)
      BY DEF Wanted, Rendered, Defaulted
    <3>5. QED
      BY <3>1, <3>2, <3>3, <3>4 DEF Altered, Like, Defaulted
  <2>2. CASE ~ AsBefore(tc)
    BY <2>2 DEF ColumnsUnderway
  <2>3. QED
    BY <2>1, <2>2
<1>6. QED
  BY <1>3, <1>4, <1>5 DEF Conforms

-----------------------------------------------------------------------------
(* What a diff starts from. *)

\* What the diff takes for the database: it names every type, knows no label
\* and no column that is not there.
Describes(s, d) ==
  /\ ToldApart(s.enums)
  /\ \A x : x \in DOMAIN d.enums <=> \E e \in s.enums : e.db = x
  /\ \A e \in s.enums : \A v \in e.variants : v.label \in d.enums[e.db]
  /\ \A tc \in Columns(d) :
       /\ tc \in Columns(s)
       /\ LET type == s.columns[tc].type
              x == d.columns[tc].type
          IN IF type.kind = "scalar" THEN x = ScalarSql("PostgreSQL", type.of) /\ x \in Scalars
             ELSE \E e \in s.enums : e.name = type.of /\ e.db = x
       /\ d.columns[tc].optional = s.columns[tc].optional
       /\ d.columns[tc].default = Defaulted(s.columns[tc].default)

LEMMA SnapshotDescribes ==
  ASSUME NEW s \in Schemas \cup {Empty}, ToldApart(s.enums), NEW d, SameShape(d, s), Conforms(d, s)
  PROVE  Describes(s, d)
<1>1. \A x : x \in DOMAIN d.enums <=> \E e \in s.enums : e.db = x
  BY DEF Conforms
<1>2. ASSUME NEW tc \in Columns(d), NEW type, type = s.columns[tc].type, NEW x, x = d.columns[tc].type
      PROVE  /\ tc \in Columns(s)
             /\ IF type.kind = "scalar" THEN x = ScalarSql("PostgreSQL", type.of) /\ x \in Scalars
                ELSE \E e \in s.enums : e.name = type.of /\ e.db = x
             /\ d.columns[tc].optional = s.columns[tc].optional
             /\ d.columns[tc].default = Defaulted(s.columns[tc].default)
  <2>1. tc \in Columns(s) /\ Like(d.columns[tc], Wanted(s, tc))
    BY DEF SameShape, Conforms
  <2>2. s \in Schemas
    BY <2>1 DEF Empty, Columns
  <2>3. IF type.kind = "scalar" THEN type.of \in {"String", "Int", "Boolean"} ELSE Named(type.of, s.enums) # {}
    BY <1>2, <2>1, <2>2, SchemaAssumption DEF WellFormed
  <2>4. /\ x = SqlType("PostgreSQL", type, s.enums)
        /\ d.columns[tc].optional = s.columns[tc].optional
        /\ d.columns[tc].default = Defaulted(s.columns[tc].default)
    BY <1>2, <2>1 DEF Like, Wanted, Rendered, Defaulted
  <2>5. CASE type.kind = "scalar"
    <3>1. x = ScalarSql("PostgreSQL", type.of)
      BY <2>4, <2>5 DEF SqlType
    <3>2. x \in Scalars
      BY <2>3, <2>5, <3>1 DEF ScalarSql, Scalars
    <3>3. QED
      BY <2>1, <2>4, <2>5, <3>1, <3>2
  <2>6. CASE type.kind # "scalar"
    <3> DEFINE n == type.of
               chosen == CHOOSE e \in s.enums : e.name = n
    <3>1. \E e \in s.enums : e.name = n
      BY <2>3, <2>6 DEF Named
    <3>2. x = chosen.db
      BY <2>4, <2>6, <3>1 DEF SqlType
    <3>3. chosen \in s.enums /\ chosen.name = n
      BY <3>1
    <3>4. QED
      BY <2>1, <2>4, <2>6, <3>2, <3>3
  <2>7. QED
    BY <2>5, <2>6
<1>3. QED
  BY <1>1, <1>2 DEF Describes, Conforms

\* Every type has a label if every enum has a variant, so all are read.
LEMMA AllLabelled ==
  ASSUME EnumsHaveVariants, NEW s \in Schemas \cup {Empty}, NEW d, Conforms(d, s)
  PROVE  Labelled(d) = DOMAIN d.enums
<1> SUFFICES ASSUME NEW e \in s.enums PROVE d.enums[e.db] # {}
  BY DEF Conforms, Labelled
<1>1. s \in Schemas
  BY DEF Empty
<1>2. PICK v \in e.variants : TRUE
  BY <1>1 DEF EnumsHaveVariants
<1>3. QED
  BY <1>2 DEF Conforms

LEMMA ReadBackDescribes ==
  ASSUME EnumsDiffer, EnumsHaveVariants, NEW s \in Schemas \cup {Empty}, NEW d, Conforms(d, s),
         SameShape(d, s), provider = "PostgreSQL", IsDatabase(d), NEW old, SameShape(d, old),
         old.enums = IntrospectEnums(d), old.columns = ReadColumns("PostgreSQL", d, d.uniques)
  PROVE  Describes(old, d)
<1>1. Labelled(d) = DOMAIN d.enums
  BY AllLabelled
<1>2. old.enums = IntrospectEnums(d) /\ old.columns = ReadColumns("PostgreSQL", d, d.uniques)
  OBVIOUS
<1>3. ASSUME NEW e \in old.enums
      PROVE  /\ e.db \in DOMAIN d.enums /\ e.name = Pascal[e.db]
             /\ e = [name |-> Pascal[e.db], db |-> e.db,
                     variants |-> {[label |-> l, compound |-> FALSE] : l \in d.enums[e.db]}]
  BY <1>1, <1>2 DEF IntrospectEnums
<1>4. ASSUME NEW x \in DOMAIN d.enums
      PROVE  \E e \in old.enums : e.db = x /\ e.name = Pascal[x]
  <2> DEFINE e == [name |-> Pascal[x], db |-> x, variants |-> {[label |-> l, compound |-> FALSE] : l \in d.enums[x]}]
  <2>1. e \in old.enums
    BY <1>1, <1>2 DEF IntrospectEnums
  <2>2. QED
    BY <2>1
<1>5. \A x, y \in DOMAIN d.enums : x \notin Scalars /\ (Pascal[x] = Pascal[y] => x = y)
  <2>1. ASSUME NEW x \in DOMAIN d.enums
        PROVE  \E e \in UNION {t.enums : t \in Schemas} : e.db = x
    <3>1. PICK e \in s.enums : e.db = x
      BY DEF Conforms
    <3>2. s \in Schemas
      BY <3>1 DEF Empty
    <3>3. QED
      BY <3>1, <3>2
  <2>2. QED
    BY <2>1 DEF EnumsDiffer
<1>6. ToldApart(old.enums)
  <2>1. ASSUME NEW e \in old.enums, NEW f \in old.enums, e.name = f.name \/ e.db = f.db
        PROVE  e = f
    <3>1. e.db = f.db
      BY <1>3, <1>5, <2>1
    <3>2. QED
      BY <1>3, <3>1
  <2>2. QED
    BY <1>3, <1>5, <2>1 DEF ToldApart
<1>7. ASSUME NEW e \in old.enums, NEW v \in e.variants
      PROVE  v.label \in d.enums[e.db]
  <2> DEFINE labels == d.enums[e.db]
  <2>1. e.variants = {[label |-> l, compound |-> FALSE] : l \in labels}
    BY <1>3
  <2> HIDE DEF labels
  <2>2. PICK l \in labels : v = [label |-> l, compound |-> FALSE]
    BY <2>1
  <2>3. QED
    BY <2>2 DEF labels
<1>8. ASSUME NEW tc \in Columns(d), NEW type, type = old.columns[tc].type, NEW x, x = d.columns[tc].type
      PROVE  /\ tc \in Columns(old)
             /\ IF type.kind = "scalar" THEN x = ScalarSql("PostgreSQL", type.of) /\ x \in Scalars
                ELSE \E e \in old.enums : e.name = type.of /\ e.db = x
             /\ d.columns[tc].optional = old.columns[tc].optional
             /\ d.columns[tc].default = Defaulted(old.columns[tc].default)
  <2>1. /\ tc \in Columns(old) /\ type = ReadType(d, x)
        /\ old.columns[tc].optional = d.columns[tc].optional
        /\ old.columns[tc].default = ParsePgDefault(d.columns[tc].default)
    BY <1>2, <1>8 DEF ReadColumns, Columns, SameShape
  <2>2. x \in Scalars \cup DOMAIN d.enums
    BY <1>8 DEF IsDatabase
  <2>3. IF type.kind = "scalar" THEN x = ScalarSql("PostgreSQL", type.of) /\ x \in Scalars
        ELSE \E e \in old.enums : e.name = type.of /\ e.db = x
    <3>1. CASE x \in DOMAIN d.enums
      <4>1. type.kind = "enum" /\ type.of = Pascal[x]
        BY <1>1, <2>1, <3>1 DEF ReadType
      <4>2. QED
        BY <1>4, <3>1, <4>1
    <3>2. CASE x \notin DOMAIN d.enums
      <4>1. x \in {"TEXT", "INTEGER", "BOOLEAN"}
        BY <2>2, <3>2 DEF Scalars
      <4>2. /\ type.kind = "scalar"
            /\ x = "TEXT" => type.of = "String"
            /\ x = "INTEGER" => type.of = "Int"
            /\ x = "BOOLEAN" => type.of = "Boolean"
        BY <1>1, <2>1, <3>2 DEF ReadType
      <4>3. x = ScalarSql("PostgreSQL", type.of)
        BY <4>1, <4>2 DEF ScalarSql
      <4>4. QED
        BY <4>1, <4>2, <4>3 DEF Scalars
    <3>3. QED
      BY <3>1, <3>2
  <2>4. d.columns[tc].default = Defaulted(ParsePgDefault(d.columns[tc].default))
    <3>1. tc \in Columns(s) /\ Like(d.columns[tc], Wanted(s, tc))
      BY DEF SameShape, Conforms
    <3>2. d.columns[tc].default = Defaulted(s.columns[tc].default)
      BY <3>1 DEF Like, Wanted, Rendered, Defaulted
    <3>3. d.columns[tc].default \notin {"autoincrement", "uuid()", "empty"}
      BY <3>2 DEF Defaulted, DefaultSql
    <3>4. QED
      BY <3>3 DEF Defaulted, DefaultSql, ParsePgDefault
  <2>5. QED
    BY <2>1, <2>3, <2>4
<1>9. QED
  <2>1. \A x : x \in DOMAIN d.enums <=> \E e \in old.enums : e.db = x
    BY <1>3, <1>4
  <2>2. QED
    BY <1>6, <1>7, <1>8, <2>1 DEF Describes

LEMMA DevStartsUnderway ==
  ASSUME EnumsDiffer, EnumsHaveVariants, SInv, provider = "PostgreSQL", Conforms(db, snapshot),
         NEW target \in Schemas, NEW old \in Readings(provider, db) \cup {snapshot}, Dev(target, old)
  PROVE  EnumsUnderway' /\ ColumnsUnderway'
<1> USE DEF Dev
<1>1. /\ snapshot \in Schemas \cup {Empty} /\ SameShape(db, snapshot) /\ IsDatabase(db) /\ DatabaseInv
      /\ target \in Schemas \cup {Empty}
  BY DEF SInv, ControlInv, TablesInv, DatabaseInv
<1>2. /\ from' = old /\ schema' = target /\ steps' = Diff(provider, old, target) /\ UNCHANGED db
  OBVIOUS
<1>3. ToldApart(target.enums) /\ ToldApart(snapshot.enums)
  BY <1>1, EnumFacts
<1>4. Describes(old, db)
  <2>1. CASE old = snapshot
    BY <1>1, <1>3, <2>1, SnapshotDescribes
  <2>2. CASE old \in Readings(provider, db)
    <3>1. /\ SameShape(db, old) /\ old.enums = IntrospectEnums(db)
          /\ old.columns = ReadColumns("PostgreSQL", db, db.uniques)
      BY <2>2, ReadingOf
    <3>2. QED
      BY <1>1, <3>1, ReadBackDescribes
  <2>3. QED
    BY <2>1, <2>2
<1>5. IsShape(old) /\ SameShape(db, old) /\ IsShape(target)
  BY <1>1, FromIsShape, SchemaIsShape DEF SInv
<1>6. ToldApart(old.enums)
  BY <1>4 DEF Describes
<1>7. /\ \A e \in target.enums : Named(e.name, old.enums) = {} => Pending("CreateEnum", e.db, {})'
      /\ \A o \in old.enums : Named(o.name, target.enums) = {} => Pending("DropEnum", o.db, {})'
      /\ \A o \in old.enums, e \in target.enums : o.name = e.name =>
           /\ o.db # e.db => Renaming(o, e)'
           /\ \A v \in e.variants \ o.variants : Pending("AddEnumVariant", e.db, {v.label})'
  BY <1>2, DiffHasTypeSteps DEF Pending, Renaming
<1>8. ASSUME NEW n, NEW x
      PROVE  Holds(n, x)' <=> \E o \in old.enums : o.name = n /\ o.db = x
  <2>1. Holds(n, x)' <=>
          \/ \E o \in old.enums :
               /\ o.name = n /\ o.db = x
               /\ IF Named(n, target.enums) = {} THEN Pending("DropEnum", x, {})'
                  ELSE \E e \in Named(n, target.enums) : e.db = x \/ Renaming(o, e)'
          \/ \E e \in target.enums :
               /\ e.name = n /\ e.db = x
               /\ IF Named(n, old.enums) = {} THEN ~ Pending("CreateEnum", x, {})'
                  ELSE \A o \in Named(n, old.enums) : ~ Renaming(o, e)'
    BY <1>2 DEF Holds
  <2>2. ASSUME NEW o \in old.enums, o.name = n, o.db = x
        PROVE  Holds(n, x)'
    <3>1. CASE Named(n, target.enums) = {}
      BY <1>7, <2>1, <2>2, <3>1
    <3>2. CASE Named(n, target.enums) # {}
      <4>1. PICK e \in target.enums : e.name = n
        BY <3>2 DEF Named
      <4>2. e \in Named(n, target.enums) /\ (e.db = x \/ Renaming(o, e)')
        BY <1>7, <2>2, <4>1 DEF Named
      <4>3. QED
        BY <2>1, <2>2, <3>2, <4>2
    <3>3. QED
      BY <3>1, <3>2
  <2>3. ASSUME NEW e \in target.enums, e.name = n, e.db = x,
               IF Named(n, old.enums) = {} THEN ~ Pending("CreateEnum", x, {})'
               ELSE \A o \in Named(n, old.enums) : ~ Renaming(o, e)'
        PROVE  \E o \in old.enums : o.name = n /\ o.db = x
    <3>1. Named(n, old.enums) # {}
      BY <1>7, <2>3
    <3>2. PICK o \in old.enums : o.name = n
      BY <3>1 DEF Named
    <3>3. ~ Renaming(o, e)'
      BY <2>3, <3>1, <3>2 DEF Named
    <3>4. QED
      BY <1>7, <2>3, <3>2, <3>3
  <2>4. QED
    BY <2>1, <2>2, <2>3
<1>9. EnumsUnderway'
  <2>1. /\ \A n, x : Holds(n, x)' => x \in DOMAIN db.enums
        /\ \A x \in DOMAIN db.enums : \E n : Holds(n, x)'
    BY <1>4, <1>8 DEF Describes
  <2>2. \A m, n, x : Holds(m, x)' /\ Holds(n, x)' => m = n
    BY <1>6, <1>8 DEF ToldApart
  <2>3. ASSUME NEW e \in target.enums, NEW x, Holds(e.name, x)', NEW v \in e.variants
        PROVE  v.label \in db.enums[x] \/ Pending("AddEnumVariant", e.db, {v.label})'
    <3>1. PICK o \in old.enums : o.name = e.name /\ o.db = x
      BY <1>8, <2>3
    <3>2. QED
      BY <1>4, <1>7, <3>1 DEF Describes
  <2>4. QED
    BY <1>2, <1>6, <2>1, <2>2, <2>3 DEF EnumsUnderway
<1>10. ColumnsUnderway'
  <2> SUFFICES ASSUME NEW tc \in Columns(db) PROVE InOrder(tc)'
    BY <1>2 DEF ColumnsUnderway, InOrder
  <2>1. tc \in Columns(old) /\ tc[1] \in Tables(old)
    BY <1>5 DEF SameShape, IsShape
  <2>2. AsBefore(tc)'
    <3> SUFFICES ASSUME tc \in Columns(target), Altered("PostgreSQL", old, target, tc)
                 PROVE  Pending("AlterColumn", tc[1], {tc[2]})'
      BY <1>2, <2>1 DEF AsBefore, Alters
    <3>1. tc[1] \in Tables(target)
      BY <1>5 DEF IsShape
    <3>2. QED
      BY <1>2, <2>1, <3>1, DiffHasTypeSteps DEF Pending
  <2>3. ASSUME NEW type, type = old.columns[tc].type, NEW x, x = db.columns[tc].type
        PROVE  TypeIs(type, x)'
    BY <1>4, <1>8, <2>3 DEF Describes, TypeIs
  <2>4. /\ db.columns[tc].optional = old.columns[tc].optional
        /\ db.columns[tc].default = Defaulted(old.columns[tc].default)
    BY <1>4 DEF Describes
  <2>5. QED
    BY <1>2, <2>2, <2>3, <2>4 DEF InOrder
<1>11. QED
  BY <1>9, <1>10

LEMMA TypesNext == EnumsDiffer /\ EnumsHaveVariants => (SInv /\ TypesInv /\ [Next]_vars => TypesInv')
<1> SUFFICES ASSUME EnumsDiffer, EnumsHaveVariants, SInv, TypesInv, [Next]_vars, (provider = "PostgreSQL")'
             PROVE  TypesInv'
  BY DEF TypesInv
<1>1. provider' = provider /\ provider = "PostgreSQL"
  BY DEF Next, DevShadow, DevSnapshot, Dev, Execute, Refuse, Discard, vars
<1>2. (EnumsUnderway /\ ColumnsUnderway /\ steps = {} /\ ToldApart(schema.enums) => Conforms(db, schema))'
  BY UnderwayAtTheEnd, PTL
<1>3. ASSUME NEW target \in Schemas, NEW old \in Readings(provider, db) \cup {snapshot}, Dev(target, old)
      PROVE  TypesInv'
  <2> USE <1>3 DEF Dev
  <2>1. Conforms(db, snapshot)
    BY <1>1 DEF TypesInv
  <2>2. EnumsUnderway' /\ ColumnsUnderway'
    BY <1>1, <2>1, DevStartsUnderway
  <2>3. ToldApart(target.enums)
    BY EnumFacts
  <2>4. pc' = "applied" => Conforms(db, schema)'
    BY <1>2, <2>2, <2>3 DEF ToldApart
  <2>5. Conforms(db, snapshot)' /\ Conforms(base, snapshot)'
    BY <2>1 DEF Conforms, Like, Wanted
  <2>6. QED
    BY <2>2, <2>4, <2>5 DEF TypesInv
<1>4. ASSUME NEW s \in steps, Execute(s)
      PROVE  TypesInv'
  <2> USE <1>4 DEF Execute
  <2>1. EnumsUnderway /\ ColumnsUnderway /\ Conforms(base, snapshot)
    BY <1>1 DEF TypesInv
  <2>2. ToldApart(schema.enums)
    BY EnumFacts DEF SInv, ControlInv
  <2>3. EnumsUnderway' /\ ColumnsUnderway'
    BY <1>1, <2>1, <2>2, ExecuteKeepsEnums, ExecuteKeepsColumns
  <2>4. steps' = {} => Conforms(db, schema)'
    BY <1>2, <2>2, <2>3 DEF ToldApart
  <2>5. steps' = {} => Conforms(db, snapshot)'
    BY <2>4 DEF Conforms, Like, Wanted
  <2>6. steps' # {} => Conforms(base, snapshot)' /\ pc' = "apply"
    BY <2>1 DEF Conforms, Like, Wanted
  <2>7. QED
    BY <2>3, <2>4, <2>5, <2>6 DEF TypesInv
<1>5. CASE \E s \in steps : Refuse(s)
  <2>1. Conforms(base, snapshot) /\ pc' = "refused" /\ UNCHANGED <<base, snapshot>>
    BY <1>1, <1>5 DEF Refuse, TypesInv
  <2>2. Conforms(base, snapshot)'
    BY <2>1 DEF Conforms, Like, Wanted
  <2>3. QED
    BY <2>1, <2>2 DEF TypesInv
<1>6. CASE Discard
  <2>1. Conforms(base, snapshot) /\ pc' = "idle" /\ db' = base /\ UNCHANGED snapshot
    BY <1>1, <1>6 DEF Discard, TypesInv
  <2>2. Conforms(db, snapshot)'
    BY <2>1 DEF Conforms, Like, Wanted
  <2>3. QED
    BY <2>1, <2>2 DEF TypesInv
<1>7. CASE UNCHANGED vars
  <2> USE <1>7 DEF vars
  <2>1. /\ Conforms(db, snapshot)' = Conforms(db, snapshot) /\ Conforms(db, schema)' = Conforms(db, schema)
        /\ Conforms(base, snapshot)' = Conforms(base, snapshot)
    BY DEF Conforms, Like, Wanted
  <2>2. \A n, x : Holds(n, x)' = Holds(n, x)
    BY DEF Holds, Renaming, Pending
  <2>3. EnumsUnderway' = EnumsUnderway
    BY <2>2 DEF EnumsUnderway, ToldApart, Pending
  <2>4. \A type, x : TypeIs(type, x)' = TypeIs(type, x)
    BY <2>2 DEF TypeIs
  <2>5. \A tc : AsBefore(tc)' = AsBefore(tc)
    BY DEF AsBefore, Alters, Pending
  <2>6. ColumnsUnderway' = ColumnsUnderway
    BY <2>4, <2>5 DEF ColumnsUnderway, Like, Wanted
  <2>7. QED
    BY <1>1, <2>1, <2>3, <2>6 DEF TypesInv
<1>8. QED
  BY <1>3, <1>4, <1>5, <1>6, <1>7 DEF Next, DevShadow, DevSnapshot

THEOREM SpecTypesInv ==
  ASSUME EnumsDiffer, EnumsHaveVariants, NoneSkipped
  PROVE  Spec => []TypesInv
<1>1. Init => TypesInv
  <2> SUFFICES ASSUME Init PROVE TypesInv
    OBVIOUS
  <2>1. Conforms(EmptyDatabase, Empty)
    BY DEF EmptyDatabase, Empty, Conforms, Columns
  <2>2. QED
    BY <2>1 DEF Init, TypesInv
<1>2. SInv /\ TypesInv /\ [Next]_vars => TypesInv'
  BY TypesNext
<1>3. Spec => []SInv
  BY SpecSInv
<1>4. QED
  BY <1>1, <1>2, <1>3, PTL DEF Spec

-----------------------------------------------------------------------------
(* A migration delivers the schema. *)

\* A column that agrees in all but being unique agrees when that is set.
LEMMA LikeButUnique ==
  ASSUME NEW have, DOMAIN have = {"type", "optional", "default", "unique"}, NEW s, NEW tc,
         Like(have, Wanted(s, tc))
  PROVE  [have EXCEPT !.unique = Wanted(s, tc).unique] = Wanted(s, tc)
<1> DEFINE want == Wanted(s, tc)
<1>1. want = [type |-> want.type, optional |-> want.optional, default |-> want.default, unique |-> want.unique]
  BY DEF Wanted, Rendered
<1> HIDE DEF want
<1>2. [have EXCEPT !.unique = want.unique] = want
  BY <1>1 DEF Like, want
<1>3. QED
  BY <1>2 DEF want

\* Delivers on PostgreSQL: an applied migration leaves the tables, columns,
\* types, defaults, keys, foreign keys, constraints, indexes and enums of the
\* schema (diff_schemas, sort_steps, postgres.rs).
THEOREM PostgresDelivers ==
  ASSUME Resolved, EnumsDiffer, EnumsHaveVariants, NoneSkipped
  PROVE  Spec => [](provider = "PostgreSQL" => Delivers)
<1> DEFINE I == SInv /\ UniquesInv /\ IndexesInv /\ KeysInv /\ ForeignKeysInv /\ TypesInv
<1>1. I => (provider = "PostgreSQL" => Delivers)
  <2> SUFFICES ASSUME I, provider = "PostgreSQL", pc = "applied"
               PROVE  Delivers
    BY DEF Delivers
  <2>1. /\ SameShape(db, schema) /\ schema.uniques \subseteq db.uniques
        /\ IsDatabase(db) /\ schema \in Schemas \cup {Empty}
    BY DEF SInv, TablesInv, UniquesInv, DatabaseInv, ControlInv
  <2>2. schema.indexes \subseteq KeysOf(db)
    BY DEF IndexesInv, Indexed, KeysOf
  <2>3. Conforms(db, schema)
    BY DEF TypesInv
  <2>4. ASSUME NEW tc \in Columns(schema)
        PROVE  LET want == Rendered(provider, schema.columns[tc], schema.enums)
                   type == IF db.columns[tc].type \in UnseenEnums THEN db.columns[tc].type ELSE want.type
               IN [db.columns[tc] EXCEPT !.unique = want.unique] = [want EXCEPT !.type = type]
    <3> DEFINE want == Wanted(schema, tc)
    <3>1. tc \in Columns(db) /\ Like(db.columns[tc], want)
      BY <2>1, <2>3 DEF SameShape, Conforms
    <3>2. DOMAIN db.columns[tc] = {"type", "optional", "default", "unique"}
      BY <2>1, <3>1 DEF IsDatabase
    <3>3. [db.columns[tc] EXCEPT !.unique = want.unique] = want
      BY <3>1, <3>2, LikeButUnique
    <3>4. db.columns[tc].type = want.type
      BY <3>1 DEF Like
    <3>5. [want EXCEPT !.type = want.type] = want
      BY DEF Wanted, Rendered
    <3>6. want = Rendered(provider, schema.columns[tc], schema.enums)
      BY DEF Wanted
    <3> HIDE DEF want
    <3>7. QED
      BY <3>3, <3>4, <3>5, <3>6
  <2>5. \A t \in Tables(schema) : db.keys[t] = schema.keys[t]
    BY <2>1 DEF SameShape, KeysInv, SameKeys
  <2>6. \A e \in schema.enums : e.db \in DOMAIN db.enums /\ {v.label : v \in e.variants} \subseteq db.enums[e.db]
    BY <2>3 DEF Conforms
  <2>7. schema.fks \subseteq db.fks /\ db.fks \ schema.fks \subseteq UnseenForeignKeys
    BY DEF ForeignKeysInv, UnseenForeignKeys, ForeignKeys
  <2>8. QED
    BY <2>1, <2>2, <2>4, <2>5, <2>6, <2>7 DEF Delivers, SameShape
<1> HIDE DEF I
<1>2. Spec => []SInv /\ []UniquesInv /\ []IndexesInv /\ []KeysInv /\ []ForeignKeysInv /\ []TypesInv
  BY SpecSInv, SpecUniquesInv, SpecIndexesInv, SpecKeysInv, SpecForeignKeysInv, SpecTypesInv
<1>3. SInv /\ UniquesInv /\ IndexesInv /\ KeysInv /\ ForeignKeysInv /\ TypesInv => I
  BY DEF I
<1>4. QED
  BY <1>1, <1>2, <1>3, PTL

-----------------------------------------------------------------------------
(* What is refused. *)

\* The types of the schema are there when the enums are done.
LEMMA TypesAreThere ==
  ASSUME SInv, EnumsUnderway, ToldApart(schema.enums), \A r \in steps : r.op \notin EnumOps,
         provider = "PostgreSQL", NEW tc \in Columns(schema)
  PROVE  TypeExists(Rendered(provider, schema.columns[tc], schema.enums).type)
<1> DEFINE type == schema.columns[tc].type
           n == type.of
           chosen == CHOOSE e \in schema.enums : e.name = n
<1>1. schema \in Schemas
  BY DEF SInv, ControlInv, Empty, Columns
<1>2. IF type.kind = "scalar" THEN n \in {"String", "Int", "Boolean"} ELSE Named(n, schema.enums) # {}
  BY <1>1, SchemaAssumption DEF WellFormed
<1>3. Rendered(provider, schema.columns[tc], schema.enums).type = SqlType("PostgreSQL", type, schema.enums)
  BY DEF Rendered
<1> HIDE DEF type
<1>4. CASE type.kind = "scalar"
  BY <1>2, <1>3, <1>4 DEF SqlType, ScalarSql, TypeExists, Scalars
<1>5. CASE type.kind # "scalar"
  <2>1. \E e \in schema.enums : e.name = n
    BY <1>2, <1>5 DEF Named
  <2>2. SqlType("PostgreSQL", type, schema.enums) = chosen.db
    BY <1>5, <2>1 DEF SqlType
  <2>3. chosen \in schema.enums /\ chosen.name = n
    BY <2>1
  <2>4. Holds(n, chosen.db)
    BY <2>3, HoldsAtTheEnd
  <2>5. chosen.db \in DOMAIN db.enums
    BY <2>4 DEF EnumsUnderway
  <2>6. QED
    BY <1>3, <2>2, <2>5 DEF TypeExists
<1>6. QED
  BY <1>4, <1>5

\* A rename finds its enum, and another of the new name only if that is still
\* to be renamed; a variant finds its enum.
LEMMA RefusedEnums ==
  ASSUME SInv, EnumsUnderway, ToldApart(schema.enums), provider = "PostgreSQL", NEW s, Ready(s), Refuses(s),
         s.op \in EnumOps
  PROVE  Present(s) \/ Unsupported(s)
<1>1. /\ s \in Diff(provider, from, schema) /\ RefusedByPostgres(s) /\ MigrationInv
      /\ s \in steps /\ \A r \in steps : ~ Precedes(r, s, migration)
  BY DEF Ready, Refuses, SInv, MigrationInv
<1>2. ToldApart(from.enums) /\ \A n, x : Holds(n, x) => x \in DOMAIN db.enums
  BY DEF EnumsUnderway
<1>3. CASE s.op = "CreateEnum"
  BY <1>1, <1>3 DEF RefusedByPostgres, Present
<1>4. CASE s.op = "DropEnum"
  BY <1>4 DEF Unsupported
<1>5. CASE s.op = "AlterEnumName"
  <2>1. PICK o \in from.enums, e \in schema.enums :
          s = Step("AlterEnumName", o.db, {}, e.db) /\ o.name = e.name /\ o.db # e.db
    BY <1>1, <1>5, StepsOfDiff DEF RenamesEnum
  <2>2. s.on = o.db /\ s.ref = e.db
    BY <2>1, Fields
  <2>3. Holds(o.name, o.db)
    BY <1>1, <2>1 DEF Holds, Renaming, Named
  <2>4. e.db \in DOMAIN db.enums
    BY <1>1, <1>2, <1>5, <2>2, <2>3 DEF RefusedByPostgres
  <2>5. PICK n : Holds(n, e.db)
    BY <2>4 DEF EnumsUnderway
  <2>6. \A f \in schema.enums : f.db = e.db => f.name = e.name
    BY DEF ToldApart
  <2>7. ~ \E f \in schema.enums :
            /\ f.name = n /\ f.db = e.db
            /\ IF Named(n, from.enums) = {} THEN ~ Pending("CreateEnum", e.db, {})
               ELSE \A p \in Named(n, from.enums) : ~ Renaming(p, f)
    <3> SUFFICES ASSUME NEW f \in schema.enums, f.name = n, f.db = e.db,
                        IF Named(n, from.enums) = {} THEN ~ Pending("CreateEnum", e.db, {})
                        ELSE \A p \in Named(n, from.enums) : ~ Renaming(p, f)
                 PROVE  FALSE
      OBVIOUS
    <3>1. o \in Named(n, from.enums)
      BY <2>1, <2>6 DEF Named
    <3>2. Renaming(o, f)
      BY <1>1, <2>1 DEF Renaming
    <3>3. QED
      BY <3>1, <3>2
  <2>8. PICK p \in from.enums :
          /\ p.name = n /\ p.db = e.db
          /\ IF Named(n, schema.enums) = {} THEN Pending("DropEnum", e.db, {})
             ELSE \E f \in Named(n, schema.enums) : f.db = e.db \/ Renaming(p, f)
    BY <2>5, <2>7 DEF Holds
  <2>9. ~ Pending("DropEnum", e.db, {})
    <3> DEFINE r == Step("DropEnum", e.db, {}, "none")
    <3>1. r.op = "DropEnum"
      BY Fields
    <3> HIDE DEF r
    <3>2. Place(r, migration) = 2 /\ Place(s, migration) = 3
      BY <1>5, <3>1 DEF Place
    <3>3. Precedes(r, s, migration)
      BY <3>2 DEF Precedes
    <3>4. r \notin steps
      BY <1>1, <3>3
    <3>5. QED
      BY <3>4 DEF Pending, r
  <2>10. PICK f \in Named(n, schema.enums) : f.db = e.db \/ Renaming(p, f)
    BY <2>8, <2>9
  <2>11. f \in schema.enums /\ f.name = n
    BY <2>10 DEF Named
  <2>12. f.db # e.db
    <3> SUFFICES ASSUME f.db = e.db PROVE FALSE
      OBVIOUS
    <3>1. n = o.name
      BY <2>1, <2>6, <2>11
    <3>2. p = o
      BY <1>2, <2>8, <3>1 DEF ToldApart
    <3>3. QED
      BY <2>1, <2>8, <3>2
  <2>13. Step("AlterEnumName", p.db, {}, f.db) \in steps
    BY <2>10, <2>12 DEF Renaming
  <2>14. \E r \in steps : r.op = "AlterEnumName" /\ r.on = s.ref
    BY <2>2, <2>8, <2>13, Fields
  <2>15. QED
    BY <1>5, <2>14 DEF Unsupported
<1>6. CASE s.op = "AddEnumVariant"
  <2>1. PICK o \in from.enums, e \in schema.enums :
          /\ o.name = e.name
          /\ \E v \in e.variants \ o.variants : s = Step("AddEnumVariant", e.db, {v.label}, "none")
    BY <1>1, <1>6, StepsOfDiff DEF AddsVariant
  <2>2. s.on = e.db
    BY <2>1, Fields
  <2>3. ASSUME NEW p
        PROVE  ~ Renaming(p, e)
    <3>1. Precedes(Step("AlterEnumName", p.db, {}, e.db), s, migration)
      BY <1>6, <2>2, RenamesFirst
    <3>2. QED
      BY <1>1, <3>1 DEF Renaming
  <2>4. Named(e.name, from.enums) # {}
    BY <2>1 DEF Named
  <2>5. Holds(e.name, e.db)
    BY <2>3, <2>4 DEF Holds
  <2>6. QED
    BY <1>1, <1>2, <1>6, <2>2, <2>5 DEF RefusedByPostgres, Present
<1>7. QED
  BY <1>3, <1>4, <1>5, <1>6 DEF EnumOps

\* A foreign key finds its column, the key it refers to, and none of its name
\* but one that was not read.
LEMMA ForeignKeysFit ==
  ASSUME Resolved, SinglyKeyed, SInv, KeysInv, ForeignKeysInv, provider = "PostgreSQL", pc = "apply",
         NEW s, Ready(s), Refuses(s), s.op = "AddForeignKey"
  PROVE  Present(s)
<1>1. /\ s \in Diff(provider, from, schema) /\ MigrationInv /\ Underway /\ IsShape(from)
      /\ s \in steps /\ \A r \in steps : ~ Precedes(r, s, migration)
      /\ schema \in Schemas \cup {Empty} /\ ForeignKeysUnderway
  BY DEF Ready, SInv, MigrationInv, TablesInv, ControlInv, ForeignKeysInv
<1>2. IsShape(schema) /\ ForeignKeys(schema) = schema.fks
  BY <1>1, SchemaIsShape, SchemaFacts
<1>3. PICK fk : /\ s.on = fk.table /\ s.what = {fk.column} /\ s.ref = fk.ref
                /\ fk \in schema.fks \ from.fks
  <2>1. PICK fk : /\ s.on = fk.table /\ s.what = {fk.column} /\ s.ref = fk.ref
                  /\ fk \in ForeignKeys(schema) \ ForeignKeys(from)
    BY <1>1, ForeignKeyOf
  <2>2. QED
    BY <1>1, <1>2, <2>1 DEF ForeignKeysUnderway
<1>4. InPlace(s)
  BY ReadyIsInPlace
<1>5. s.on \in Tables(db) /\ s.ref \in Tables(db)
  BY <1>4 DEF InPlace
<1>6. StepColumns(s) \subseteq Columns(db)
  <2> DEFINE tc == <<fk.table, fk.column>>
  <2>1. tc \in Columns(schema) /\ tc[1] = s.on
    BY <1>1, <1>3, ResolvedFacts
  <2>2. \A op \in {"AddColumn", "CreateTable"} : \A t, cs : ~ Pending(op, t, cs)
    <3> SUFFICES ASSUME NEW op \in {"AddColumn", "CreateTable"}, NEW t, NEW cs, Pending(op, t, cs)
                 PROVE  FALSE
      OBVIOUS
    <3> DEFINE r == Step(op, t, cs, "none")
    <3>1. r.op = op
      BY Fields
    <3> HIDE DEF r
    <3>2. Precedes(r, s, migration)
      BY <3>1, Order
    <3>3. QED
      BY <1>1, <3>2 DEF Pending, r
  <2> HIDE DEF tc
  <2>3. HasColumn(tc)
    BY <2>1, <2>2 DEF HasColumn
  <2>4. tc \in Columns(db)
    BY <1>1, <2>3 DEF Underway
  <2>5. StepColumns(s) = {tc}
    BY <1>3 DEF StepColumns, tc
  <2>6. QED
    BY <2>4, <2>5
<1>7. Len(db.keys[s.ref]) = 1
  <2>1. schema \in Schemas /\ s.ref \in Tables(schema)
    BY <1>1, <1>3, SchemaFacts DEF Empty
  <2>2. ~ Pending("AlterPrimaryKey", s.ref, {})
    <3> DEFINE r == Step("AlterPrimaryKey", s.ref, {}, "none")
    <3>1. r.op = "AlterPrimaryKey"
      BY Fields
    <3> HIDE DEF r
    <3>2. Place(r, migration) = 5 /\ Place(s, migration) = 11
      BY <3>1, PlaceOf
    <3>3. Precedes(r, s, migration)
      BY <3>2 DEF Precedes
    <3>4. QED
      BY <1>1, <3>3 DEF Pending, r
  <2>3. db.keys[s.ref] = schema.keys[s.ref]
    BY <1>5, <2>1, <2>2 DEF KeysInv
  <2>4. QED
    BY <1>3, <2>1, <2>3 DEF SinglyKeyed
<1>8. ASSUME NEW f \in db.fks, f.table = s.on, s.what = {f.column}, f.ref = s.ref
      PROVE  f \in UnseenForeignKeys
  <2> SUFFICES ASSUME f \notin base.fks \ from.fks PROVE FALSE
    BY DEF UnseenForeignKeys, ForeignKeys
  <2>1. f.column = fk.column
    <3>1. f.column \in {fk.column}
      BY <1>3, <1>8
    <3>2. QED
      BY <3>1
  <2>2. f \in schema.fks
    <3> SUFFICES ASSUME DropsIt(f) \in steps PROVE FALSE
      BY <1>1 DEF ForeignKeysUnderway
    <3>1. DropsIt(f).op = "DropForeignKey"
      BY Fields DEF DropsIt
    <3>2. Precedes(DropsIt(f), s, migration)
      BY <3>1, Order
    <3>3. QED
      BY <1>1, <3>2
  <2>3. f = fk
    BY <1>1, <1>3, <1>8, <2>1, <2>2, ResolvedFacts
  <2>4. Adds(fk) \in migration \ steps
    BY <1>1, <1>3, <2>3 DEF ForeignKeysUnderway
  <2> DEFINE cs == {fk.column}
  <2>5. Adds(fk) = Step("AddForeignKey", fk.table, cs, fk.ref) /\ s.what = cs
    BY <1>3 DEF Adds
  <2> HIDE DEF cs
  <2>6. s = Adds(fk)
    BY <1>1, <1>3, <2>5, SameStep
  <2>7. QED
    BY <1>1, <2>4, <2>6
<1>9. \E f \in db.fks : f.table = s.on /\ s.what = {f.column} /\ f.ref = s.ref
  BY <1>5, <1>6, <1>7 DEF Refuses, RefusedByPostgres, Missing
<1>10. QED
  BY <1>8, <1>9 DEF Present

\* Nor is a step on a table or a column refused, but for one of the changes
\* that the renderer has no order for.
LEMMA TypesFit ==
  ASSUME SInv, EnumsUnderway, ToldApart(schema.enums), provider = "PostgreSQL", NEW s, Ready(s),
         s.op \in ColumnOps \cup {"CreateTable"}
  PROVE  \A type \in TypesOf(s) : TypeExists(type)
<1>1. \A r \in steps : r.op \notin EnumOps
  BY EnumsFirst DEF Ready
<1>2. \A tc \in Columns(schema) : TypeExists(Rendered(provider, schema.columns[tc], schema.enums).type)
  BY <1>1, TypesAreThere
<1>3. QED
  BY <1>2 DEF TypesOf

LEMMA RefusedTables ==
  ASSUME SInv, EnumsUnderway, ToldApart(schema.enums), provider = "PostgreSQL", pc = "apply",
         NEW s, Ready(s), Refuses(s), s.op \in ColumnOps \cup {"CreateTable", "AlterPrimaryKey"}
  PROVE  Unsupported(s)
<1>1. /\ s \in Diff(provider, from, schema) /\ InPlace(s) /\ RefusedByPostgres(s) /\ IsShape(from)
      /\ IsShape(schema)
  BY ReadyIsInPlace, SchemaIsShape DEF Ready, SInv, MigrationInv, TablesInv, ControlInv, Refuses
<1>2. s.op \in ColumnOps \cup {"CreateTable"} => \A type \in TypesOf(s) : TypeExists(type)
  BY TypesFit
<1>3. CASE s.op = "CreateTable"
  BY <1>1, <1>2, <1>3 DEF RefusedByPostgres, InPlace
<1>4. CASE s.op = "AddColumn"
  <2>1. PICK tc : s.on = tc[1] /\ s.what = {tc[2]}
    BY <1>1, <1>4, ColumnOf DEF ColumnOps
  <2>2. <<s.on, tc[2]>> \in StepColumns(s)
    BY <2>1 DEF StepColumns
  <2>3. s.on \in Tables(db) /\ StepColumns(s) \cap Columns(db) = {}
    BY <1>1, <1>4 DEF InPlace, ColumnOps
  <2>4. ~ StepColumns(s) \subseteq Columns(db)
    BY <2>2, <2>3
  <2>5. QED
    BY <1>1, <1>2, <1>4, <2>3, <2>4 DEF RefusedByPostgres, ColumnOps
<1>5. CASE s.op = "DropColumn"
  <2>1. ~ Missing(s)
    BY <1>1, <1>5 DEF InPlace, ColumnOps, Missing
  <2>2. ReferencedBy(s.on) # {}
    BY <1>1, <1>5, <2>1 DEF RefusedByPostgres
  <2>3. QED
    BY <1>5, <2>2 DEF Unsupported
<1>6. CASE s.op = "AlterColumn"
  <2>1. ~ Missing(s)
    BY <1>1, <1>6 DEF InPlace, ColumnOps, Missing
  <2>2. QED
    BY <1>1, <1>2, <1>6, <2>1 DEF RefusedByPostgres, ColumnOps
<1>7. CASE s.op = "AlterPrimaryKey"
  <2>1. PICK t \in Tables(from) : s = Step("AlterPrimaryKey", t, {}, "none")
    BY <1>1, <1>7, StepsOfDiff DEF Rekeys
  <2>2. StepColumns(s) = {}
    BY <2>1, Fields DEF StepColumns
  <2>3. ~ Missing(s)
    BY <1>1, <1>7, <2>2 DEF InPlace, Missing
  <2>4. ReferencedBy(s.on) # {}
    BY <1>1, <1>7, <2>3 DEF RefusedByPostgres
  <2>5. QED
    BY <1>7, <2>4 DEF Unsupported
<1>8. QED
  BY <1>3, <1>4, <1>5, <1>6, <1>7 DEF ColumnOps

\* A foreign key is dropped too late only when its table is gone, an index or
\* a constraint is created again only when it is there.
LEMMA RefusedKeys ==
  ASSUME SInv, provider = "PostgreSQL", pc = "apply", NEW s, Ready(s), Refuses(s),
         s.op \in {"DropTable", "DropForeignKey", "CreateIndex", "AddUnique", "DropUnique"}
  PROVE  Present(s) \/ Unsupported(s)
<1>1. /\ s \in Diff(provider, from, schema) /\ InPlace(s) /\ RefusedByPostgres(s) /\ IsShape(from)
      /\ migration = Diff(provider, from, schema) /\ Underway
  BY ReadyIsInPlace DEF Ready, SInv, MigrationInv, TablesInv, Refuses
<1>2. CASE s.op = "DropTable"
  BY <1>1, <1>2 DEF RefusedByPostgres
<1>3. CASE s.op = "DropForeignKey"
  <2>1. PICK fk \in ForeignKeys(from) : s.on = fk.table
    BY <1>1, <1>3, ForeignKeyOf
  <2>2. s.on \in Tables(from)
    BY <1>1, <2>1 DEF IsShape, ForeignKeys
  <2>3. s.on \notin Tables(db)
    BY <1>1, <1>3 DEF RefusedByPostgres
  <2>4. s.on \notin Tables(schema)
    BY <1>1, <2>2, <2>3 DEF Underway, HasTable
  <2>5. Step("DropTable", s.on, {}, "none") \in migration
    BY <1>1, <2>2, <2>4, DiffHasSteps
  <2>6. \E r \in migration : r.op = "DropTable" /\ r.on = s.on
    BY <2>5, Fields
  <2>7. QED
    BY <1>3, <2>6 DEF Unsupported
<1>4. CASE s.op \in {"CreateIndex", "AddUnique"}
  <2>1. ~ Missing(s)
    BY <1>1, <1>4 DEF InPlace, Missing
  <2>2. QED
    BY <1>1, <1>4, <2>1 DEF RefusedByPostgres, Present
<1>5. CASE s.op = "DropUnique"
  <2>1. PICK k : s.on = k.table /\ k \in from.uniques /\ k.table \in Tables(schema)
    BY <1>1, <1>5, KeyOf
  <2>2. s.on \in Tables(from) \cap Tables(schema)
    BY <1>1, <2>1 DEF IsShape, KeysOf
  <2>3. s.on \in Tables(db)
    BY <1>1, <2>2 DEF Underway, HasTable
  <2>4. QED
    BY <1>1, <1>5, <2>3 DEF RefusedByPostgres
<1>6. QED
  BY <1>2, <1>3, <1>4, <1>5

\* RefusalsHaveACause on PostgreSQL: the enums, columns, keys and foreign keys
\* that a statement needs are there, and what it creates is not; but for the
\* drops and changes that Unsupported lists, and for what the diff did not see
\* (sort_steps, postgres.rs).
THEOREM PostgresRefusesForACause ==
  ASSUME Resolved, SinglyKeyed, EnumsDiffer, EnumsHaveVariants, NoneSkipped
  PROVE  Spec => [](provider = "PostgreSQL" => RefusalsHaveACause)
<1>1. SInv /\ KeysInv /\ ForeignKeysInv /\ TypesInv => (provider = "PostgreSQL" => RefusalsHaveACause)
  <2> SUFFICES ASSUME SInv, KeysInv, ForeignKeysInv, TypesInv, provider = "PostgreSQL", pc = "apply",
                      NEW s \in steps, Ready(s), Refuses(s)
               PROVE  Present(s) \/ Unsupported(s)
    BY DEF RefusalsHaveACause
  <2>1. EnumsUnderway
    BY DEF TypesInv
  <2>2. ToldApart(schema.enums)
    BY EnumFacts DEF SInv, ControlInv
  <2>3. s.op \in Ops
    BY StepIsRecord DEF Ready, SInv, MigrationInv
  <2>4. CASE s.op \in EnumOps
    BY <2>1, <2>2, <2>4, RefusedEnums
  <2>5. CASE s.op \in ColumnOps \cup {"CreateTable", "AlterPrimaryKey"}
    BY <2>1, <2>2, <2>5, RefusedTables
  <2>6. CASE s.op = "AddForeignKey"
    BY <2>6, ForeignKeysFit
  <2>7. CASE s.op \in {"DropTable", "DropForeignKey", "CreateIndex", "AddUnique", "DropUnique"}
    BY <2>7, RefusedKeys
  <2>8. QED
    BY <2>3, <2>4, <2>5, <2>6, <2>7 DEF Ops
<1>2. Spec => []SInv /\ []KeysInv /\ []ForeignKeysInv /\ []TypesInv
  BY SpecSInv, SpecKeysInv, SpecForeignKeysInv, SpecTypesInv
<1>3. QED
  BY <1>1, <1>2, PTL

-----------------------------------------------------------------------------
(* What the next diff finds. *)

\* What PostgreSQL reads back of a column is rendered as it was, but for a
\* sequence.
LEMMA PostgresReadsBack ==
  ASSUME EnumsDiffer, EnumsHaveVariants, NamesReadBack, NEW s \in Schemas, NEW tc \in Columns(s), NEW d, tc \in Columns(d),
         Conforms(d, s), s.columns[tc].default # "autoincrement",
         NEW old, NEW U, old.columns = ReadColumns("PostgreSQL", d, U), tc \in Columns(old)
  PROVE  ~ Altered("PostgreSQL", old, s, tc)
<1> DEFINE def == s.columns[tc]
           got == d.columns[tc]
           back == old.columns[tc]
<1>1. /\ IF def.type.kind = "scalar" THEN def.type.of \in {"String", "Int", "Boolean"}
         ELSE Named(def.type.of, s.enums) # {}
      /\ def.default # "empty"
  BY SchemaAssumption DEF WellFormed
<1>2. /\ back.type = ReadType(d, got.type) /\ back.optional = got.optional
      /\ back.default = ParsePgDefault(got.default)
  BY DEF ReadColumns, Columns
<1>3. /\ got.type = SqlType("PostgreSQL", def.type, s.enums) /\ got.optional = def.optional
      /\ got.default = IF DefaultSql("PostgreSQL", def.default) = "empty" THEN "none"
                       ELSE DefaultSql("PostgreSQL", def.default)
  <2>1. Like(got, Wanted(s, tc))
    BY DEF Conforms
  <2>2. QED
    BY <2>1 DEF Like, Wanted, Rendered
<1>4. DOMAIN d.enums = {e.db : e \in s.enums} /\ ToldApart(s.enums) /\ Labelled(d) = DOMAIN d.enums
  BY EnumFacts, AllLabelled DEF Conforms
<1>5. def.default # "autoincrement"
  OBVIOUS
<1> HIDE DEF def, got, back
<1>6. SqlType("PostgreSQL", back.type, s.enums) = got.type
  <2>1. CASE def.type.kind = "scalar"
    <3>1. got.type = ScalarSql("PostgreSQL", def.type.of)
      BY <1>3, <2>1 DEF SqlType
    <3>2. got.type \in {"TEXT", "INTEGER", "BOOLEAN"}
      BY <1>1, <2>1, <3>1 DEF ScalarSql
    <3>3. got.type \notin DOMAIN d.enums
      BY <1>4, <3>2 DEF ToldApart, Scalars
    <3> DEFINE scalar == CASE got.type = "TEXT" -> "String" [] got.type = "INTEGER" -> "Int"
                           [] got.type = "BOOLEAN" -> "Boolean"
    <3>4. back.type = [kind |-> "scalar", of |-> scalar]
      BY <1>2, <1>4, <3>2, <3>3 DEF ReadType
    <3>5. ScalarSql("PostgreSQL", scalar) = got.type
      BY <3>2 DEF ScalarSql
    <3> HIDE DEF scalar
    <3>6. QED
      BY <3>4, <3>5 DEF SqlType
  <2>2. CASE def.type.kind # "scalar"
    <3> DEFINE chosen == CHOOSE e \in s.enums : e.name = def.type.of
    <3>1. \E e \in s.enums : e.name = def.type.of
      BY <1>1, <2>2 DEF Named
    <3>2. chosen \in s.enums
      BY <3>1
    <3>3. got.type = chosen.db
      BY <1>3, <2>2, <3>1 DEF SqlType
    <3> HIDE DEF chosen
    <3>4. back.type.kind = "enum" /\ back.type.of = Pascal[chosen.db]
      BY <1>2, <1>4, <3>2, <3>3 DEF ReadType
    <3>5. CASE \E e \in s.enums : e.name = back.type.of
      <4> DEFINE found == CHOOSE e \in s.enums : e.name = back.type.of
      <4>1. found \in s.enums /\ found.name = back.type.of
        BY <3>5
      <4>2. SqlType("PostgreSQL", back.type, s.enums) = found.db
        BY <3>4, <3>5 DEF SqlType
      <4> HIDE DEF found
      <4>3. found = chosen
        BY <3>2, <3>4, <4>1 DEF NamesReadBack
      <4>4. QED
        BY <3>3, <4>2, <4>3
    <3>6. CASE ~ \E e \in s.enums : e.name = back.type.of
      <4>1. SqlType("PostgreSQL", back.type, s.enums) = Snake[Pascal[chosen.db]]
        BY <3>4, <3>6 DEF SqlType
      <4>2. QED
        BY <3>2, <3>3, <4>1 DEF NamesReadBack
    <3>7. QED
      BY <3>5, <3>6
  <2>3. QED
    BY <2>1, <2>2
<1>7. DefaultSql("PostgreSQL", back.default) = DefaultSql("PostgreSQL", def.default)
  <2>1. got.default = IF def.default = "uuid()" THEN "gen_random_uuid()" ELSE def.default
    BY <1>1, <1>3, <1>5 DEF DefaultSql
  <2>2. back.default = IF got.default = "gen_random_uuid()" THEN "uuid()" ELSE got.default
    BY <1>2 DEF ParsePgDefault
  <2>3. QED
    BY <1>5, <2>1, <2>2 DEF DefaultSql
<1>8. QED
  BY <1>2, <1>3, <1>6, <1>7 DEF Altered, back, def

\* An enum that was read back is one of the schema, under the name that its
\* type leads to, and with the labels of the schema.
LEMMA EnumsReadBack ==
  ASSUME NEW s, NEW d, Conforms(d, s), NEW o \in IntrospectEnums(d)
  PROVE  \E e \in s.enums :
           /\ o.db = e.db /\ o.name = Pascal[e.db]
           /\ \A v \in e.variants : [label |-> v.label, compound |-> FALSE] \in o.variants
<1>1. PICK x \in Labelled(d) :
        o = [name |-> Pascal[x], db |-> x,
             variants |-> {[label |-> l, compound |-> FALSE] : l \in d.enums[x]}]
  BY DEF IntrospectEnums
<1>2. PICK e \in s.enums : x = e.db
  BY DEF Conforms, Labelled
<1>3. \A v \in e.variants : v.label \in d.enums[e.db]
  BY DEF Conforms
<1>4. QED
  BY <1>1, <1>2, <1>3

\* What is found of enums is what introspection does not read back.
LEMMA EnumsSettle ==
  ASSUME EnumsDiffer, EnumsHaveVariants, NamesReadBack, schema \in Schemas \cup {Empty}, Conforms(db, schema),
         NEW p, NEW old, old.enums = IntrospectEnums(db), NEW s \in Diff(p, old, schema), s.op \in EnumOps
  PROVE  Unreadable(s)
<1>1. \A e \in schema.enums : schema \in Schemas
  BY DEF Empty
<1>2. CASE s.op = "CreateEnum"
  <2>1. PICK e \in schema.enums : s = Step("CreateEnum", e.db, {}, "none") /\ Named(e.name, old.enums) = {}
    BY <1>2, StepsOfDiff DEF CreatesEnum
  <2>2. e.db \in Labelled(db)
    BY AllLabelled DEF Conforms
  <2>3. \E o \in old.enums : o.name = Pascal[e.db]
    <3> DEFINE labels == {[label |-> l, compound |-> FALSE] : l \in db.enums[e.db]}
               o == [name |-> Pascal[e.db], db |-> e.db, variants |-> labels]
    <3>1. o \in old.enums
      BY <2>2 DEF IntrospectEnums
    <3>2. o.name = Pascal[e.db]
      OBVIOUS
    <3> HIDE DEF o
    <3>3. QED
      BY <3>1, <3>2
  <2>4. Pascal[e.db] # e.name
    BY <2>1, <2>3 DEF Named
  <2>5. e \in Definitions(s)
    BY <2>1, Fields DEF Definitions
  <2>6. QED
    BY <1>2, <2>4, <2>5 DEF Unreadable
<1>3. CASE s.op = "DropEnum"
  <2>1. PICK o \in old.enums : s = Step("DropEnum", o.db, {}, "none") /\ Named(o.name, schema.enums) = {}
    BY <1>3, StepsOfDiff DEF DropsEnum
  <2>2. PICK e \in schema.enums : o.db = e.db /\ o.name = Pascal[e.db]
    BY <2>1, EnumsReadBack
  <2>3. Pascal[e.db] # e.name
    BY <2>1, <2>2 DEF Named
  <2>4. e \in Definitions(s)
    BY <2>1, <2>2, Fields DEF Definitions
  <2>5. QED
    BY <1>3, <2>3, <2>4 DEF Unreadable
<1>4. CASE s.op = "AlterEnumName"
  <2>1. PICK o \in old.enums, e \in schema.enums : o.name = e.name /\ o.db # e.db
    BY <1>4, StepsOfDiff DEF RenamesEnum
  <2>2. PICK f \in schema.enums : o.db = f.db /\ o.name = Pascal[f.db]
    BY <2>1, EnumsReadBack
  <2>3. e = f
    BY <1>1, <2>1, <2>2 DEF NamesReadBack
  <2>4. QED
    BY <2>1, <2>2, <2>3
<1>5. CASE s.op = "AddEnumVariant"
  <2>1. PICK o \in old.enums, e \in schema.enums :
          /\ o.name = e.name
          /\ \E v \in e.variants \ o.variants : s = Step("AddEnumVariant", e.db, {v.label}, "none")
    <3>1. AddsVariant(s, old, schema)
      BY <1>5, StepsOfDiff
    <3>2. QED
      BY <3>1, Zenon DEF AddsVariant
  <2>2. PICK v \in e.variants \ o.variants : s = Step("AddEnumVariant", e.db, {v.label}, "none")
    BY <2>1
  <2>3. PICK f \in schema.enums :
          /\ o.db = f.db /\ o.name = Pascal[f.db]
          /\ \A w \in f.variants : [label |-> w.label, compound |-> FALSE] \in o.variants
    BY <2>1, EnumsReadBack
  <2>4. e = f
    BY <1>1, <2>1, <2>3 DEF NamesReadBack
  <2>5. v = [label |-> v.label, compound |-> v.compound] /\ v.compound \in BOOLEAN
    BY <1>1, <2>1, <2>2, SchemaAssumption DEF WellFormed
  <2>6. v.compound # FALSE
    BY <2>2, <2>3, <2>4, <2>5
  <2>7. v.compound
    BY <2>5, <2>6
  <2>8. e \in Definitions(s) /\ s.what = {v.label}
    BY <2>1, <2>2, Fields DEF Definitions
  <2>9. v \in UNION {d.variants : d \in Definitions(s)}
    BY <2>2, <2>8
  <2>10. QED
    BY <1>5, <2>7, <2>8, <2>9 DEF Unreadable
<1>6. QED
  BY <1>2, <1>3, <1>4, <1>5 DEF EnumOps

\* Settles on PostgreSQL: what the next diff with the shadow database finds is
\* a sequence, a constraint, a variant of two words, an enum whose type has
\* another name, or a foreign key that shares its column (introspect_postgres,
\* diff_schemas).
THEOREM PostgresSettles ==
  ASSUME Resolved, EnumsDiffer, NamesReadBack, EnumsHaveVariants, NoneSkipped
  PROVE  Spec => [](provider = "PostgreSQL" => Settles)
<1>1. SInv /\ IndexesInv /\ KeysInv /\ ForeignKeysInv /\ TypesInv => (provider = "PostgreSQL" => Settles)
  <2> SUFFICES ASSUME SInv, IndexesInv, KeysInv, ForeignKeysInv, TypesInv,
                      provider = "PostgreSQL", pc = "applied",
                      NEW old \in Readings(provider, db), NEW s \in Diff("PostgreSQL", old, schema)
               PROVE  Unreadable(s) \/ Outstanding(s)
    BY DEF Settles
  <2>1. /\ SameShape(db, old) /\ old.fks \in FirstOfEach(db.fks) /\ old.fks \subseteq db.fks
        /\ old.uniques = {} /\ old.indexes = KeysOf(db)
        /\ \A t \in Tables(db) : old.keys[t] = db.keys[t]
    BY ReadingOf
  <2>2. old.enums = IntrospectEnums(db) /\ old.columns = ReadColumns("PostgreSQL", db, db.uniques)
    BY ReadingOf
  <2>3. /\ SameShape(db, schema) /\ SameKeys(db, schema) /\ Conforms(db, schema)
        /\ schema.fks \subseteq db.fks /\ db.fks \ schema.fks \subseteq base.fks \ from.fks
        /\ schema \in Schemas \cup {Empty}
    BY DEF SInv, TablesInv, ControlInv, KeysInv, ForeignKeysInv, TypesInv
  <2>4. schema.indexes \subseteq old.indexes
    BY <2>1 DEF IndexesInv, Indexed, KeysOf
  <2>5. Tables(old) = Tables(schema) /\ Columns(old) = Columns(schema) /\ Columns(schema) = Columns(db)
    BY <2>1, <2>3 DEF SameShape
  <2>6. s.op \in Ops /\ s = Step(s.op, s.on, s.what, s.ref)
    BY StepIsRecord
  <2>7. CASE s.op \in EnumOps
    BY <2>2, <2>3, <2>7, EnumsSettle
  <2>8. CASE s.op \in {"CreateTable", "DropTable"}
    BY <2>5, <2>8, StepsOfDiff DEF CreatesTable, DropsTable
  <2>9. CASE s.op \in {"AddColumn", "DropColumn"}
    BY <2>5, <2>9, StepsOfDiff DEF AddsColumn, DropsColumn
  <2>10. CASE s.op = "AlterColumn"
    <3>1. PICK tc \in Columns(schema) : /\ s.on = tc[1] /\ s.what = {tc[2]}
                                        /\ Altered("PostgreSQL", old, schema, tc)
      BY <2>10, ColumnOf DEF ColumnOps
    <3>2. schema \in Schemas
      BY <2>3 DEF Empty, Columns
    <3>3. schema.columns[tc].default = "autoincrement"
      BY <2>2, <2>3, <2>5, <3>1, <3>2, PostgresReadsBack
    <3>4. tc = <<tc[1], tc[2]>>
      BY <2>3, SchemaIsShape DEF IsShape
    <3>5. tc \in StepColumns(s)
      BY <3>1, <3>4 DEF StepColumns
    <3>6. QED
      BY <2>10, <3>3, <3>5 DEF Unreadable
  <2>11. CASE s.op = "AlterPrimaryKey"
    <3>1. PICK t \in Tables(old) \cap Tables(schema) : old.keys[t] # schema.keys[t]
      BY <2>11, StepsOfDiff DEF Rekeys
    <3>2. QED
      BY <2>1, <2>3, <3>1 DEF SameKeys, SameShape
  <2>12. CASE s.op \in {"AddForeignKey", "DropForeignKey"}
    <3>1. PICK fk : /\ s.on = fk.table /\ s.what = {fk.column} /\ s.ref = fk.ref
                    /\ s.op = "AddForeignKey" => fk \in ForeignKeys(schema) \ ForeignKeys(old)
                    /\ s.op = "DropForeignKey" => fk \in ForeignKeys(old) \ ForeignKeys(schema)
      BY <2>12, ForeignKeyOf
    <3>2. s = Step(s.op, fk.table, {fk.column}, fk.ref)
      BY <2>6, <3>1
    <3>3. CASE s.op = "AddForeignKey"
      <4>1. fk \in db.fks /\ fk \notin old.fks
        BY <2>3, <2>5, <3>1, <3>3 DEF ForeignKeys
      <4>2. PICK g \in old.fks : SameColumn(fk, g)
        BY <2>1, <4>1 DEF FirstOfEach
      <4>3. g \in db.fks /\ fk # g
        BY <2>1, <4>1, <4>2
      <4>4. QED
        BY <3>2, <3>3, <4>1, <4>2, <4>3 DEF Unreadable
    <3>4. CASE s.op = "DropForeignKey"
      <4>1. fk \in db.fks /\ fk \notin schema.fks
        BY <2>1, <2>5, <3>1, <3>4 DEF ForeignKeys
      <4>2. fk \in UnseenForeignKeys
        BY <2>3, <4>1 DEF UnseenForeignKeys, ForeignKeys
      <4>3. (CHOOSE c \in s.what : TRUE) = fk.column
        BY <3>1
      <4>4. QED
        BY <3>1, <3>4, <4>1, <4>2, <4>3 DEF Outstanding
    <3>5. QED
      BY <2>12, <3>3, <3>4
  <2>13. CASE s.op = "CreateIndex"
    BY <2>4, <2>13, StepsOfDiff DEF CreatesIndex
  <2>14. CASE s.op = "AddUnique"
    BY <2>14 DEF Unreadable
  <2>15. CASE s.op = "DropUnique"
    BY <2>1, <2>15, StepsOfDiff DEF DropsUnique
  <2>16. QED
    BY <2>6, <2>7, <2>8, <2>9, <2>10, <2>11, <2>12, <2>13, <2>14, <2>15 DEF Ops, ColumnOps
<1>2. Spec => []SInv /\ []IndexesInv /\ []KeysInv /\ []ForeignKeysInv /\ []TypesInv
  BY SpecSInv, SpecIndexesInv, SpecKeysInv, SpecForeignKeysInv, SpecTypesInv
<1>3. QED
  BY <1>1, <1>2, PTL

-----------------------------------------------------------------------------
(* The theorems, for whichever database. *)

LEMMA OneOfTwo == ASSUME NoneSkipped PROVE Spec => [](provider = "PostgreSQL" \/ provider = "SQLite")
<1>1. SInv => provider = "PostgreSQL" \/ provider = "SQLite"
  BY ProviderAssumption DEF SInv, ControlInv
<1>2. Spec => []SInv
  BY SpecSInv
<1>3. QED
  BY <1>1, <1>2, PTL

\* RefusalsHaveACause: in whatever order the hash maps give, and whichever
\* foreign keys introspection reads, a statement is refused only for what the
\* diff could not see or the renderer cannot say (sort_steps, the renderers).
\* The tables and enums that introspection passes over are excluded.
THEOREM RefusalsAreExplained ==
  ASSUME Resolved, SinglyKeyed, EnumsDiffer, EnumsHaveVariants, NoneSkipped
  PROVE  Spec => []RefusalsHaveACause
<1>1. Spec => [](provider = "PostgreSQL" => RefusalsHaveACause)
  BY PostgresRefusesForACause
<1>2. Spec => [](provider = "SQLite" => RefusalsHaveACause)
  BY SqliteRefusesForACause
<1>3. Spec => [](provider = "PostgreSQL" \/ provider = "SQLite")
  BY OneOfTwo
<1>4. QED
  BY <1>1, <1>2, <1>3, PTL

\* Delivers: whatever the developer's schemas and whichever strategy each diff
\* took, a migration that was applied leaves what the schema asks for, and
\* beyond it only what the diff did not see, also when foreign keys share a
\* column.  The tables and enums that introspection passes over are excluded.
THEOREM MigrationsDeliver ==
  ASSUME Resolved, EnumsDiffer, EnumsHaveVariants, NoneSkipped
  PROVE  Spec => []Delivers
<1>1. Spec => [](provider = "PostgreSQL" => Delivers)
  BY PostgresDelivers
<1>2. Spec => [](provider = "SQLite" => Delivers)
  BY SqliteDelivers
<1>3. Spec => [](provider = "PostgreSQL" \/ provider = "SQLite")
  BY OneOfTwo
<1>4. QED
  BY <1>1, <1>2, <1>3, PTL

\* Settles: after a migration the next diff of the same schema finds nothing
\* that introspection could have read back and the renderer could have said.
\* The tables and enums that introspection passes over are excluded, where
\* the next diff does find something.
THEOREM DiffsSettle ==
  ASSUME Resolved, EnumsDiffer, NamesReadBack, EnumsHaveVariants, NoneSkipped
  PROVE  Spec => []Settles
<1>1. Spec => [](provider = "PostgreSQL" => Settles)
  BY PostgresSettles
<1>2. Spec => [](provider = "SQLite" => Settles)
  BY SqliteSettles
<1>3. Spec => [](provider = "PostgreSQL" \/ provider = "SQLite")
  BY OneOfTwo
<1>4. QED
  BY <1>1, <1>2, <1>3, PTL
=============================================================================
