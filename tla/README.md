# Verification of ferriorm

TLA+ specifications of [ferriorm](../src), a Rust ORM, model-checked with TLC and
proved about with TLAPS. This file says what the system consists of, what is
modelled and how it corresponds to the code, what the checks and the proofs
show, and what is left.

## 1. The system

ferriorm is a compiler and a runtime. A developer writes `schema.ferriorm`; the
command line tool diffs it against the migrations written so far, writes a new
migration, applies pending migrations to a database, and generates a Rust client
whose queries run on sqlx pools.

| Component | State it keeps | Operations | What must be right |
|---|---|---|---|
| **Migration runner** `ferriorm-migrate/src/runner.rs`, `state.rs` | the database, the ledger table `_ferriorm_migrations`; in memory the rows read, the list of names, the text being executed | `apply_pending(_sqlite)`, `status` | a recorded migration was executed; name order; no mismatch goes unnoticed; concurrent deploys, crashes and retries do no harm |
| **Migration authoring** `runner.rs` `create_migration`, `snapshot.rs`, `ferriorm-cli/src/commands/migrate.rs` | `migrations/NNNN_name/{migration.sql,_schema_snapshot.json}` | `migrate dev` (with `--snapshot` or not), `migrate deploy` | the directory is a history that replays to the schema; nothing is overwritten; the database and the client follow |
| **Shadow database** `shadow.rs` | a temporary database | create, replay, introspect, drop | the replay is the same as a deploy; the database is removed on every path |
| **Diff engine** `diff.rs`, **renderers** `sql/*.rs` | none | `diff_schemas`, `sort_steps`, `render` | the steps, in their order, turn one schema into the other on a real database |
| **Introspection** `introspect.rs` | none | read catalogs back into a schema | what was rendered reads back as the same schema |
| **db pull**, **init** | `schema.ferriorm`, `.bak` | overwrite with a backup | no schema is lost |
| **Parser and validator** `ferriorm-parser` | the blocks parsed and the models validated so far | text to schema, in passes that stop at the first error | names resolve, relations are unambiguous, database names do not collide |
| **Code generator** `ferriorm-codegen` | `src/generated` | writes modules in place | the files belong to one schema |
| **Generated client** (`model.rs`, `relations.rs`; an instance in `examples/basic/src/generated`) | rows of the user's tables | find, create, `create_many`, update, `update_first`, upsert, delete, count, aggregate, group by, includes | a filter finds what it says; each call is atomic where it says so; every record gets its relations |
| **Runtime** `ferriorm-runtime` | the pool, a transaction on one of its connections | connect, `run_transaction`, single queries, disconnect | all or nothing; connections come back clean; nobody waits for ever |

Interactions: `migrate dev` calls authoring (which calls shadow or snapshot, diff,
render), then applying, then the code generator, all through files and one
database; nothing is locked, and no state is shared in memory between commands.
Whatever runs beside a command (a second deploy at another replica's start-up, an
editor, a checkout, a crash) therefore interleaves between any two of its file or
database calls. These are the hard behaviours, and the first modules are about
them. In a program that uses the generated client, the tasks of an async runtime
share one pool, and any of them may run, or be dropped, while another waits at an
`await`. `PROJECT.json` lists the hazards line by line.

## 2. Modules

| Module | Stands for |
|---|---|
| `MigrationRunner` | `apply_pending` and `apply_pending_sqlite`, one database call or file read per action, any number of concurrent processes |
| `MigrationLedger` | what the ledger promises its readers; `MigrationRunner` implements it |
| `MCMigrationRunner` | contents and symmetry for TLC |
| `MigrationRunnerProofs` | the theorems about `MigrationRunner` |
| `SchemaDiff` | `diff_schemas`, the renderers, what a database makes of the statements, and introspection: migration after migration |
| `MCSchemaDiff` | the schemas for TLC |
| `SchemaDiffProofs` | the theorems about `SchemaDiff`: tables, columns, keys and constraints, then types and enums |
| `TableOrder` | the loops of `sort_steps`, one queue or map operation per action |
| `MCTableOrder`, `TableOrderProofs` | its symmetry for TLC, its theorems |
| `MigrateDev` | `migrate dev` and `migrate deploy` in one project: diffing, numbering, file writes, apply, generate |
| `MCMigrateDev`, `MigrateDevProofs` | the check of its replay for TLC, its theorems |
| `Transactions` | `run_transaction`, generated queries inside its closures, the pool behind both, `disconnect` |
| `AtomicTransactions` | what `run_transaction` promises its callers; `Transactions` implements it |
| `TransactionsProofs` | the theorems about `Transactions` |
| `Filters`, `FilterClause` | `build_where` token by token, and the clause as the database reads it, against the meaning of the filter |
| `MCFilters` | the filters and rows for TLC |
| `FilterClauseProofs` | the theorems about `Filters` and `FilterClause` |
| `ModelQueries` | one statement of the generated client as its effect on the rows of a table (`model.rs`, `relations.rs`) |
| `GeneratedClient` | concurrent tasks that call it, one await per step; built on `ModelQueries` and `Filters` |
| `GeneratedClientProofs` | the theorems about `GeneratedClient` |
| `Blog`, `MCBlog` | the models of `examples/basic` as `user.rs`, `profile.rs` and `post.rs` know them; the calls for TLC |
| `SchemaFrontEnd`, `MCSchemaFrontEnd` | the parser's blocks, the validator's passes, and how the generator pairs relations; the sources for TLC |
| `SchemaFrontEndProofs` | the theorems about `SchemaFrontEnd` |

### MigrationRunner

| State | Code |
|---|---|
| `disk` | `migrations/<name>/migration.sql` |
| `table`, `ledger` | the table created by `state::ensure_table*`, its rows |
| `captured`, `todo` | `applied`, what is left of `pending` |
| `file`, `pos` | `sql`, how much of it the database has executed |
| `appliedNew` | `applied_new` |
| `ran` | which statements of which migration took effect, and how often |
| `dirty` | history: was the directory edited since the invocation began? |

`Start`, `EnsureTable`, `GetApplied`, `ListMigrations` are the calls before the
loop. In the loop the name at hand is the least one left; `SkipApplied` and
`RejectMigration` are the checksum branch, `ReadPending`, `ExecuteBatch` or
`ExecuteRefused`, `MarkApplied` or `MarkRefused` the pending branch. `Finish` is
`Ok(applied_new)`, `Fail` every `?`. `DatabaseError` fails a call that had no
effect, `Crash` ends the process anywhere; a call that took effect and whose answer
is lost is the action followed by `Crash`. `EditDisk` and `ResetDatabase` are the
environment. What `MarkApplied` records is the text that was read and executed (`file`),
whatever the directory holds by then.

Abstractions. A migration is a sequence of statements; the checksum is the content
itself, so SHA-256 is taken as collision-free. On SQLite each statement of one
`execute()` commits by itself. On PostgreSQL the text is one unit, or is refused:
`sqlx::query` prepares it, and a prepared text of several statements is an error
(`ExecuteRefused` allows both, so nothing depends on the driver). `Ddl` statements are
refused when their object exists; `Broken` ones always. The database is reset only
while no command runs. `ran` saturates at `MaxRan`.

### MigrateDev

A schema is a set of tables and a migration creates and drops tables.
`create_migration` is taken apart: `StartDev` parses the schema; `Diff`, `NoChanges` or
`ReplayFails` compare with `Previous`, the replay of the directory or the newest
snapshot; `NumberDirectory` counts; `WriteSql` and `WriteSnapshot` are the two writes.
`ExecuteMigration` and `MarkApplied` are the two database calls per migration; the
database takes or refuses a migration as a whole, `MigrationRunner` takes that apart.
The runs have one process: races of deploys are the subject of `MigrationRunner`, and
no document says that two developers may run `migrate dev` in one directory.
`Generate` reads the schema file again. `text` is the `migration.sql` that was read; `MarkApplied` records it.

The environment edits the schema, deletes a directory that no database recorded, resets the
database, and edits a `migration.sql` by hand (`EditMigration`), which
`docs/src/migrations/development.md:46` recommends: any directory, before or after it was
applied, also while a command runs. From then on the newest snapshot need not be what the
directory replays to, as `runner.rs:10` and `development.md:92` say. The auxiliary variable
`edited` remembers that, until a shadow run computes its diff from the edited files: the
migration it writes takes the edited history to the schema, and its snapshot is again the
replay. A run with `--snapshot` mends nothing, since it diffs from the snapshot.

A directory without a
`migration.sql` is not listed and not counted, so creating it changes nothing.
Names are pairs of a number and the rank of the label; `{:04}` orders them like
that up to 9999. `Replay` is written in closed form, so that it can be reasoned about: a
table is there when the last migration that mentions it created it (`Standing`), and the
replay is refused when some migration is refused on what those before it leave.
`MCMigrateDev` states the same as a fold over the sorted directory, and TLC checks that the
two agree on every history of three migrations and on each part of one (`ReplayIsInOrder`).

### SchemaDiff

A schema and a database are records of columns, enums, keys, foreign keys, indexes and
unique constraints. `Diff` is the set of steps `diff_schemas` emits, one operator per
`diff_*` function, on either the replayed database read back (`Introspect`) or the
snapshot. `Place`, `Turn` and `Precedes` are the order `sort_steps` leaves them in; what
the order of a `HashMap` decides is left open, so `Execute` takes any step that nothing
precedes. `After` is what the statement of a step does, which on SQLite is nothing for
the steps that are rendered as comments (`IsComment`), and `RefusedByPostgres` and
`RefusedBySqlite` are when it is refused; these three say what the databases do and are
external to the repository. `Refuse` ends the migration, `Discard` deletes it.

`WellFormed` is what the parser and the validator see to, and is assumed of the schemas.
Nothing in the code sees to six more conditions, which some theorems suppose: a foreign
key is put on a column that exists and its name is its own (`Resolved`), it refers to a
key of one column (`SinglyKeyed`), the types of enums differ, also after they were read
back (`EnumsDiffer`), an enum is not read back under the name of another one, nor
under a name that leads to another type (`NamesReadBack`), an enum has a variant
(`EnumsHaveVariants`), and no table begins with `_` (`NoneSkipped`). The schemas of
`MCSchemaDiff` satisfy the first four; they go beyond the last two (`Roleless`, `Graded`,
`Regraded`; `Audited`), so TLC checks the same properties there.

Introspection returns one of several `Readings`: of the foreign keys on one column it keeps the
first that the catalog query lists (`FirstOfEach`), and no ORDER BY says which one that is. It
lists types by their labels (`Labelled`), passes over tables that begin with `_` (`Seen`), and
on SQLite lists the columns of a key in the order of the table (`KeyByLayout`, for which a
table has its `layout`). `InlineForeignKeys` is likewise the first foreign key of a column;
which one is left to CHOOSE, so nothing is proved from it.

Abstractions. The database is the replay: it has no rows, so no statement is refused on
account of data. Steps name columns and tables, the definition is looked up in the
target schema. Constraints are what they are on, not their names. Foreign keys have one
column and refer to the key of a table; its name is the snake-cased field, so no field
of a foreign key is mapped to another name. Whether PostgreSQL has a cast between two
types is left open (`MayRefuse`). On PostgreSQL a migration counts statement by
statement here; as a refused one is discarded whole this agrees with a transaction.

### TableOrder

`created` and `fks` are the CREATE TABLE and ADD FOREIGN KEY steps, chosen freely;
`degree`, `queue`, `sorted` are `in_degree`, `queue`, `sorted_names`; `dependents` is
what the inner loop has left to visit. `Seed` fills the queue in any order, `PopFront`
and `Release` are the two loops, `Sorted` and `Place` what `sort_by_key` with
`usize::MAX` does. `Circular` of `SchemaDiff` is what this module computes.

### Transactions

| State | Code |
|---|---|
| `pc`, `step` | where a call of `run_transaction` and its closure are |
| `conn` | the connection inside `TransactionClient` |
| `aux` | the connection a generated query of the closure took (`fetch_*`, `execute_*`) |
| `outcome` | the `Result` of the call; `commit_err` is the `?` behind `commit()`, `dropped` a future that was dropped |
| `idle`, `buffer`, `poisoned` | the pool; what is uncommitted, or aborted (PostgreSQL), on a connection |
| `store` | what is committed |

`Begin` and `BeginFails` are `pool.begin().await?`; `Statement` and `StatementFails` a
statement on the transaction; `Query`, `QueryAcquires`, `QueryRuns` and `QueryFails` a query
of the generated client in the closure. That query cannot use the transaction: the
generated actions hold a `DatabaseClient`, not a `TransactionClient`, so it takes a second
connection of the same pool and commits by itself. `ClosureErr` drops the
`TransactionClient`; `ClosureOk` leads to `Commit`, `CommitFails` or, when the connection
breaks after COMMIT took effect, `CommitUnanswered`. `Dropped` is a timeout, a `select!`
or a panic at any await. `Rollback`, `Disconnect` and `Disconnected` are the pool's side.
`Swallows` says whether a closure may return `Ok` after one of its statements failed. A
closure that calls `commit()` or `rollback()` itself has no `TransactionClient` left to
return `Ok` with; such closures are not modelled. A write is a pair of a task and a
number: what it does to the rows is the subject of `GeneratedClient`.

### Filters and FilterClause

A condition is one field of a filter struct that is `Some`; a `WhereInput` is its conditions,
its `and` and `or` lists and its `not`, nested once, because the same three arms repeat
below. `BuildWhere` pushes the tokens `gen_where_arms` and `gen_filter_module` generate;
text is a sequence of characters, because `like_escape` works on them. `Evaluate` is the
database: NOT before AND before OR, three truth values, LIKE with its escape, case
ignored on SQLite. `Found` is the meaning, written without any of that.

The columns with their filter types (`Kinds`), the filters and the rows are constants.
`WheresAssumption` is what the Rust types admit: finitely many conditions, an operator of the
column's filter, NULL only where its type has an `Option`, text for text. Parentheses stand
inside parentheses once, around the inputs of an `or` list, so `Evaluate` reads a clause at
three levels (`Reading`), which needs no recursion. `Like` follows the pattern character by
character with the set of states the match may be in.

### ModelQueries, GeneratedClient and Blog

`Blog` holds what the generated modules know about each model (filters, unique keys,
defaults, columns that may be set, stamped or grouped, relations); `ModelQueries` says
what a statement does with it; `GeneratedClient` is the tasks. `Exec` builds a call:
defaults, uuids and the clock are resolved there (`chrono::Utc::now()` and
`uuid::Uuid::new_v4()` are bound as values), and the database is only reached in a later
step. `Create` inserts, also once per round of `create_many`, whose next row is built after
the previous answer. `Find` and `LoadRelation` are the two queries of an include. Every answer
may be lost after the statement took effect (`Returns`), and a connection may break
before (`ConnectionFails`). `Admitted` keeps the calls to those the Rust types admit.

Abstractions. Columns are named like the schema's fields, ids are numbers. A statement is
atomic, as both databases promise. A uuid is never drawn twice. The filters of HAVING are
conditions without `and`, `or` and `not`, which are built by the same arms as WHERE. The
foreign keys of the example are all ON DELETE RESTRICT. `avg` is left out: its value is a
float and no property speaks of it.

### SchemaFrontEnd

A source is a sequence of blocks with members and attributes, in the order they are
written. `Parse` and the five passes are actions; `ValidateModel` is one round of the loop
of `validate_models`. `FieldError` and `ModelError` are the early returns in their order,
`Ambiguous` is `validate_relation_disambiguation`, `FindBackReference` and `LoadedThroughChild`
are `find_back_reference` and `collect_relations` of the code generator. Names are opaque:
`Snake` and `Plural` tabulate `to_snake_case` and the table name derived from it; providers are
written in lower case, the only case difference `parse` forgives. `Keywords` is a sample of the
list in the code. `Of` picks the items of a kind by their rank among them, which is what the
parser's loops collect, written without recursion so that theorems can speak of it.

## 3. Properties and runs

Deadlock is checked in every run of commands and transactions; `table_order`,
`schema_diff`, `filters`, `client` and `front_end` model calls that end.

| Run | Shows | Bounds |
|---|---|---|
| `runner_safety` | `RecordedWasExecuted`, `CleanRunVerified`, `LedgerIsPrefix`, `ImplementsLedger`, types | 2 processes, 2 names, 3 contents, 1 crash or error, 2 edits or resets; 1.2 million states up to symmetry of processes |
| `runner_live` | `EveryRunEnds`, `EventuallyUpToDate` | 2 processes, 3 names, 2 faults, contents that may be repeated |
| `dev_strategies` | `HistoryReplays`, `MigrationReachesTarget`, `SnapshotIsReplay`, `GeneratesAfterApply`, types | 1 process, both strategies, 2 tables, 2 labels, 2 schema edits, 1 migration edited by hand, 1 deletion; 1.7 million states up to symmetry of tables |
| `dev_crashes` | `MigrationReachesTarget`, `DatabaseIsReplay`, `SyncsDatabase` | 1 process, shadow strategy, 1 crash, 1 schema edit, 1 migration edited by hand, 1 reset; 344 969 states |
| `table_order` | `ReferencedFirst`, `EveryTableOnce`, `OnlyCyclesAreLast`, types | 4 tables, 4 foreign keys: self references, double keys, cycles of up to four, tables behind cycles; 0.9 million states |
| `schema_diff` | `RefusalsHaveACause`, `Delivers`, `Settles`, `KeepsColumns`, types | 12 schemas, both providers, 5 migrations; 75 849 states |
| `transactions` | `AllOrNothing`, `CleanConnections`, `EveryCallReturns`, `DisconnectReturns`, `ImplementsPromise`, types | 2 tasks, 2 connections, 2 statements or queries each, swallowed errors, 1 disconnect, SQLite; 68 942 states |
| `filters` | `FindsWhatItSays` | every operator on each of 8 kinds of column with texts that hold `%`, `_` and `\`, alone, negated, and 5 inputs nested in each other, on 40 rows; SQLite; 388 320 states |
| `client` | `OneWinner`, `UpsertMeetsItsRow`, `ChangesAreStamped`, `BatchInOrder`, `IncludedBelongs`, `GroupsAreFound`, types | 2 tasks, any 3 of 33 calls, 5 rows, 1 tick; 959 654 states up to symmetry of tasks |
| `include_shared` | refutes `IncludedIsSome` | 1 call |
| `front_end` | `AcceptsOnlyValid`, `RelationsPairApart` | 4816 sources that reach every error |
| `unnamed_list` | refutes `OneBackReference` | the same sources |

What `schema_diff` shows. `Delivers`: after every migration that is accepted, by any
path through the schemas and any mix of strategies, the database has the tables,
columns and constraints of the schema, on PostgreSQL also its types, defaults, keys and
foreign keys, on SQLite a foreign key on each column of a new table that has any (the first
one only, `sqlite.rs:186`). `RefusalsHaveACause`: the order of the steps is never the reason
of a refusal, except for what `Unsupported` lists: an enum is dropped before the columns of
its type change, a foreign key is dropped after its table, a key that foreign keys refer
to cannot be replaced, of two enums of which one takes the type name of the other the wrong
one may be renamed first, SQLite cannot drop a column that is indexed or add a unique one.
Otherwise what is refused is there already, and the diff did not see it (`Present`).
`KeepsColumns`: no column that both schemas have is ever gone in between.

`Settles`: the next diff finds nothing, except what `Unreadable` lists and what SQLite left
undone (`Outstanding`). What introspection reads back differently, or not at all:

| Written | Read back | Where |
|---|---|---|
| `@@unique`, a variant of two words, an enum that is mapped | not as such | `introspect.rs:303`, `:74`, `:80` |
| an enum without variants | not at all (`JOIN pg_enum`); its columns are text | `introspect.rs:56` |
| a table that begins with `_` | not at all | `introspect.rs:144`, `:472` |
| several foreign keys on one column | the first that the catalog lists | `introspect.rs:251`, `:548` |
| `autoincrement()` on PostgreSQL | no default | `introspect.rs:340` |
| `@default(0)` and `@default(1)` on SQLite | `false` and `true` | `introspect.rs:656` |
| a composite key on SQLite | in the order of the table | `introspect.rs:503` |
| an enum on SQLite | text | `introspect.rs:414` |

These lists are part of the result: they are what a user of `migrate dev` has to know. Each
entry is reached by the run, and the property fails without it.

What `transactions` shows. The state where every connection is held by a closure that
waits for a second one is reached, and only `acquire_timeout` ends it: without it
`EveryCallReturns` fails. So does `DisconnectReturns` if any path keeps a connection.
`ImplementsPromise` holds on SQLite. On PostgreSQL a closure that swallows a failed
statement gets `Ok` from a COMMIT that the server answered with ROLLBACK, so it holds there
only when closures return their errors; the theorem in section 4 states the condition.

What `client` shows. `OneWinner`: `update_first` can be used as a compare-and-swap, because
the filter is part of the UPDATE. `UpsertMeetsItsRow`: of racing upserts of one key none is
refused on account of the others (the run is on SQLite; PostgreSQL also refuses the upsert
that has nothing to set, see below). `ChangesAreStamped`: whatever changes a row stamps it
with a moment of the call that did, also late in a batch. `BatchInOrder` says exactly what
`create_many` leaves behind when it stops. `IncludedBelongs`: writers between the two queries
of an include never make a record come with another record's rows. `GroupsAreFound` relates
`group_by` to the filters: the group of a NULL key is the one a filter for NULL finds.

What `front_end` shows. `Valid` is a definition of a valid schema without passes and without
order; what the passes accept fulfils it, in every order of the blocks. Two relations of
one model never load through one foreign key, provided no model is called like a scalar.

Why the bounds are enough. Two processes give every pairwise race; a third adds only
more losers, and the proofs cover any number. Two names give the only relation
between names the code knows, order; the contents are chosen so that two versions of
one migration, a schema statement, a data statement and a refusal half-way all
occur. `MaxSeq`, 4 and 5 in `MigrateDev`, is as many directories as the edits can ask for, so
the bound never disables `NumberDirectory` in the passing runs (checked with TLC). The schemas of
`MCSchemaDiff` are chosen so that every kind of step occurs between two of them, enums that
are renamed in a chain included (`Graded`, `Regraded`), and that each thing introspection
reads differently is met (`Roleless`, `Answered`, `Audited`, `Counted`, `Mapped`), and five
migrations suffice for the differences that pile up (indexes and variants that are never
dropped, comments on SQLite) to meet every later schema. Four tables and four foreign
keys hold a diamond, a cycle with a table before it and one behind it, and double keys.
Two tasks on two connections are the smallest pool on which everybody can wait for
everybody and a connection can be handed from one transaction to the next; the proofs cover
any number. Three calls let one task act between the two queries of another and a third
call undo what it saw. The calls of `MCBlog` are chosen to meet on the keys of five rows:
each is refused in some order and succeeds in another.

Fairness. The tasks of a pool are polled (`TaskStep`), the queued ROLLBACK of a dropped
transaction runs, a timeout of `acquire_timeout` fires when no connection is free, and
`close()` completes when all connections are back: this is what an async runtime and sqlx
provide, and nothing makes a program call or disconnect. A started command is weakly fair (`RunFairness`, `CommandStep`): it waits for
nothing but the database's answers. `RetrySpec` adds that the command is invoked
again after it returned, as the container start-up in
`docs/src/migrations/production.md:47` does; `FairSpec` of `MigrateDev` that a developer
keeps invoking `migrate dev` (strong fairness, because `migrate deploy` competes for the
same idle terminal).
`EventuallyUpToDate` is about migrations that can be applied at all (`Applicable`) and,
because `Ddl` is empty in that run, about migrations that can be repeated: after a
crash between a schema statement and the INSERT every retry is refused, since the
object exists. The code has no recovery from that state and the documentation
promises none.

What the refuted properties show (`PROJECT.json` "findings" quotes the documents):

- `IncludedIsSome`: the second of two posts of one author is returned without the author it
  was asked for, because the batch map is emptied with `remove`.
- `OneBackReference`: a list field without a name passes the validator beside two named
  foreign keys of the other model; it then loads through the first of them only.

Met while modelling, and not kept as runs:

- a migration on SQLite is not all-or-nothing (`docs/src/migrations/production.md:75`);
- two deploys that start together can both execute a data migration, and only the INSERT of
  the second is refused (`production.md:13`);
- `migrate dev` after a reset replays nothing, because the diff is empty and it returns
  before applying (`docs/src/migrations/development.md:183`);
- directories are numbered by counting: after a deletion a later migration can be
  overwritten (`development.md:15`);
- an edit that only the second read of the schema file sees, taken back later, leaves the
  client generated from it (`docs/src/getting-started/project-structure.md:60`);
- an `@@unique` over several columns is not read back, so the shadow strategy adds it again;
- when one migration maps two enums anew and one takes the type name that the other gives up,
  the order of the two renames is that of a hash map, and one of the orders is refused;
- an upsert with nothing to set, of a model without `@updatedAt`, ends in
  `DO UPDATE SET "c" = "c"` (`model.rs:1878`), "so RETURNING * still yields the row". PostgreSQL
  refuses the unqualified `"c"` on the right as ambiguous between the table and EXCLUDED, before
  it looks at any row (`AmbiguousSet`); the test of this case,
  `tests/e2e/tests/sqlite_crud.rs:1160`, runs on SQLite, where it works;
- PostgreSQL answers COMMIT with ROLLBACK after a swallowed error and `run_transaction`
  returns `Ok`;
- `mode: Insensitive` of the string filters is read by nothing; `@default(cuid())` generates a
  uuid; an upsert uses only the column names of its `WhereUniqueInput` and not its values;
  `skip` without `take` is a syntax error on SQLite; an update with nothing to set still
  stamps `@updatedAt`, and without such a column is an error, but `Ok(0)` for `update_many`;
- generated queries inside a transaction closure do not take part in the transaction.

The properties of `MigrateDev` that speak of the history hold as long as nobody deletes a
directory (`Undeleted`). With `--snapshot` they further need that no command dies
between the two writes: `dev_strategies` is crash-free, `dev_crashes` uses the default
strategy.

They also hold only while no hand edit is outstanding (`~ edited`): with one, the snapshot
drifts, a `--snapshot` run writes a migration that leads elsewhere, and an edited file may be
refused on replay. What the run shows is that a shadow run ends that state.
`DatabaseIsReplay` needs no such condition, since it compares the database with the texts
its ledger recorded and not with the files (`RecordedSql`); it is silent about histories with
both a crash and a hand edit (`Traceable`): if the process died after executing a migration
and before recording it, and the file was edited since, nothing says what was executed.
`SyncsDatabase` is about undisturbed runs: no crash, reset, deletion or hand edit. So some
hazards are reached by the model and forbidden by no property: a number that a deletion frees
(`runner.rs:391`), a `dev` that returns before it applies what a crash or a reset left pending
(`migrate.rs:47`), and the second read of the schema file (`migrate.rs:45`).

Mutants. The operators marked "Mutant" stand in for the definition after them and break
it the way a slip in the code would: each property of a passing run is violated by one.

## 4. Proofs

`MigrationRunnerProofs` proves, for any processes, names, statements, contents and
bounds, from the assumptions in `MigrationRunner` (names are integers, contents are
sequences of distinct statements, the provider is one of two):

| Theorem | Property |
|---|---|
| `TypeCorrect` | `TypeOK` |
| `RecordedMigrationsWereExecuted` | `RecordedWasExecuted` |
| `MigrationsAreReportedOnce` | `NoDoubleReport` (in no run) |
| `OkMeansVerified` | `CleanRunVerified` |
| `ExecutionIsInOrder` | `EarlierVerified` (in no run) |
| `RecordedIsInitialSegment` | `LedgerIsPrefix` |
| `RunnerImplementsLedger` | `ImplementsLedger` |

The argument is a chain of inductive invariants. `TypeInv` adds to `TypeOK` that a
process inside a migration holds a file and is inside its text. `TruthInv` is
`RecordedWasExecuted` with its strengthening `Executing`: the first `pos` statements of
the text at hand have taken effect as part of the name at hand, and `mark` is reached
only with all of them. That is why a reset must not happen under a running command.
`CapturedIsOld` says that what a process read is still in the ledger while it runs, and
`LedgerInv` that rows are unique and that a name a process reports is recorded.
`VerifyInv` carries order: every name on disk that an undisturbed process has dealt
with is recorded with the content on disk; `CleanWithoutEdits` links it to `edits = 0`.
The refinement maps `ExecuteBatch` to `TakeEffect`, `MarkApplied` to `Record`,
`ResetDatabase` to `Forget` and everything else to stuttering.

`TableOrderProofs` proves, for any finite set of tables, any foreign keys and every hash
order: `SortTypeCorrect` (`TypeOK`), `ReferencedTablesComeFirst` (`ReferencedFirst`),
`TablesAreEmittedOnce` (`EveryTableOnce`), `CyclesAreLast` (`OnlyCyclesAreLast`) and
`DegreesDoNotUnderflow` (`NoUnderflow`, in no run). The invariant `IInv` counts: the degree of a
table is the number of tables it still waits for, those not yet sorted and, of the one
being visited, those not yet released; a table is queued or sorted exactly when that
number is zero, and never twice. When the queue runs dry every table left waits for
another one left, so what is left is contained in `Stuck`, and nothing in `Stuck` can have
been sorted, because everything sorted has its references before it.

`TransactionsProofs` proves, for any tasks, connections and number of statements, and for
both databases: `TransactionTypes` (`TypeOK`), `TransactionsAreAtomic` (`AllOrNothing`),
`ConnectionsAreClean` (`CleanConnections`) and `ErrorsRollBack` (a caller whose closure
failed finds nothing, `ErrMeansRolledBack`). Their inductive invariant `IInv` is a conjunction:
`Shape` says which program counters hold a connection, `Apart` that no connection is held
twice or held and idle, `Counts` that a statement number a closure will use next was used
by nobody yet, so that a query committed on the side is never mistaken for a write of the
transaction. Without `Apart`, one task's commit could publish another one's buffer; without
`Counts`, atomicity could be broken by a number used twice. Under `ErrorsReturned` (closures
return the errors of their statements, or the database is SQLite), no connection is
poisoned when COMMIT is sent (`Committed`), which gives `OkIsCommitted` and the refinement
`TransactionsKeepTheirPromise` (`ImplementsPromise`): `Statement` maps to `Issue`, `Commit`
and `CommitUnanswered` to `Install`, the ways to end without effect to `Discard`, `Dropped` to
either, and the queries on the side to stuttering, because the refinement mapping keeps
only what was written on transactions.

`MigrateDevProofs` proves, for any tables, labels, bounds and edits:

| Theorem | Property | Supposing |
|---|---|---|
| `DevTypes` | `TypeOK` | any number of processes |
| `GeneratedWasApplied` | `GeneratesAfterApply` | any number of processes |
| `HistoriesReplay` | `HistoryReplays` | `OneDeveloper`, `SnapshotsKept` |
| `MigrationsReachTheirTarget` | `MigrationReachesTarget` | `OneDeveloper`, `SnapshotsKept` |
| `SnapshotsAreReplays` | `SnapshotIsReplay` | `OneDeveloper`, no crashes |
| `DatabasesAreReplays` | `DatabaseIsReplay` | `OneDeveloper` |
| `MigrationsAreRecordedInOrder` | in no run | `OneDeveloper` |

`OneDeveloper` says that there is at most one process, `SnapshotsKept` that the strategy is
the shadow database or no command is killed: a crash between the two writes leaves a
snapshot that is one migration behind. `FilesInv` and `ApplyingInv` follow the files and the
list at hand. The rest goes in three steps. Directories are numbered without gaps, so a
new one sorts last (`NumbersInv`); a migration that sorts last is executed on what all others
leave, so what the diff computed against the replay takes it to the target (`HistoryInv`);
and the ledger is an initial segment of the directory, so applying replays it one
migration at a time (`DatabaseInv`, which also needs `ChangesInv`: a migration with no effect
could be executed twice unnoticed). Each of these holds until a directory is deleted
(`Undeleted`), as the properties do. Migrations may be edited by hand at any moment: `HistoryInv`
speaks of the times when no such edit is outstanding (`~ edited`) and is established again when a
shadow run diffs from the edited files, whatever they say; `DatabaseInv` speaks of the recorded texts,
to which an edit does nothing (`RowsInv`), and needs `Traceable` only for the migration that a
killed command may have left unrecorded.

`SchemaDiffProofs` proves, for any set of well-formed schemas,
both databases, any sequence of migrations and every order the hash maps may give:

| Theorem | Property | Supposing |
|---|---|---|
| `Types` | `TypeOK` | `NoneSkipped` |
| `ColumnsAreKept` | `KeepsColumns` | `NoneSkipped` |
| `StepsFindTheirTables` | in no run | `NoneSkipped` |
| `MigrationsDeliver` | `Delivers` | `NoneSkipped`, `EnumsHaveVariants`, `Resolved`, `EnumsDiffer` |
| `RefusalsAreExplained` | `RefusalsHaveACause` | the same, `SinglyKeyed` |
| `DiffsSettle` | `Settles` | as `MigrationsDeliver`, `NamesReadBack` |

On SQLite alone less is needed: `NoneSkipped` for `SqliteRefusesForACause`, and `Resolved` with it
for `SqliteDelivers` and `SqliteSettles`. The argument: a set of steps is left, and everything
that precedes an executed step was executed (`MigrationInv`). So the database can be computed
from the schema the diff started from, the one it leads to, and the steps that are left:
`HasTable` and `HasColumn` say which tables and columns there are, and `Underway`, the heart of
`TablesInv`, that these are the ones. For the rest the database may hold more than the schema,
so the invariants say what is there or on its way: `UniquesInv`, `IndexesInv` (on PostgreSQL
the index of a constraint that no diff knows of passes for an index, so it must be shown that
nothing drops it), `InlineInv` (foreign keys in CREATE TABLE), `KeysInv`, `ForeignKeysInv`
(a drop does not take an addition of the same name along; what the database has is of the
schema or was not seen, so the theorems hold whichever foreign keys of a column were read). Types are the hardest, because the
diff matches enums by their name in the schema, the database by that of the type, and a type
may pass from one enum to another within a migration. `TypesInv` has two parts:
`EnumsUnderway` follows which enum a type is at present (`Holds`), and that no two enums share
one; `ColumnsUnderway` says that a column that is not altered yet has the type its enum has at
present, and every other one the type the schema wants. Between migrations the latest
snapshot describes the database, and so does what is read back (`SnapshotDescribes`,
`ReadBackDescribes`), which is why both strategies may be mixed.

What the hypotheses exclude is what the code does not see to. Under an `@map` name the
foreign key of a field is put on a column that does not exist (not `Resolved`); a type called
like another one, or like the PascalCase of one, is created twice or taken for it (not
`EnumsDiffer`, not `NamesReadBack`); a foreign key to a composite key is refused by PostgreSQL
(not `SinglyKeyed`); a table that begins with `_` and an enum without variants are not read back
and are created again by every shadow diff, which the database refuses (not `NoneSkipped`, not
`EnumsHaveVariants`).

`GeneratedClientProofs` proves, for any models, calls, tasks and bounds that satisfy the
assumptions of `GeneratedClient` (a call has the arguments its Rust type demands):

| Theorem | Property | Supposing |
|---|---|---|
| `ClientTypes` | `TypeOK` | |
| `StampedChanges` | `ChangesAreStamped` | |
| `BatchesInOrder` | `BatchInOrder` | |
| `UpsertsMeetTheirRow` | `UpsertMeetsItsRow` | `UpsertsNameTheirRow` |
| `IncludesBelong` | `IncludedBelongs` | |
| `GroupsFound` | `GroupsAreFound` | |
| `SwapsHaveOneWinner` | `OneWinner` | `NeverMovesBack` |

`IInv` adds to `TypeOK` that a call that waits was built from its inputs and its clock, whatever
happened to the tables since (`Waiting`). `UpsertsNameTheirRow` is what nothing in the generated
code enforces: the values of the unique input and of the data agree. On PostgreSQL the property
grants one more refusal, of an upsert with nothing to set (`AmbiguousSet`); the theorem covers
every other upsert there. For `OneWinner`, `WInv`
says that a row that was moved past a state is beyond it for good (`Over`, `WinsLast`), which
holds if no program moves the column back or inserts the key again (`NeverMovesBack`, defined
on the calls the programs make); ids are drawn once (`IdsDrawn`).

`SchemaFrontEndProofs` proves, for any set of sources that the grammar allows
(`SourceAssumption`: blocks, members and attributes are lists, a composite key names a field)
and any conversion of names:

| Theorem | Property | Supposing |
|---|---|---|
| `PassesHold` | in no run | |
| `AcceptedIsValid` | `AcceptsOnlyValid` | `ScalarsAreTypes` |
| `PairedApart` | `RelationsPairApart` | `ScalarsAreTypes` |
| `NamedFieldsMeanOneKey` | in no run | `ScalarsAreTypes` |

`PassesInv` says what each pass has established when the next one comes. `Ranks` and `Items` say
of the parser's lists what an induction would: ranks are an injection into the numbers up to the
count of the items, hence a bijection, so each item is listed once and in its order.
`CountedOnce` turns the two comparisons of a count (enum names, tables) into distinctness; the
validator's third, of a model's name with those before it and with the enums, is in `Validated`.
`LeastIsThere` (a first error is an error) gives what a model without an error has.
`ScalarsAreTypes` says that no model is called like a scalar, which the code does not see to:
two relations without names to a model called `Json` pass the disambiguation, for which their
fields are scalars, and the generator, which finds the model, loads both through its first
foreign key, against the comment at `validator.rs:90`. No source of the runs has such a model.
`NamedFieldsMeanOneKey` is what remains true of the comment that `unnamed_list` refutes: for a
field with a name, `find_back_reference` has one foreign key to find.

`FilterClauseProofs` proves, for any columns, filters and rows that satisfy the assumptions of
`FilterClause`, on both databases:

| Theorem | Property |
|---|---|
| `FindsContained`, `FindsPrefix`, `FindsSuffix` | in no run |
| `EveryConditionFaithful` | in no run |
| `ClauseFindsWhatTheFilterSays` | in no run |
| `FilterFindsWhatItSays` | `FindsWhatItSays` |

It is the one proof about text and syntax. LIKE first: the states the match may be in after a
prefix of an escaped text are those where the text stood, so whatever `%`, `_` and `\` a caller
passes finds itself (`FindsContained` and its siblings). Hence each condition is pushed as one
token, or none, that comes to what it means, NULL included (`EveryConditionFaithful`). What
remains is where the database puts the parentheses the client leaves out. `Adds` says of a
piece of a clause which parts between ANDs it adds to any balanced clause it is appended to; it
composes, so lists may be in the order their sets come in. A group in parentheses cannot be cut
(`GroupIs`), a clause splits at a word outside parentheses (`PartsSplit`), and a clause without
OR outside parentheses is one term. With that, `PushedParts` lists the parts of the clause of a
filter, and `Found` is read off them, `and`, `or` and `not` in turn. The inductive invariant
`IInv` is small: the clause is that of the filter, the verdict its value on the row.

What the proofs corrected. Two guards of the CASE that defines `After` in `SchemaDiff`
overlapped (a commented step of SQLite and its operation), so that TLA+ left the choice
between them open and TLC took the first; the comment is now a condition of its own. The chain
of renames above was found because `RefusalsHaveACause` could not be proved without it: no
schema of the run had two enums. `LoadedThroughChild` asked for fields of kind Model where
`collect_relations` asks for a model of the name; hence `ScalarsAreTypes`. `Filters` had no
nullable numbers and Booleans, which `filter.rs` has.

Only model-checked: liveness (`EveryRunEnds`, `EventuallyUpToDate`, `SyncsDatabase`,
`EveryCallReturns`, `DisconnectReturns`), which is out of the prover's reach.

## 5. Not modelled

`PROJECT.json` lists each part with its status and the reason. In short:

- Text: the grammar, the SQL outside WHERE clauses, generated Rust, formatting. What a piece
  of text does is modelled where a property depends on it.
- `migrate status` creates the ledger table if it is missing and reads; `db pull`, `init` and the
  command line do one file operation each. `clear_all` is never called.
- The life of the shadow database (creation, clean-up, the fixed 100 ms before it is
  dropped) and the file-by-file writes of the generator and of `create_migration`.
- `raw_*` queries run what the program gives them. `query.rs` is used by no generated code.
- Connection strings and pool settings: what they leave `None` is sqlx's default.
- `mode` of the string filters, a field that no generated code reads: `docs/src/client/filtering.md:62`
  promises case-insensitive matching by it. The filters of `Filters` have none, so
  `FindsWhatItSays` says nothing about it.
- Filters of `Float` columns (NaN does not equal itself); `WhereInput`s nested deeper than once.
- `Json`, `Bytes` and `Decimal` columns have no filters; `avg`; optional foreign keys and
  one-to-one back sides in includes, which the example schema does not have.

## 6. What is left

In this order; the most consequential behaviour first.

1. `ShadowDatabase`: creation, replay, clean-up and its early returns; the file-by-file
   generator and torn writes in `MigrateDev`; `status`.
2. `SchemaDiff` with mapped foreign key fields (`diff.rs:478`, and the same in
   `relations.rs`), names of indexes, enum defaults and DateTime columns; `TableOrder`'s
   `Stuck` as the meaning of its `Circular`.
3. Closures that commit or roll back themselves; an include over an optional foreign key.
4. Proofs: that `Replay` of `MigrateDev` does what its statements do one by one.
