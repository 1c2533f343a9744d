-------------------------- MODULE MCMigrationRunner --------------------------
(* Small instances of MigrationRunner. *)
EXTENDS MigrationRunner, TLC

\* Two schema-only migrations, the first of two statements.
DdlFiles == {<<"a", "b">>, <<"c">>}

\* Contents for a directory that is edited: two versions of one table, a
\* data statement, and a file the database refuses half-way.
EditedFiles == {<<"a">>, <<"b", "row">>, <<"row", "bad">>}

\* A migration that mixes schema and data, one the database refuses, and one
\* whose rendering is nothing but comments.
MixedFiles == {<<"a", "row">>, <<"row", "bad">>, <<>>}

\* Migrations that only move data, so that a retry is accepted.
DataFiles == {<<"row">>, <<"fill", "row">>}

Symmetry == Permutations(Proc)
=============================================================================
