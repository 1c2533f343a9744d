----------------------------- MODULE MCMigrateDev -----------------------------
(***************************************************************************)
(* MigrateDev for TLC, and its replay checked against one that goes        *)
(* through the files one by one.                                           *)
(***************************************************************************)
EXTENDS MigrateDev, SequencesExt

\* introspect_via_shadow: the files in the order of their names, until one is
\* refused.
ReplayInOrder(files, names) ==
  LET step(tables, n) ==
        IF tables = Refused THEN Refused
        ELSE IF Accepts(tables, files[n]) THEN After(tables, files[n]) ELSE Refused
  IN  FoldLeft(step, {}, SetToSortSeq(names, Before))

\* Every history of three migrations on the tables of the run, and each of its
\* parts.
SomeNames == {<<1, 0>>, <<1, 1>>, <<2, 0>>}

ASSUME ReplayIsInOrder ==
  \A files \in [SomeNames -> Sql] : \A names \in SUBSET SomeNames :
    ReplayOf(files, names) = ReplayInOrder(files, names)

\* No definition tells the tables apart.
Symmetry == Permutations(Table)

\* What the proofs ask for besides.
ASSUME MCMigrateDevAssumption == OneDeveloper /\ SnapshotsKept
=============================================================================
