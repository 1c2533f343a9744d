----------------------------- MODULE TableOrder -----------------------------
(***************************************************************************)
(* How sort_steps orders the CREATE TABLE steps of one migration: Kahn's   *)
(* algorithm over the foreign keys that the same migration adds.           *)
(*                                                                         *)
(* The maps of the code are HashMaps: the order in which the queue is      *)
(* first filled, the order in which the dependents of a table are visited, *)
(* and the order in which the diff listed the tables are all arbitrary.    *)
(* A table that cannot be sorted, because it is on a cycle of references   *)
(* or behind one, keeps the position usize::MAX and comes last.            *)
(***************************************************************************)
EXTENDS Integers, Sequences, FiniteSets, Functions

CONSTANTS Table,     \* names of tables
          ForeignKey \* the AddForeignKey steps of the migration

ASSUME TableAssumption == IsFiniteSet(Table)

VARIABLES created,    \* the tables of the CreateTable steps
          fks,        \* what each AddForeignKey step connects
          degree,     \* in_degree
          queue,      \* queue
          sorted,     \* sorted_names
          dependents, \* what is left to visit of the dependents of the popped
          result,     \* create_tables after the sort
          pc          \* seed the queue, sort, place the rest, done

vars == <<created, fks, degree, queue, sorted, dependents, result, pc>>

-----------------------------------------------------------------------------
(* The dependency graph *)

(* deps[t]: a set, so that two foreign keys to one table count once; a
   reference of a table to itself is none. *)
Deps(t) == {r \in created : /\ r # t
                            /\ \E f \in ForeignKey : fks[f] = [table |-> t, ref |-> r]}

(* reverse[t] *)
Reverse(t) == {s \in created : t \in Deps(s)}

(* Mutants: the degree counts the foreign keys, not the tables they
   lead to; it only says whether there is one. *)
InitCountsKeys ==
        /\ created \in SUBSET Table
        /\ fks \in [ForeignKey -> [table : Table, ref : Table]]
        /\ degree = [t \in created |->
              Cardinality({f \in ForeignKey : fks[f].table = t /\ fks[f].ref \in created \ {t}})]
        /\ queue = <<>>
        /\ sorted = <<>>
        /\ dependents = {}
        /\ result = <<>>
        /\ pc = "seed"

InitSkipsLater ==
        /\ created \in SUBSET Table
        /\ fks \in [ForeignKey -> [table : Table, ref : Table]]
        /\ degree = [t \in created |-> IF Deps(t) = {} THEN 0 ELSE 1]
        /\ queue = <<>>
        /\ sorted = <<>>
        /\ dependents = {}
        /\ result = <<>>
        /\ pc = "seed"

Init == /\ created \in SUBSET Table
        /\ fks \in [ForeignKey -> [table : Table, ref : Table]]
        /\ degree = [t \in created |-> Cardinality(Deps(t))]
        /\ queue = <<>>
        /\ sorted = <<>>
        /\ dependents = {}
        /\ result = <<>>
        /\ pc = "seed"

-----------------------------------------------------------------------------
(* The loop *)

(* One table without dependencies is collected into the queue. *)
Seed(t) ==
  /\ pc = "seed"
  /\ degree[t] = 0
  /\ t \notin Range(queue)
  /\ queue' = Append(queue, t)
  /\ UNCHANGED <<created, fks, degree, sorted, dependents, result, pc>>

(* All of them are. *)
Seeded ==
  /\ pc = "seed"
  /\ \A t \in created : degree[t] = 0 => t \in Range(queue)
  /\ pc' = "sort"
  /\ UNCHANGED <<created, fks, degree, queue, sorted, dependents, result>>

(* queue.pop_front: the table is next in the order, and its dependents are
   visited. *)
PopFront ==
  /\ pc = "sort"
  /\ dependents = {}
  /\ queue # <<>>
  /\ sorted' = Append(sorted, Head(queue))
  /\ queue' = Tail(queue)
  /\ dependents' = Reverse(Head(queue))
  /\ UNCHANGED <<created, fks, degree, result, pc>>

(* Mutant: queued with one table left to wait for. *)
ReleaseEarly(t) ==
  /\ pc = "sort"
  /\ t \in dependents
  /\ dependents' = dependents \ {t}
  /\ degree' = [degree EXCEPT ![t] = @ - 1]
  /\ queue' = IF degree'[t] <= 1 THEN Append(queue, t) ELSE queue
  /\ UNCHANGED <<created, fks, sorted, result, pc>>

(* One dependent has one table less to wait for; with none left it is queued. *)
Release(t) ==
  /\ pc = "sort"
  /\ t \in dependents
  /\ dependents' = dependents \ {t}
  /\ degree' = [degree EXCEPT ![t] = @ - 1]
  /\ queue' = IF degree'[t] = 0 THEN Append(queue, t) ELSE queue
  /\ UNCHANGED <<created, fks, sorted, result, pc>>

(* The queue is empty: sort_by_key puts the sorted tables first. *)
Sorted ==
  /\ pc = "sort"
  /\ dependents = {}
  /\ queue = <<>>
  /\ result' = sorted
  /\ pc' = "rest"
  /\ UNCHANGED <<created, fks, degree, queue, sorted, dependents>>

(* A table without a position comes after them, in the order of the diff. *)
Place(t) ==
  /\ pc = "rest"
  /\ t \notin Range(result)
  /\ result' = Append(result, t)
  /\ UNCHANGED <<created, fks, degree, queue, sorted, dependents, pc>>

(* Mutant: only the sorted tables are emitted. *)
ReassembleSorted ==
  /\ pc = "rest"
  /\ pc' = "done"
  /\ UNCHANGED <<created, fks, degree, queue, sorted, dependents, result>>

Reassemble ==
  /\ pc = "rest"
  /\ created = Range(result)
  /\ pc' = "done"
  /\ UNCHANGED <<created, fks, degree, queue, sorted, dependents, result>>

Next == \/ \E t \in created : Seed(t)
        \/ Seeded
        \/ PopFront
        \/ \E t \in created : Release(t)
        \/ Sorted
        \/ \E t \in created : Place(t)
        \/ Reassemble

Spec == Init /\ [][Next]_vars

-----------------------------------------------------------------------------
(* What the sort promises *)

(* The tables that a table really needs first, said without the maps. *)
References(t) == {r \in created : \E f \in ForeignKey : /\ fks[f].table = t
                                                        /\ fks[f].ref = r
                                                        /\ r # t}

(* Tables that no order can serve: each set of tables that all wait for
   another one of the set. *)
Stuck == UNION {S \in SUBSET created : \A t \in S : References(t) \cap S # {}}

TypeOK ==
  /\ created \in SUBSET Table
  /\ fks \in [ForeignKey -> [table : Table, ref : Table]]
  /\ degree \in [created -> Nat]
  /\ queue \in Seq(created)
  /\ sorted \in Seq(created)
  /\ dependents \in SUBSET created
  /\ result \in Seq(created)
  /\ pc \in {"seed", "sort", "rest", "done"}

(* "Reorder migration steps so that CreateTable statements respect
   foreign-key dependencies (tables referenced by other tables come first)",
   whatever order the hash maps are walked in: a table that is on no cycle
   and behind none is created after every table it references. *)
ReferencedFirst ==
  \A i \in DOMAIN result :
    result[i] \notin Stuck => References(result[i]) \subseteq {result[j] : j \in 1 .. i - 1}

(* No table is lost or created twice, cycles or not: at the end the order
   holds each table of the migration exactly once. *)
EveryTableOnce ==
  pc = "done" => /\ Range(result) = created
                 /\ IsInjective(result)

(* The degrees are usize: a decrement below zero would abort the command (or
   wrap in a release build and lose the table). It never happens, however
   many foreign keys lead from one table to another. *)
NoUnderflow == \A t \in dependents : degree[t] > 0

(* A cycle disturbs only itself and what depends on it: what the queue cannot
   reach is exactly the set of tables that no order can serve. *)
OnlyCyclesAreLast ==
  pc \in {"rest", "done"} => created \ Range(sorted) = Stuck
=============================================================================
