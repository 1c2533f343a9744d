-------------------------- MODULE TableOrderProofs --------------------------
(***************************************************************************)
(* The ordering of CREATE TABLE steps is right for every finite set of     *)
(* tables, every number of foreign keys between them and every order in    *)
(* which the hash maps are walked.                                         *)
(*                                                                         *)
(* The argument: the degree of a table counts the dependencies it still    *)
(* waits for (Counts), so a table is queued exactly when all of them are   *)
(* sorted (Queued, Reached), so the sorted prefix respects the references  *)
(* (Respects) and holds no table that waits in a circle (Free).            *)
(***************************************************************************)
EXTENDS TableOrder, FiniteSetTheorems, TLAPS

\* The table that was popped last.
Popped == sorted[Len(sorted)]

\* What t still waits for: tables that are not sorted, and the popped table
\* until the loop over its dependents has come to t.
Waits(t) == {d \in Deps(t) : d \notin Range(sorted) \/ (t \in dependents /\ d = Popped)}

Counts == \A t \in created : degree[t] = Cardinality(Waits(t))

Queued == /\ IsInjective(queue)
          /\ \A t \in Range(queue) : degree[t] = 0 /\ t \notin Range(sorted)

Reached == pc # "seed" => \A t \in created : degree[t] = 0 => t \in Range(queue) \cup Range(sorted)

Respects == /\ IsInjective(sorted)
            /\ \A i \in DOMAIN sorted : Deps(sorted[i]) \subseteq {sorted[j] : j \in 1 .. i - 1}

Free == \A S \in SUBSET created :
          (\A t \in S : Deps(t) \cap S # {}) => S \cap Range(sorted) = {}

Visiting == /\ dependents # {} => sorted # <<>> /\ dependents \subseteq Reverse(Popped)
            /\ pc = "seed" => sorted = <<>>
            /\ pc # "sort" => dependents = {}
            /\ pc \in {"rest", "done"} => queue = <<>>

Placed == /\ pc \in {"seed", "sort"} => result = <<>>
          /\ pc \in {"rest", "done"} => /\ Len(sorted) <= Len(result)
                                        /\ \A i \in 1 .. Len(sorted) : result[i] = sorted[i]
          /\ IsInjective(result)
          /\ pc = "done" => Range(result) = created

IInv == /\ TypeOK
        /\ Counts
        /\ Queued
        /\ Reached
        /\ Respects
        /\ Free
        /\ Visiting
        /\ Placed

-----------------------------------------------------------------------------
(* Sequences and their ranges. *)

LEMMA AppendRange ==
  ASSUME NEW S, NEW q \in Seq(S), NEW x \in S
  PROVE  /\ Append(q, x) \in Seq(S)
         /\ Len(Append(q, x)) = Len(q) + 1
         /\ \A i \in 1 .. Len(q) : Append(q, x)[i] = q[i]
         /\ Append(q, x)[Len(q) + 1] = x
         /\ Range(Append(q, x)) = Range(q) \cup {x}
<1>1. /\ Append(q, x) \in Seq(S)
      /\ Len(Append(q, x)) = Len(q) + 1
      /\ \A i \in 1 .. Len(q) : Append(q, x)[i] = q[i]
      /\ Append(q, x)[Len(q) + 1] = x
      /\ DOMAIN q = 1 .. Len(q)
      /\ DOMAIN Append(q, x) = 1 .. Len(q) + 1
      /\ Len(q) \in Nat
  OBVIOUS
<1>2. Range(Append(q, x)) = Range(q) \cup {x}
  BY <1>1 DEF Range
<1>3. QED
  BY <1>1, <1>2

LEMMA AppendInjective ==
  ASSUME NEW S, NEW q \in Seq(S), NEW x \in S, x \notin Range(q), IsInjective(q)
  PROVE  IsInjective(Append(q, x))
<1>1. /\ Len(q) \in Nat
      /\ DOMAIN q = 1 .. Len(q)
      /\ DOMAIN Append(q, x) = 1 .. Len(q) + 1
      /\ \A i \in 1 .. Len(q) : Append(q, x)[i] = q[i]
      /\ Append(q, x)[Len(q) + 1] = x
  OBVIOUS
<1>2. \A i \in 1 .. Len(q) : q[i] # x
  BY <1>1 DEF Range
<1>3. SUFFICES ASSUME NEW i \in 1 .. Len(q) + 1, NEW j \in 1 .. Len(q) + 1,
                      Append(q, x)[i] = Append(q, x)[j]
               PROVE  i = j
  BY <1>1 DEF IsInjective
<1>4. CASE i <= Len(q) /\ j <= Len(q)
  BY <1>1, <1>3, <1>4 DEF IsInjective
<1>5. CASE i = Len(q) + 1 \/ j = Len(q) + 1
  BY <1>1, <1>2, <1>3, <1>5
<1>6. QED
  BY <1>1, <1>4, <1>5

LEMMA TailRange ==
  ASSUME NEW S, NEW q \in Seq(S), q # <<>>, IsInjective(q)
  PROVE  /\ Head(q) \in S
         /\ Head(q) \in Range(q)
         /\ Tail(q) \in Seq(S)
         /\ IsInjective(Tail(q))
         /\ Range(Tail(q)) = Range(q) \ {Head(q)}
<1>1. /\ Len(q) \in Nat \ {0}
      /\ DOMAIN q = 1 .. Len(q)
      /\ Tail(q) \in Seq(S)
      /\ DOMAIN Tail(q) = 1 .. Len(q) - 1
      /\ \A i \in 1 .. Len(q) - 1 : Tail(q)[i] = q[i + 1]
      /\ Head(q) = q[1]
      /\ Head(q) \in S
  OBVIOUS
<1>2. \A i, j \in 1 .. Len(q) : q[i] = q[j] => i = j
  BY <1>1 DEF IsInjective
<1>3. IsInjective(Tail(q))
  BY <1>1, <1>2 DEF IsInjective
<1>4. Range(q) = {q[i] : i \in 1 .. Len(q)}
  BY <1>1 DEF Range
<1>5. Range(Tail(q)) = {q[i + 1] : i \in 1 .. Len(q) - 1}
  BY <1>1 DEF Range
<1>6. ASSUME NEW x \in Range(q), x # Head(q)
      PROVE  x \in Range(Tail(q))
  <2>1. PICK i \in 1 .. Len(q) : x = q[i]
    BY <1>4
  <2>2. i # 1 /\ i - 1 \in 1 .. Len(q) - 1 /\ x = q[(i - 1) + 1]
    BY <1>1, <1>6, <2>1
  <2>3. QED
    BY <1>5, <2>2
<1>7. ASSUME NEW x \in Range(Tail(q))
      PROVE  x \in Range(q) /\ x # Head(q)
  <2>1. PICK i \in 1 .. Len(q) - 1 : x = q[i + 1]
    BY <1>5
  <2>2. i + 1 \in 1 .. Len(q) /\ i + 1 # 1 /\ 1 \in 1 .. Len(q)
    BY <1>1
  <2>3. QED
    BY <1>1, <1>2, <1>4, <2>1, <2>2
<1>8. Head(q) \in Range(q)
  BY <1>1, <1>4
<1>9. QED
  BY <1>1, <1>3, <1>6, <1>7, <1>8

-----------------------------------------------------------------------------
(* The graph. *)

\* Dependencies are finitely many created tables, and never the table itself.
LEMMA DepsAreFinite ==
  ASSUME TypeOK, NEW t, NEW D \in SUBSET Deps(t)
  PROVE  IsFiniteSet(D) /\ Cardinality(D) \in Nat /\ (Cardinality(D) = 0 <=> D = {})
<1>1. D \in SUBSET Table
  BY DEF TypeOK, Deps
<1>2. IsFiniteSet(D)
  BY <1>1, TableAssumption, FS_Subset
<1>3. QED
  BY <1>2, FS_CardinalityType, FS_EmptySet

\* The two ways to say what a table depends on agree.
LEMMA DepsAreReferences ==
  ASSUME TypeOK
  PROVE  \A t : Deps(t) = References(t)
<1>1. \A f \in ForeignKey : fks[f] \in [table : Table, ref : Table]
  BY DEF TypeOK
<1>2. ASSUME NEW t, NEW r, NEW f \in ForeignKey
      PROVE  fks[f] = [table |-> t, ref |-> r] <=> fks[f].table = t /\ fks[f].ref = r
  BY <1>1
<1>3. QED
  BY <1>2 DEF Deps, References

\* Which tables depend on which never changes.
LEMMA GraphIsFixed ==
  ASSUME UNCHANGED <<created, fks>>
  PROVE  \A t : Deps(t)' = Deps(t) /\ Reverse(t)' = Reverse(t)
BY DEF Deps, Reverse

-----------------------------------------------------------------------------
(* The inductive invariant. *)

LEMMA InitEstablishes == Init => IInv
<1> SUFFICES ASSUME Init PROVE IInv
  OBVIOUS
<1>1. /\ Range(<<>>) = {}
      /\ IsInjective(<<>>)
      /\ \A S : <<>> \in Seq(S)
      /\ DOMAIN <<>> = {}
  BY DEF Range, IsInjective
<1>2. \A t : Waits(t) = Deps(t)
  BY <1>1 DEF Init, Waits
<1>3. \A t \in created : IsFiniteSet(Deps(t)) /\ Cardinality(Deps(t)) \in Nat
  <2>1. \A t : Deps(t) \in SUBSET Table
    BY DEF Init, Deps
  <2>2. QED
    BY <2>1, TableAssumption, FS_Subset, FS_CardinalityType
<1>4. TypeOK
  BY <1>1, <1>3 DEF Init, TypeOK
<1>5. Counts /\ Queued /\ Reached /\ Respects /\ Free /\ Visiting /\ Placed
  BY <1>1, <1>2 DEF Init, Counts, Queued, Reached, Respects, Free, Visiting, Placed
<1>6. QED
  BY <1>4, <1>5 DEF IInv

\* A table with degree zero waits for nothing.
LEMMA ZeroWaitsForNothing ==
  ASSUME IInv, NEW t \in created
  PROVE  degree[t] = 0 <=> Waits(t) = {}
<1>1. Waits(t) \in SUBSET Deps(t)
  BY DEF Waits
<1>2. QED
  BY <1>1, DepsAreFinite DEF IInv, Counts

\* A dependent that the loop has still to visit is neither queued nor sorted,
\* waits for the popped table, and has a degree to give.
LEMMA DependentsWait ==
  ASSUME IInv, NEW t \in dependents
  PROVE  /\ t \in created
         /\ sorted # <<>>
         /\ Popped \in Range(sorted)
         /\ Popped \in Waits(t)
         /\ degree[t] \in Nat \ {0}
         /\ t \notin Range(queue)
         /\ t \notin Range(sorted)
<1>1. t \in created /\ sorted \in Seq(created) /\ degree \in [created -> Nat]
  BY DEF IInv, TypeOK
<1>2. sorted # <<>> /\ t \in Reverse(Popped)
  BY DEF IInv, Visiting
<1>3. Len(sorted) \in Nat \ {0} /\ DOMAIN sorted = 1 .. Len(sorted)
  BY <1>1, <1>2
<1>4. Popped \in Range(sorted)
  BY <1>3 DEF Popped, Range
<1>5. Popped \in Deps(t)
  BY <1>2 DEF Reverse
<1>6. Popped \in Waits(t)
  BY <1>5 DEF Waits
<1>7. degree[t] # 0
  BY <1>1, <1>6, ZeroWaitsForNothing
<1>8. t \notin Range(queue)
  BY <1>7 DEF IInv, Queued
<1>9. t \notin Range(sorted)
  <2>1. SUFFICES ASSUME NEW i \in 1 .. Len(sorted), t = sorted[i] PROVE FALSE
    BY <1>3 DEF Range
  <2>2. PICK j \in 1 .. i - 1 : Popped = sorted[j]
    BY <1>3, <1>5, <2>1 DEF IInv, Respects
  <2>3. j \in 1 .. Len(sorted) /\ j # Len(sorted) /\ Len(sorted) \in 1 .. Len(sorted)
    <3>1. Len(sorted) \in Nat /\ i \in Int /\ j \in Int /\ i <= Len(sorted) /\ j <= i - 1 /\ 1 <= j
      BY <1>3
    <3>2. QED
      BY <3>1
  <2>4. \A k, l \in 1 .. Len(sorted) : sorted[k] = sorted[l] => k = l
    BY <1>3 DEF IInv, Respects, IsInjective
  <2>5. QED
    BY <2>2, <2>3, <2>4 DEF Popped
<1>10. QED
  BY <1>1, <1>2, <1>4, <1>6, <1>7, <1>8, <1>9

LEMMA SeedPreserves ==
  ASSUME IInv, NEW t \in created, Seed(t)
  PROVE  IInv'
<1>1. queue \in Seq(created) /\ queue' = Append(queue, t) /\ t \notin Range(queue)
  BY DEF IInv, TypeOK, Seed
<1>2. UNCHANGED <<created, fks, degree, sorted, dependents, result, pc>> /\ pc = "seed"
  BY DEF Seed
<1>3. queue' \in Seq(created) /\ Range(queue') = Range(queue) \cup {t} /\ IsInjective(queue')
  BY <1>1, AppendRange, AppendInjective DEF IInv, Queued
<1>4. TypeOK'
  BY <1>2, <1>3 DEF IInv, TypeOK
<1>5. \A u : Deps(u)' = Deps(u) /\ Waits(u)' = Waits(u) /\ Reverse(u)' = Reverse(u)
  BY <1>2, GraphIsFixed DEF Waits, Popped
<1>6. Counts' /\ Reached' /\ Respects' /\ Free'
  BY <1>2, <1>5 DEF IInv, Counts, Reached, Respects, Free
<1>7. Queued'
  <2>1. t \notin Range(sorted)
    BY <1>2 DEF IInv, Visiting, Range
  <2>2. QED
    BY <1>2, <1>3, <2>1 DEF IInv, Queued, Seed
<1>8. Visiting' /\ Placed'
  BY <1>2, <1>5 DEF IInv, Visiting, Placed, Popped
<1>9. QED
  BY <1>4, <1>6, <1>7, <1>8 DEF IInv

LEMMA SeededPreserves ==
  ASSUME IInv, Seeded
  PROVE  IInv'
<1>1. UNCHANGED <<created, fks, degree, queue, sorted, dependents, result>> /\ pc = "seed" /\ pc' = "sort"
  BY DEF Seeded
<1>2. TypeOK'
  BY <1>1 DEF IInv, TypeOK
<1>3. \A u : Deps(u)' = Deps(u) /\ Waits(u)' = Waits(u) /\ Reverse(u)' = Reverse(u)
  BY <1>1, GraphIsFixed DEF Waits, Popped
<1>4. Counts' /\ Queued' /\ Respects' /\ Free'
  BY <1>1, <1>3 DEF IInv, Counts, Queued, Respects, Free
<1>5. Reached'
  BY <1>1 DEF Reached, Seeded
<1>6. Visiting' /\ Placed'
  BY <1>1, <1>3 DEF IInv, Visiting, Placed, Popped
<1>7. QED
  BY <1>2, <1>4, <1>5, <1>6 DEF IInv

LEMMA PopFrontPreserves ==
  ASSUME IInv, PopFront
  PROVE  IInv'
<1> DEFINE h == Head(queue)
<1>1. /\ UNCHANGED <<created, fks, degree, result, pc>> /\ pc = "sort"
      /\ sorted' = Append(sorted, h) /\ queue' = Tail(queue) /\ dependents' = Reverse(h)
      /\ dependents = {} /\ queue # <<>>
      /\ queue \in Seq(created) /\ sorted \in Seq(created) /\ IsInjective(queue)
  BY DEF PopFront, IInv, TypeOK, Queued
<1>2. /\ h \in created /\ h \in Range(queue) /\ queue' \in Seq(created)
      /\ IsInjective(queue') /\ Range(queue') = Range(queue) \ {h}
  BY <1>1, TailRange
<1>3. degree[h] = 0 /\ h \notin Range(sorted)
  BY <1>2 DEF IInv, Queued
<1>4. /\ sorted' \in Seq(created)
      /\ Len(sorted') = Len(sorted) + 1 /\ Len(sorted) \in Nat
      /\ \A i \in 1 .. Len(sorted) : sorted'[i] = sorted[i]
      /\ sorted'[Len(sorted) + 1] = h
      /\ Range(sorted') = Range(sorted) \cup {h}
      /\ IsInjective(sorted')
  BY <1>1, <1>2, <1>3, AppendRange, AppendInjective DEF IInv, Respects
<1>5. Popped' = h
  BY <1>4 DEF Popped
<1>6. \A u : Deps(u)' = Deps(u) /\ Reverse(u)' = Reverse(u)
  BY <1>1, GraphIsFixed
<1>7. TypeOK'
  <2>1. Reverse(h) \in SUBSET created
    BY DEF Reverse
  <2>2. QED
    BY <1>1, <1>2, <1>4, <2>1 DEF IInv, TypeOK
<1>8. \A u \in created : Waits(u)' = Waits(u)
  <2>1. TAKE u \in created
  <2>2. Waits(u) = {d \in Deps(u) : d \notin Range(sorted)}
    BY <1>1 DEF Waits
  <2>3. Waits(u)' = {d \in Deps(u) : d \notin Range(sorted) \cup {h} \/ (u \in Reverse(h) /\ d = h)}
    BY <1>1, <1>4, <1>5, <1>6 DEF Waits
  <2>4. h \in Deps(u) => u \in Reverse(h)
    BY DEF Reverse
  <2>5. QED
    BY <1>3, <2>2, <2>3, <2>4
<1>9. Counts'
  BY <1>1, <1>8 DEF IInv, Counts
<1>10. Queued'
  BY <1>1, <1>2, <1>4 DEF IInv, Queued
<1>11. Reached'
  BY <1>1, <1>2, <1>4 DEF IInv, Reached
<1>12. Deps(h) \subseteq Range(sorted)
  <2>1. Waits(h) = {}
    BY <1>2, <1>3, ZeroWaitsForNothing
  <2>2. QED
    BY <1>1, <2>1 DEF Waits
<1>13. Respects'
  <2>1. SUFFICES ASSUME NEW i \in 1 .. Len(sorted) + 1
                 PROVE  Deps(sorted'[i]) \subseteq {sorted'[j] : j \in 1 .. i - 1}
    BY <1>4, <1>6 DEF Respects
  <2>2. DOMAIN sorted = 1 .. Len(sorted)
    BY <1>1
  <2>3. CASE i <= Len(sorted)
    <3>1. i \in 1 .. Len(sorted) /\ \A j \in 1 .. i - 1 : j \in 1 .. Len(sorted)
      BY <1>4, <2>1, <2>3
    <3>2. Deps(sorted[i]) \subseteq {sorted[j] : j \in 1 .. i - 1}
      BY <2>2, <3>1 DEF IInv, Respects
    <3>3. {sorted[j] : j \in 1 .. i - 1} = {sorted'[j] : j \in 1 .. i - 1}
      BY <1>4, <3>1
    <3>4. QED
      BY <1>4, <3>1, <3>2, <3>3
  <2>4. CASE i = Len(sorted) + 1
    <3>1. Range(sorted) = {sorted'[j] : j \in 1 .. i - 1}
      BY <1>4, <2>2, <2>4 DEF Range
    <3>2. QED
      BY <1>4, <1>12, <2>4, <3>1
  <2>5. QED
    BY <1>4, <2>1, <2>3, <2>4
<1>14. Free'
  <2>1. SUFFICES ASSUME NEW S \in SUBSET created, \A t \in S : Deps(t) \cap S # {}
                 PROVE  S \cap (Range(sorted) \cup {h}) = {}
    BY <1>1, <1>4, <1>6 DEF Free
  <2>2. S \cap Range(sorted) = {}
    BY <2>1 DEF IInv, Free
  <2>3. h \notin S
    BY <1>12, <2>1, <2>2
  <2>4. QED
    BY <2>2, <2>3
<1>15. Visiting'
  <2>1. sorted' # <<>>
    BY <1>4
  <2>2. QED
    BY <1>1, <1>5, <1>6, <2>1 DEF IInv, Visiting
<1>16. Placed'
  BY <1>1 DEF IInv, Placed
<1>17. QED
  BY <1>7, <1>9, <1>10, <1>11, <1>13, <1>14, <1>15, <1>16 DEF IInv

LEMMA ReleasePreserves ==
  ASSUME IInv, NEW t \in created, Release(t)
  PROVE  IInv'
<1>1. /\ UNCHANGED <<created, fks, sorted, result, pc>> /\ pc = "sort" /\ t \in dependents
      /\ dependents' = dependents \ {t}
      /\ degree' = [degree EXCEPT ![t] = @ - 1]
      /\ queue' = IF degree'[t] = 0 THEN Append(queue, t) ELSE queue
  BY DEF Release
<1>2. /\ sorted # <<>> /\ Popped \in Range(sorted) /\ Popped \in Waits(t)
      /\ degree[t] \in Nat \ {0} /\ t \notin Range(queue) /\ t \notin Range(sorted)
  BY <1>1, DependentsWait
<1>3. /\ queue \in Seq(created) /\ degree \in [created -> Nat] /\ IsInjective(queue)
  BY DEF IInv, TypeOK, Queued
<1>4. /\ degree'[t] = degree[t] - 1 /\ \A u \in created \ {t} : degree'[u] = degree[u]
      /\ degree' \in [created -> Nat]
  BY <1>1, <1>2, <1>3
<1>5. /\ queue' \in Seq(created) /\ IsInjective(queue')
      /\ Range(queue') = IF degree'[t] = 0 THEN Range(queue) \cup {t} ELSE Range(queue)
  <2>1. CASE degree'[t] = 0
    BY <1>1, <1>2, <1>3, <2>1, AppendRange, AppendInjective
  <2>2. CASE degree'[t] # 0
    BY <1>1, <1>3, <2>2
  <2>3. QED
    BY <2>1, <2>2
<1>6. TypeOK'
  BY <1>1, <1>4, <1>5 DEF IInv, TypeOK
<1>7. \A u : Deps(u)' = Deps(u) /\ Reverse(u)' = Reverse(u)
  BY <1>1, GraphIsFixed
<1>8. Waits(t)' = Waits(t) \ {Popped}
  <2>1. Waits(t)' = {d \in Deps(t) : d \notin Range(sorted)}
    BY <1>1, <1>7 DEF Waits
  <2>2. Waits(t) = {d \in Deps(t) : d \notin Range(sorted) \/ d = Popped}
    BY <1>1 DEF Waits
  <2>3. QED
    BY <1>2, <2>1, <2>2
<1>9. \A u \in created \ {t} : Waits(u)' = Waits(u)
  BY <1>1, <1>7 DEF Waits, Popped
<1>10. Counts'
  <2>1. IsFiniteSet(Waits(t))
    BY DepsAreFinite DEF IInv, Waits
  <2>2. Cardinality(Waits(t) \ {Popped}) = Cardinality(Waits(t)) - 1
    BY <1>2, <2>1, FS_RemoveElement
  <2>3. Cardinality(Waits(t)') = degree'[t]
    BY <1>4, <1>8, <2>2 DEF IInv, Counts
  <2>4. QED
    BY <1>1, <1>4, <1>9, <2>3 DEF IInv, Counts
<1>11. Queued'
  <2>1. Range(queue) \subseteq created
    BY <1>3 DEF Range
  <2>2. \A u \in Range(queue) : degree'[u] = 0 /\ u \notin Range(sorted)
    BY <1>2, <1>4, <2>1 DEF IInv, Queued
  <2>3. QED
    BY <1>1, <1>2, <1>5, <2>2 DEF Queued
<1>12. Reached'
  BY <1>1, <1>4, <1>5 DEF IInv, Reached
<1>13. Respects' /\ Free'
  BY <1>1, <1>7 DEF IInv, Respects, Free
<1>14. Visiting'
  BY <1>1, <1>7 DEF IInv, Visiting, Popped
<1>15. Placed'
  BY <1>1 DEF IInv, Placed
<1>16. QED
  BY <1>6, <1>10, <1>11, <1>12, <1>13, <1>14, <1>15 DEF IInv

LEMMA SortedPreserves ==
  ASSUME IInv, Sorted
  PROVE  IInv'
<1>1. /\ UNCHANGED <<created, fks, degree, queue, sorted, dependents>>
      /\ pc = "sort" /\ pc' = "rest" /\ dependents = {} /\ queue = <<>> /\ result' = sorted
  BY DEF Sorted
<1>2. sorted \in Seq(created) /\ IsInjective(sorted) /\ Len(sorted) \in Nat
  BY DEF IInv, TypeOK, Respects
<1>3. TypeOK'
  BY <1>1, <1>2 DEF IInv, TypeOK
<1>4. \A u : Deps(u)' = Deps(u) /\ Waits(u)' = Waits(u) /\ Reverse(u)' = Reverse(u)
  BY <1>1, GraphIsFixed DEF Waits, Popped
<1>5. Counts' /\ Queued' /\ Reached' /\ Respects' /\ Free'
  BY <1>1, <1>4 DEF IInv, Counts, Queued, Reached, Respects, Free
<1>6. Visiting'
  BY <1>1 DEF Visiting
<1>7. Placed'
  BY <1>1, <1>2 DEF Placed
<1>8. QED
  BY <1>3, <1>5, <1>6, <1>7 DEF IInv

LEMMA PlacePreserves ==
  ASSUME IInv, NEW t \in created, Place(t)
  PROVE  IInv'
<1>1. /\ UNCHANGED <<created, fks, degree, queue, sorted, dependents, pc>>
      /\ pc = "rest" /\ t \notin Range(result) /\ result' = Append(result, t)
  BY DEF Place
<1>2. /\ result \in Seq(created) /\ sorted \in Seq(created) /\ IsInjective(result)
      /\ Len(sorted) \in Nat /\ Len(result) \in Nat
      /\ Len(sorted) <= Len(result) /\ \A i \in 1 .. Len(sorted) : result[i] = sorted[i]
  BY <1>1 DEF IInv, TypeOK, Placed
<1>3. /\ result' \in Seq(created) /\ IsInjective(result') /\ Len(result') = Len(result) + 1
      /\ \A i \in 1 .. Len(result) : result'[i] = result[i]
  BY <1>1, <1>2, AppendRange, AppendInjective
<1>4. TypeOK'
  BY <1>1, <1>3 DEF IInv, TypeOK
<1>5. \A u : Deps(u)' = Deps(u) /\ Waits(u)' = Waits(u) /\ Reverse(u)' = Reverse(u)
  BY <1>1, GraphIsFixed DEF Waits, Popped
<1>6. Counts' /\ Queued' /\ Reached' /\ Respects' /\ Free'
  BY <1>1, <1>5 DEF IInv, Counts, Queued, Reached, Respects, Free
<1>7. Visiting'
  BY <1>1, <1>5 DEF IInv, Visiting, Popped
<1>8. Placed'
  <2>1. \A i \in 1 .. Len(sorted) : i \in 1 .. Len(result)
    BY <1>2
  <2>2. \A i \in 1 .. Len(sorted) : result'[i] = sorted[i]
    BY <1>2, <1>3, <2>1
  <2>3. Len(sorted) <= Len(result')
    BY <1>2, <1>3
  <2>4. QED
    BY <1>1, <1>3, <2>2, <2>3 DEF Placed
<1>9. QED
  BY <1>4, <1>6, <1>7, <1>8 DEF IInv

LEMMA ReassemblePreserves ==
  ASSUME IInv, Reassemble
  PROVE  IInv'
<1>1. /\ UNCHANGED <<created, fks, degree, queue, sorted, dependents, result>>
      /\ pc = "rest" /\ pc' = "done" /\ created = Range(result)
  BY DEF Reassemble
<1>2. TypeOK'
  BY <1>1 DEF IInv, TypeOK
<1>3. \A u : Deps(u)' = Deps(u) /\ Waits(u)' = Waits(u) /\ Reverse(u)' = Reverse(u)
  BY <1>1, GraphIsFixed DEF Waits, Popped
<1>4. Counts' /\ Queued' /\ Reached' /\ Respects' /\ Free'
  BY <1>1, <1>3 DEF IInv, Counts, Queued, Reached, Respects, Free
<1>5. Visiting' /\ Placed'
  BY <1>1, <1>3 DEF IInv, Visiting, Placed, Popped
<1>6. QED
  BY <1>2, <1>4, <1>5 DEF IInv

LEMMA StutterPreserves == IInv /\ UNCHANGED vars => IInv'
<1> SUFFICES ASSUME IInv, UNCHANGED vars PROVE IInv'
  OBVIOUS
<1>1. \A u : Deps(u)' = Deps(u) /\ Waits(u)' = Waits(u) /\ Reverse(u)' = Reverse(u)
  BY GraphIsFixed DEF vars, Waits, Popped
<1>2. UNCHANGED <<created, fks, degree, queue, sorted, dependents, result, pc>>
  BY DEF vars
<1>3. TypeOK'
  BY <1>2 DEF IInv, TypeOK
<1>4. Counts' /\ Queued' /\ Reached' /\ Respects' /\ Free'
  BY <1>1, <1>2 DEF IInv, Counts, Queued, Reached, Respects, Free
<1>5. Visiting' /\ Placed'
  BY <1>1, <1>2 DEF IInv, Visiting, Placed, Popped
<1>6. QED
  BY <1>3, <1>4, <1>5 DEF IInv

\* The sort never leaves the inductive invariant.
THEOREM SortInvariant == Spec => []IInv
<1>1. Init => IInv
  BY InitEstablishes
<1>2. IInv /\ [Next]_vars => IInv'
  <2> SUFFICES ASSUME IInv, [Next]_vars PROVE IInv'
    OBVIOUS
  <2>1. ASSUME NEW t \in created, Seed(t) PROVE IInv'
    BY <2>1, SeedPreserves
  <2>2. CASE Seeded
    BY <2>2, SeededPreserves
  <2>3. CASE PopFront
    BY <2>3, PopFrontPreserves
  <2>4. ASSUME NEW t \in created, Release(t) PROVE IInv'
    BY <2>4, ReleasePreserves
  <2>5. CASE Sorted
    BY <2>5, SortedPreserves
  <2>6. ASSUME NEW t \in created, Place(t) PROVE IInv'
    BY <2>6, PlacePreserves
  <2>7. CASE Reassemble
    BY <2>7, ReassemblePreserves
  <2>8. CASE UNCHANGED vars
    BY <2>8, StutterPreserves
  <2>9. QED
    BY <2>1, <2>2, <2>3, <2>4, <2>5, <2>6, <2>7, <2>8 DEF Next
<1>3. QED
  BY <1>1, <1>2, PTL DEF Spec

-----------------------------------------------------------------------------
(* What it means. *)

\* What is left when the queue has run dry waits in a circle.
LEMMA LeftAreStuck ==
  ASSUME IInv, pc \in {"rest", "done"}
  PROVE  created \ Range(sorted) = Stuck
<1> DEFINE X == created \ Range(sorted)
<1>1. \A t : References(t) = Deps(t)
  BY DepsAreReferences DEF IInv
<1>2. dependents = {} /\ queue = <<>> /\ Range(queue) = {}
  BY DEF IInv, Visiting, Range
<1>3. \A t \in X : Deps(t) \cap X # {}
  <2>1. TAKE t \in X
  <2>2. degree[t] # 0
    BY <1>2 DEF IInv, Reached
  <2>3. PICK d \in Deps(t) : d \notin Range(sorted)
    BY <1>2, <2>2, ZeroWaitsForNothing DEF Waits
  <2>4. QED
    BY <2>3 DEF Deps
<1>4. X \subseteq Stuck
  BY <1>1, <1>3 DEF Stuck
<1>5. ASSUME NEW S \in SUBSET created, \A t \in S : References(t) \cap S # {}
      PROVE  S \subseteq X
  BY <1>1, <1>5 DEF IInv, Free
<1>6. Stuck \subseteq X
  BY <1>5 DEF Stuck
<1>7. QED
  BY <1>4, <1>6

\* The sort emits every table exactly once.
THEOREM TablesAreEmittedOnce == Spec => []EveryTableOnce
<1>1. IInv => EveryTableOnce
  BY DEF IInv, Placed, EveryTableOnce
<1>2. QED
  BY <1>1, SortInvariant, PTL

\* Only tables on a cycle of references, or behind one, are out of order.
THEOREM CyclesAreLast == Spec => []OnlyCyclesAreLast
<1>1. IInv => OnlyCyclesAreLast
  BY LeftAreStuck DEF OnlyCyclesAreLast
<1>2. QED
  BY <1>1, SortInvariant, PTL

\* No in-degree is ever decremented below zero.
THEOREM DegreesDoNotUnderflow == Spec => []NoUnderflow
<1>1. IInv => NoUnderflow
  BY DependentsWait DEF NoUnderflow
<1>2. QED
  BY <1>1, SortInvariant, PTL

\* A table that an order can serve comes after everything it references.
THEOREM ReferencedTablesComeFirst == Spec => []ReferencedFirst
<1>1. ASSUME IInv PROVE ReferencedFirst
  <2>1. SUFFICES ASSUME NEW i \in DOMAIN result, result[i] \notin Stuck
                 PROVE  References(result[i]) \subseteq {result[j] : j \in 1 .. i - 1}
    BY DEF ReferencedFirst
  <2>2. /\ result \in Seq(created) /\ sorted \in Seq(created)
        /\ DOMAIN result = 1 .. Len(result) /\ DOMAIN sorted = 1 .. Len(sorted)
        /\ Len(sorted) \in Nat /\ Len(result) \in Nat /\ result[i] \in created
    BY <1>1, <2>1 DEF IInv, TypeOK
  <2>3. pc \in {"rest", "done"}
    <3>1. pc \in {"seed", "sort", "rest", "done"} /\ result # <<>>
      BY <1>1, <2>1, <2>2 DEF IInv, TypeOK
    <3>2. QED
      BY <1>1, <3>1 DEF IInv, Placed
  <2>4. \A k \in 1 .. Len(sorted) : k \in 1 .. Len(result) /\ result[k] = sorted[k]
    BY <1>1, <2>2, <2>3 DEF IInv, Placed
  <2>5. result[i] \in Range(sorted)
    BY <1>1, <2>1, <2>2, <2>3, LeftAreStuck
  <2>6. PICK k \in 1 .. Len(sorted) : result[i] = sorted[k]
    BY <2>2, <2>5 DEF Range
  <2>7. i = k
    <3>1. \A a, b \in 1 .. Len(result) : result[a] = result[b] => a = b
      BY <1>1, <2>2 DEF IInv, Placed, IsInjective
    <3>2. QED
      BY <2>1, <2>2, <2>4, <2>6, <3>1
  <2>8. Deps(sorted[k]) \subseteq {sorted[j] : j \in 1 .. k - 1}
    BY <1>1, <2>2 DEF IInv, Respects
  <2>9. \A j \in 1 .. k - 1 : j \in 1 .. Len(sorted)
    BY <2>2
  <2>10. {sorted[j] : j \in 1 .. k - 1} = {result[j] : j \in 1 .. k - 1}
    BY <2>4, <2>9
  <2>11. References(result[i]) = Deps(sorted[k])
    BY <1>1, <2>6, DepsAreReferences DEF IInv
  <2>12. QED
    BY <2>7, <2>8, <2>10, <2>11
<1>2. QED
  BY <1>1, SortInvariant, PTL

\* Every variable keeps its type.
THEOREM SortTypeCorrect == Spec => []TypeOK
<1>1. IInv => TypeOK
  BY DEF IInv
<1>2. QED
  BY <1>1, SortInvariant, PTL
=============================================================================
