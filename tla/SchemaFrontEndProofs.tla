------------------------ MODULE SchemaFrontEndProofs ------------------------
(***************************************************************************)
(* What the parser and the validator accept is valid as a whole, and its   *)
(* relations pair apart, for every set of sources that the grammar lets    *)
(* one write and every naming of fields and tables.                        *)
(*                                                                         *)
(* The argument: each pass leaves a fact behind about the file it read     *)
(* (PassesInv), and the blocks of a kind, which the parser collects by     *)
(* walking the source, are exactly those of the source, in its order       *)
(* (Ranks, Items).  So a fact about the k-th enum or model is one about    *)
(* a block, and a count of names or tables is their being distinct         *)
(* (CountedOnce).                                                          *)
(***************************************************************************)
EXTENDS SchemaFrontEnd, FiniteSetTheorems, TLAPS

-----------------------------------------------------------------------------
(* Lists: the least index, and the items of a kind.                        *)

LEMMA LeastIsThere ==
  ASSUME NEW S \in SUBSET Nat, S # {}
  PROVE  Least(S) \in S /\ \A i \in S : Least(S) <= i
<1>1. \E i \in S : \A j \in S : <<j, i>> \notin OpToRel(<, Nat)
  BY NatLessThanWellFounded, WFMin
<1>2. PICK i \in S : \A j \in S : <<j, i>> \notin OpToRel(<, Nat)
  BY <1>1
<1>3. \A j \in S : ~ (j < i)
  BY <1>2 DEF OpToRel
<1>4. \A j \in S : i <= j
  BY <1>3, SMT
<1>5. QED
  BY <1>4 DEF Least

At(s, tag, kind) == {i \in DOMAIN s : s[i][tag] = kind}
Rank(s, tag, kind, i) == Cardinality({j \in At(s, tag, kind) : j <= i})

\* As a list has finitely many items, ranks are a bijection: every number up
\* to the last rank is the rank of one item.
LEMMA Ranks ==
  ASSUME NEW s, IsList(s), NEW tag, NEW kind
  PROVE  /\ At(s, tag, kind) \subseteq Nat
         /\ Cardinality(At(s, tag, kind)) \in Nat
         /\ At(s, tag, kind) = {} <=> Cardinality(At(s, tag, kind)) = 0
         /\ \A i \in At(s, tag, kind) : Rank(s, tag, kind, i) \in 1 .. Cardinality(At(s, tag, kind))
         /\ \A i, j \in At(s, tag, kind) :
              i < j => Rank(s, tag, kind, i) < Rank(s, tag, kind, j)
         /\ \A k \in 1 .. Cardinality(At(s, tag, kind)) :
              \E i \in At(s, tag, kind) : Rank(s, tag, kind, i) = k
<1> DEFINE A == At(s, tag, kind)
           Upto(i) == {j \in A : j <= i}
           n == Cardinality(A)
<1>1. DOMAIN s = 1 .. Len(s) /\ Len(s) \in Nat
  BY DEF IsList
<1>2. IsFiniteSet(DOMAIN s)
  BY <1>1, FS_Interval
<1>3. A \subseteq DOMAIN s /\ A \subseteq Nat
  BY <1>1 DEF At
<1>4. IsFiniteSet(A) /\ n \in Nat /\ (A = {} <=> n = 0)
  BY <1>2, <1>3, FS_Subset, FS_CardinalityType, FS_EmptySet
<1>5. \A i \in A : IsFiniteSet(Upto(i)) /\ Cardinality(Upto(i)) \in Nat /\ Cardinality(Upto(i)) <= n
  BY <1>4, FS_Subset, FS_CardinalityType
<1>6. \A i \in A : Cardinality(Upto(i)) # 0
  <2>1. \A i \in A : i \in Upto(i)
    BY <1>3
  <2>2. QED
    BY <1>5, <2>1, FS_EmptySet
<1>7. ASSUME NEW i \in A, NEW j \in A, i < j
      PROVE  Cardinality(Upto(i)) < Cardinality(Upto(j))
  <2>1. Upto(i) \subseteq Upto(j) /\ Upto(i) # Upto(j)
    <3>1. \A k \in A : k <= i => k <= j
      BY <1>3, <1>7
    <3>2. j \in Upto(j) /\ j \notin Upto(i)
      BY <1>3, <1>7
    <3>3. QED
      BY <3>1, <3>2
  <2>2. Cardinality(Upto(i)) <= Cardinality(Upto(j)) /\ Cardinality(Upto(i)) # Cardinality(Upto(j))
    BY <1>5, <2>1, FS_Subset
  <2>3. QED
    BY <1>5, <2>2
<1> DEFINE rank == [i \in A |-> Cardinality(Upto(i))]
<1>8. rank \in Injection(A, 1 .. n)
  <2>1. rank \in [A -> 1 .. n]
    BY <1>4, <1>5, <1>6
  <2>2. \A i, j \in A : i # j => i < j \/ j < i
    BY <1>3
  <2>3. \A i, j \in A : i # j => Cardinality(Upto(i)) # Cardinality(Upto(j))
    BY <1>5, <1>7, <2>2
  <2>4. IsInjective(rank)
    BY <2>3 DEF IsInjective
  <2>5. QED
    BY <2>1, <2>4 DEF Injection
<1>9. rank \in Surjection(A, 1 .. n)
  <2>1. IsFiniteSet(1 .. n) /\ Cardinality(1 .. n) = n
    BY <1>4, FS_Interval
  <2> HIDE DEF rank, n
  <2>2. QED
    BY <1>8, <2>1, FS_Injection DEF n
<1>10. \A k \in 1 .. n : \E i \in A : rank[i] = k
  BY <1>9 DEF Surjection
<1>11. \A i \in A : Rank(s, tag, kind, i) = Cardinality(Upto(i))
  BY DEF Rank
<1>12. \A k \in 1 .. n : \E i \in A : Rank(s, tag, kind, i) = k
  BY <1>10, <1>11
<1>13. \A i \in A : Rank(s, tag, kind, i) \in 1 .. n
  <2>1. \A i \in A : Cardinality(Upto(i)) \in 1 .. n
    BY <1>4, <1>5, <1>6
  <2>2. QED
    BY <1>11, <2>1
<1>14. \A i, j \in A : i < j => Rank(s, tag, kind, i) < Rank(s, tag, kind, j)
  BY <1>7, <1>11
<1>15. QED
  BY <1>3, <1>4, <1>12, <1>13, <1>14

\* Of lists exactly the items of the kind, in their order.
LEMMA Items ==
  ASSUME NEW s, IsList(s), NEW tag, NEW kind
  PROVE  /\ Of(s, tag, kind) \in Seq(Range(s))
         /\ DOMAIN Of(s, tag, kind) = 1 .. Cardinality(At(s, tag, kind))
         /\ Len(Of(s, tag, kind)) = Cardinality(At(s, tag, kind))
         /\ \A k \in DOMAIN Of(s, tag, kind) :
              \E i \in At(s, tag, kind) : Rank(s, tag, kind, i) = k /\ Of(s, tag, kind)[k] = s[i]
         /\ \A i \in At(s, tag, kind) :
              /\ Rank(s, tag, kind, i) \in DOMAIN Of(s, tag, kind)
              /\ Of(s, tag, kind)[Rank(s, tag, kind, i)] = s[i]
<1> DEFINE A == At(s, tag, kind)
           R(i) == Rank(s, tag, kind, i)
           n == Cardinality(A)
           r == Of(s, tag, kind)
<1>1. /\ A \subseteq Nat /\ n \in Nat
      /\ \A i \in A : R(i) \in 1 .. n
      /\ \A i, j \in A : i < j => R(i) < R(j)
      /\ \A k \in 1 .. n : \E i \in A : R(i) = k
  BY Ranks
<1>2. r = [k \in 1 .. n |-> s[CHOOSE i \in A : R(i) = k]]
  BY DEF Of, At, Rank
<1>3. A \subseteq DOMAIN s
  BY DEF At
<1> HIDE DEF A, R, n, r
<1>4. \A i, j \in A : R(i) = R(j) => i = j
  <2>1. \A i, j \in A : i < j \/ j < i \/ i = j
    BY <1>1
  <2>2. QED
    BY <1>1, <2>1
<1>5. \A k \in 1 .. n : LET i == CHOOSE i \in A : R(i) = k IN i \in A /\ R(i) = k /\ r[k] = s[i]
  BY <1>1, <1>2
<1>6. \A i \in A : r[R(i)] = s[i]
  BY <1>1, <1>4, <1>5
<1>7. \A i \in DOMAIN s : s[i] \in Range(s)
  BY DEF Range
<1>8. r \in [1 .. n -> Range(s)]
  BY <1>2, <1>3, <1>5, <1>7
<1>9. r \in Seq(Range(s)) /\ Len(r) = n
  BY <1>1, <1>8
<1>10. DOMAIN r = 1 .. n
  BY <1>8
<1>11. QED
  BY <1>1, <1>5, <1>6, <1>9, <1>10 DEF A, R, n, r

LEMMA ItemsInOrder ==
  ASSUME NEW s, IsList(s), NEW tag, NEW kind
  PROVE  /\ \A x : x \in Range(Of(s, tag, kind)) <=> \E i \in DOMAIN s : x = s[i] /\ s[i][tag] = kind
         /\ Of(s, tag, kind) = << >> <=> \A i \in DOMAIN s : s[i][tag] # kind
<1> DEFINE r == Of(s, tag, kind)
           A == At(s, tag, kind)
<1>1. /\ \A k \in DOMAIN r : \E i \in A : r[k] = s[i]
      /\ \A i \in A : \E k \in DOMAIN r : r[k] = s[i]
      /\ r \in Seq(Range(s)) /\ Len(r) = Cardinality(A) /\ Cardinality(A) \in Nat
      /\ A = {} <=> Cardinality(A) = 0
  BY Items, Ranks
<1>2. \A i : i \in A <=> i \in DOMAIN s /\ s[i][tag] = kind
  BY DEF At
<1> HIDE DEF r, A
<1>3. \A x : x \in Range(r) <=> \E k \in DOMAIN r : x = r[k]
  BY DEF Range
<1>4. \A x : x \in Range(r) <=> \E i \in A : x = s[i]
  BY <1>1, <1>3
<1>5. r = << >> <=> A = {}
  BY <1>1
<1>6. QED
  BY <1>2, <1>4, <1>5 DEF r, A

\* A list with as many values as it has items has each of them once.
LEMMA CountedOnce ==
  ASSUME NEW n \in Nat, NEW f, f \in [1 .. n -> Range(f)], Cardinality(Range(f)) = n
  PROVE  \A i, j \in 1 .. n : f[i] = f[j] => i = j
<1>1. f \in Surjection(1 .. n, Range(f))
  BY DEF Surjection, Range
<1>2. IsFiniteSet(1 .. n) /\ Cardinality(1 .. n) = n
  BY FS_Interval
<1>3. f \in Injection(1 .. n, Range(f))
  BY <1>1, <1>2, FS_Surjection
<1>4. QED
  BY <1>3 DEF Injection, IsInjective

-----------------------------------------------------------------------------
(* The invariant: what each pass has established when the next one comes.  *)

Past(passes) == pass \in passes \/ outcome = "ok"

Parsed == ~SyntaxError(source) /\ file = SchemaFile(source)

KnownDatasource == file.datasource # Null /\ file.datasource.provider \in Providers

EnumsOnce == Len(file.enums) = Cardinality(EnumNames)

Validated ==
  /\ IsList(models) /\ Len(models) <= Len(file.models)
  /\ \A k \in DOMAIN models :
       /\ models[k] = Model(file.models[k]) /\ ModelError(file.models[k]) = "none"
       /\ models[k].name \notin EnumNames
       /\ \A j \in 1 .. k - 1 : models[j].name # models[k].name

TablesOnce ==
  /\ Len(models) = Len(file.models)
  /\ Cardinality({m.table : m \in Range(models)}) = Len(models)

PassesInv ==
  /\ source \in Sources
  /\ outcome = "ok" => pass = "done"
  /\ pass \in {"parse", "datasource", "enums"} => models = << >>
  /\ Past({"datasource", "enums", "models", "relations"}) => Parsed
  /\ Past({"enums", "models", "relations"}) => KnownDatasource
  /\ Past({"models", "relations"}) => EnumsOnce /\ Validated
  /\ Past({"relations"}) => TablesOnce
  /\ outcome = "ok" => \A m \in Range(models) : ~Ambiguous(m)

-----------------------------------------------------------------------------
(* What is validated stays so while the file is unchanged.                 *)

LEMMA KindsStay ==
  ASSUME file' = file
  PROVE  EnumNames' = EnumNames /\ \A t : FieldKind(t)' = FieldKind(t)
<1>1. EnumNames' = EnumNames /\ ModelNames' = ModelNames
  BY DEF EnumNames, ModelNames
<1>2. QED
  BY <1>1 DEF FieldKind

LEMMA ModelsStay ==
  ASSUME file' = file
  PROVE  \A m : Model(m)' = Model(m) /\ ModelError(m)' = ModelError(m)
<1>1. \A t : FieldKind(t)' = FieldKind(t)
  BY KindsStay
<1>2. \A f : Field(f)' = Field(f) /\ FieldError(f)' = FieldError(f)
  BY <1>1 DEF Field, FieldError
<1>3. ASSUME NEW m
      PROVE  Model(m)' = Model(m)
  <2>1. [i \in DOMAIN FieldsOf(m) |-> Field(FieldsOf(m)[i])'] = [i \in DOMAIN FieldsOf(m) |-> Field(FieldsOf(m)[i])]
    BY <1>2
  <2>2. QED
    BY <2>1 DEF Model
<1>4. ASSUME NEW m
      PROVE  ModelError(m)' = ModelError(m)
  <2>1. {i \in DOMAIN FieldsOf(m) : FieldError(FieldsOf(m)[i])' # "none"}
          = {i \in DOMAIN FieldsOf(m) : FieldError(FieldsOf(m)[i]) # "none"}
    BY <1>2
  <2>2. QED
    BY <1>2, <1>3, <2>1 DEF ModelError
<1>5. QED
  BY <1>3, <1>4

LEMMA ErrorsAreErrors ==
  \A m : ModelError(m) # "ok"
<1>1. \A f : FieldError(f) # "ok"
  BY DEF FieldError
<1>2. QED
  BY <1>1 DEF ModelError

LEMMA ParseKeeps ==
  ASSUME PassesInv, Parse
  PROVE  PassesInv'
<1>1. outcome # "ok" /\ models = << >> /\ source' = source /\ models' = << >>
  BY DEF Parse, PassesInv
<1>2. CASE SyntaxError(source)
  BY <1>1, <1>2 DEF PassesInv, Parse, Fail, Past
<1>3. CASE ~SyntaxError(source)
  <2>1. file' = SchemaFile(source) /\ outcome' = outcome /\ pass' = "datasource"
    BY <1>3 DEF Parse, Continue
  <2>2. Parsed'
    BY <1>1, <1>3, <2>1 DEF Parsed
  <2>3. QED
    BY <1>1, <2>1, <2>2 DEF PassesInv, Past
<1>4. QED
  BY <1>2, <1>3

LEMMA DatasourceKeeps ==
  ASSUME PassesInv, ValidateDatasource
  PROVE  PassesInv'
<1>1. outcome # "ok" /\ Parsed /\ Parsed' /\ models = << >> /\ UNCHANGED <<source, file, models>>
  BY DEF ValidateDatasource, PassesInv, Past, Parsed
<1>2. \/ outcome' # "ok" /\ pass' = "done"
      \/ file.datasource # Null /\ file.datasource.provider \in Providers /\ outcome' = outcome /\ pass' = "enums"
  BY DEF ValidateDatasource, Fail, Continue
<1>3. pass' = "enums" => KnownDatasource'
  BY <1>1, <1>2 DEF KnownDatasource
<1>4. QED
  BY <1>1, <1>2, <1>3 DEF PassesInv, Past

LEMMA EnumsKeep ==
  ASSUME PassesInv, ValidateEnums
  PROVE  PassesInv'
<1>1. /\ outcome # "ok" /\ Parsed /\ KnownDatasource /\ models = << >>
      /\ UNCHANGED <<source, file, models>>
  BY DEF ValidateEnums, PassesInv, Past
<1>2. Parsed' /\ KnownDatasource' /\ EnumNames' = EnumNames
  BY <1>1, KindsStay DEF Parsed, KnownDatasource
<1>3. \/ outcome' # "ok" /\ pass' = "done"
      \/ EnumsOnce /\ outcome' = outcome /\ pass' = "models"
  BY DEF ValidateEnums, Fail, Continue, EnumsOnce
<1>4. EnumsOnce => EnumsOnce'
  BY <1>1, <1>2 DEF EnumsOnce
<1>5. Validated'
  <2>1. IsList(<< >>) /\ Len(<< >>) = 0 /\ DOMAIN << >> = {}
    BY DEF IsList
  <2>2. source \in Sources /\ file.models = Of(source, "block", "model")
    BY <1>1 DEF PassesInv, Parsed, SchemaFile
  <2>3. Len(file.models) \in Nat
    BY <2>2, SourceAssumption, Items, Ranks
  <2>4. QED
    BY <1>1, <2>1, <2>3 DEF Validated
<1>6. QED
  BY <1>1, <1>2, <1>3, <1>4, <1>5 DEF PassesInv, Past

LEMMA ModelKeeps ==
  ASSUME PassesInv, ValidateModel
  PROVE  PassesInv'
<1> DEFINE m == file.models[Len(models) + 1]
<1>1. /\ outcome # "ok" /\ Parsed /\ KnownDatasource /\ EnumsOnce /\ Validated
      /\ Len(models) < Len(file.models) /\ UNCHANGED <<source, file>>
  BY DEF ValidateModel, PassesInv, Past
<1>2. Parsed' /\ KnownDatasource' /\ EnumNames' = EnumNames
  BY <1>1, KindsStay DEF Parsed, KnownDatasource
<1>3. EnumsOnce'
  BY <1>1, <1>2 DEF EnumsOnce
<1>4. \/ outcome' # "ok" /\ pass' = "done" /\ UNCHANGED models
      \/ /\ m.name \notin {x.name : x \in Range(models)} \cup EnumNames
         /\ ModelError(m) = "none" /\ models' = Append(models, Model(m))
         /\ outcome' = outcome /\ pass' = "models"
  BY ErrorsAreErrors DEF ValidateModel, Fail, Continue
<1>5. CASE pass' = "done" /\ outcome' # "ok"
  BY <1>1, <1>5 DEF PassesInv, Past
<1>6. CASE /\ m.name \notin {x.name : x \in Range(models)} \cup EnumNames
           /\ ModelError(m) = "none" /\ models' = Append(models, Model(m))
           /\ outcome' = outcome /\ pass' = "models"
  <2> DEFINE n == Len(models)
  <2>1. /\ IsList(models) /\ n \in Nat /\ DOMAIN models = 1 .. n
        /\ \A k \in 1 .. n : models[k] \in Range(models)
    BY <1>1 DEF Validated, IsList, Range
  <2>2. Model(m).name = m.name
    BY DEF Model
  <2> HIDE DEF m, n
  <2>3. /\ Len(models') = n + 1 /\ DOMAIN models' = 1 .. n + 1
        /\ \A k \in 1 .. n : models'[k] = models[k]
        /\ models'[n + 1] = Model(m)
    BY <1>6, <2>1 DEF IsList, n
  <2>4. IsList(models')
    <3>1. models' \in Seq(Range(models) \cup {Model(m)})
      BY <1>6, <2>1 DEF IsList
    <3>2. \A k \in 1 .. n + 1 : models'[k] \in Range(models')
      BY <2>3 DEF Range
    <3>3. models' = [k \in 1 .. n + 1 |-> models'[k]]
      BY <2>3, <3>1
    <3>4. QED
      BY <2>1, <3>2, <3>3 DEF IsList
  <2>5. Len(file.models) = Len(file'.models) /\ Len(models') <= Len(file'.models)
    <3>1. Len(file.models) \in Nat
      <4>1. source \in Sources /\ file.models = Of(source, "block", "model")
        BY <1>1 DEF PassesInv, Parsed, SchemaFile
      <4>2. QED
        BY <4>1, SourceAssumption, Items, Ranks
    <3>2. QED
      BY <1>1, <2>1, <2>3, <3>1 DEF n
  <2>6. ASSUME NEW k \in 1 .. n + 1
        PROVE  /\ models'[k] = Model(file.models[k])' /\ ModelError(file.models[k])' = "none"
               /\ models'[k].name \notin EnumNames'
               /\ \A j \in 1 .. k - 1 : models'[j].name # models'[k].name
    <3>1. Model(file.models[k])' = Model(file.models[k]) /\ ModelError(file.models[k])' = ModelError(file.models[k])
      BY <1>1, ModelsStay
    <3>2. CASE k \in 1 .. n
      <4>1. /\ models[k] = Model(file.models[k]) /\ ModelError(file.models[k]) = "none"
            /\ models[k].name \notin EnumNames
            /\ \A j \in 1 .. k - 1 : models[j].name # models[k].name
        BY <1>1, <2>1, <3>2 DEF Validated
      <4>2. \A j \in 1 .. k - 1 : j \in 1 .. n
        BY <2>1, <3>2
      <4>3. QED
        BY <1>2, <2>3, <3>1, <3>2, <4>1, <4>2
    <3>3. CASE k = n + 1
      <4>1. models'[k] = Model(m) /\ models'[k].name = m.name /\ m = file.models[k]
        BY <2>2, <2>3, <3>3 DEF m, n
      <4>2. \A j \in 1 .. n : models'[j].name # m.name
        BY <1>6, <2>1, <2>3
      <4>3. k - 1 = n
        BY <2>1, <3>3
      <4>4. QED
        BY <1>2, <1>6, <3>1, <4>1, <4>2, <4>3
    <3>4. QED
      BY <2>1, <3>2, <3>3
  <2>7. Validated'
    BY <2>3, <2>4, <2>5, <2>6 DEF Validated
  <2>8. QED
    BY <1>1, <1>2, <1>3, <1>6, <2>7 DEF PassesInv, Past
<1>7. QED
  BY <1>4, <1>5, <1>6

LEMMA TablesKeep ==
  ASSUME PassesInv, ValidateUniqueDbNames
  PROVE  PassesInv'
<1>1. /\ outcome # "ok" /\ Parsed /\ KnownDatasource /\ EnumsOnce /\ Validated
      /\ Len(models) = Len(file.models) /\ UNCHANGED <<source, file, models>>
  BY DEF ValidateUniqueDbNames, PassesInv, Past
<1>2. Parsed' /\ KnownDatasource' /\ EnumNames' = EnumNames
  BY <1>1, KindsStay DEF Parsed, KnownDatasource
<1>3. EnumsOnce' /\ Validated'
  BY <1>1, <1>2, ModelsStay DEF EnumsOnce, Validated
<1>4. \/ outcome' # "ok" /\ pass' = "done"
      \/ /\ Cardinality({m.table : m \in Range(models)}) = Len(models)
         /\ outcome' = outcome /\ pass' = "relations"
  BY DEF ValidateUniqueDbNames, Fail, Continue
<1>5. pass' = "relations" => TablesOnce'
  BY <1>1, <1>4 DEF TablesOnce
<1>6. QED
  BY <1>1, <1>2, <1>3, <1>4, <1>5 DEF PassesInv, Past

LEMMA RelationsKeep ==
  ASSUME PassesInv, ValidateRelationDisambiguation
  PROVE  PassesInv'
<1>1. /\ Parsed /\ KnownDatasource /\ EnumsOnce /\ Validated /\ TablesOnce
      /\ UNCHANGED <<source, file, models>> /\ pass' = "done"
  BY DEF ValidateRelationDisambiguation, PassesInv, Past, Fail
<1>2. Parsed' /\ KnownDatasource' /\ EnumNames' = EnumNames /\ TablesOnce'
  BY <1>1, KindsStay DEF Parsed, KnownDatasource, TablesOnce
<1>3. EnumsOnce' /\ Validated'
  BY <1>1, <1>2, ModelsStay DEF EnumsOnce, Validated
<1>4. outcome' = "ok" => \A m \in Range(models) : ~Ambiguous(m)
  BY DEF ValidateRelationDisambiguation, Fail
<1>5. outcome' = "ok" => (\A m \in Range(models) : ~Ambiguous(m))'
  BY <1>1, <1>4 DEF Ambiguous
<1>6. QED
  BY <1>1, <1>2, <1>3, <1>5 DEF PassesInv, Past

\* Whatever is written, a pass finds what the passes before it have checked.
THEOREM PassesHold == Spec => []PassesInv
<1>1. Init => PassesInv
  BY DEF Init, PassesInv, Past
<1>2. PassesInv /\ [Next]_vars => PassesInv'
  <2>1. ASSUME PassesInv, UNCHANGED vars
        PROVE  PassesInv'
    <3>1. UNCHANGED <<source, pass, file, models, outcome>>
      BY <2>1 DEF vars
    <3>2. EnumNames' = EnumNames /\ \A m : Model(m)' = Model(m) /\ ModelError(m)' = ModelError(m)
      BY <3>1, KindsStay, ModelsStay
    <3>3. EnumsOnce' = EnumsOnce /\ (Validated => Validated')
      BY <3>1, <3>2 DEF EnumsOnce, Validated
    <3>4. /\ Parsed' = Parsed /\ KnownDatasource' = KnownDatasource /\ TablesOnce' = TablesOnce
          /\ \A m : Ambiguous(m)' = Ambiguous(m)
      BY <3>1 DEF Parsed, KnownDatasource, TablesOnce, Ambiguous
    <3>5. QED
      BY <2>1, <3>1, <3>3, <3>4 DEF PassesInv, Past
  <2>2. QED
    BY <2>1, ParseKeeps, DatasourceKeeps, EnumsKeep, ModelKeeps, TablesKeep, RelationsKeep DEF Next
<1>3. QED
  BY <1>1, <1>2, PTL DEF Spec

-----------------------------------------------------------------------------
(* What an accepted source consists of.                                    *)

\* The file of a source lists its blocks.
LEMMA FileOfSource ==
  ASSUME source \in Sources, file = SchemaFile(source)
  PROVE  /\ file.enums = Of(source, "block", "enum") /\ file.models = Of(source, "block", "model")
         /\ file.datasource = LastOf(Of(source, "block", "datasource"), Null)
         /\ IsList(source) /\ DOMAIN file.models = 1 .. Len(file.models) /\ Len(file.models) \in Nat
         /\ \A m \in Range(file.models) : /\ m \in Range(source) /\ m.block = "model" /\ IsList(m.members)
                                          /\ \A x \in Range(m.members) : x.member = "field" => IsList(x.attributes)
<1>1. /\ file.enums = Of(source, "block", "enum") /\ file.models = Of(source, "block", "model")
      /\ file.datasource = LastOf(Of(source, "block", "datasource"), Null)
  BY DEF SchemaFile
<1>2. IsList(source)
  BY SourceAssumption
<1>3. DOMAIN file.models = 1 .. Len(file.models) /\ Len(file.models) \in Nat
  BY <1>1, <1>2, Items, Ranks
<1>4. \A m \in Range(file.models) : \E i \in DOMAIN source : m = source[i] /\ source[i]["block"] = "model"
  BY <1>1, <1>2, ItemsInOrder
<1>5. \A m \in Range(file.models) : m \in Range(source) /\ m.block = "model"
  BY <1>4 DEF Range
<1>6. QED
  BY <1>1, <1>2, <1>3, <1>5, SourceAssumption

LEMMA FieldsOfModel ==
  ASSUME NEW m, IsList(m.members), \A x \in Range(m.members) : x.member = "field" => IsList(x.attributes)
  PROVE  /\ DOMAIN FieldsOf(m) = 1 .. Len(FieldsOf(m)) /\ Len(FieldsOf(m)) \in Nat
         /\ \A x : x \in Range(FieldsOf(m)) <=> x \in Range(m.members) /\ x.member = "field"
         /\ \A x \in Range(FieldsOf(m)) : IsList(x.attributes)
<1>1. DOMAIN FieldsOf(m) = 1 .. Len(FieldsOf(m)) /\ Len(FieldsOf(m)) \in Nat
  BY Items, Ranks DEF FieldsOf
<1>2. \A x : x \in Range(FieldsOf(m)) <=> \E i \in DOMAIN m.members : x = m.members[i] /\ m.members[i]["member"] = "field"
  BY ItemsInOrder DEF FieldsOf
<1>3. \A x : x \in Range(m.members) <=> \E i \in DOMAIN m.members : x = m.members[i]
  BY DEF Range
<1>4. \A x : x \in Range(FieldsOf(m)) <=> x \in Range(m.members) /\ x.member = "field"
  BY <1>2, <1>3
<1>5. QED
  BY <1>1, <1>4

\* The first error is an error: a model without one has none in any field and
\* in any part of its key.
LEMMA NoErrors ==
  ASSUME NEW m, IsList(m.members), \A x \in Range(m.members) : x.member = "field" => IsList(x.attributes),
         ModelError(m) = "none"
  PROVE  \A f \in Range(FieldsOf(m)) : FieldError(f) = "none"
<1> DEFINE parsed == FieldsOf(m)
           wrong == {i \in DOMAIN parsed : FieldError(parsed[i]) # "none"}
<1>1. wrong \subseteq Nat
  BY FieldsOfModel
<1>2. wrong # {} => Least(wrong) \in wrong
  BY <1>1, LeastIsThere
<1>3. wrong # {} => FieldError(parsed[Least(wrong)]) # "none"
  BY <1>2
<1>4. wrong # {} => ModelError(m) = FieldError(parsed[Least(wrong)])
  BY DEF ModelError
<1>5. wrong = {}
  BY <1>3, <1>4
<1>6. QED
  BY <1>5 DEF Range

\* The fields of a validated model are those of its block.
LEMMA FieldsValidated ==
  ASSUME NEW m
  PROVE  /\ Model(m).name = m.name /\ DOMAIN Model(m).fields = DOMAIN FieldsOf(m)
         /\ \A i \in DOMAIN FieldsOf(m) : Model(m).fields[i] = Field(FieldsOf(m)[i])
<1>1. Model(m).name = m.name
  BY DEF Model
<1>2. Model(m).fields = [i \in DOMAIN FieldsOf(m) |-> Field(FieldsOf(m)[i])]
  BY DEF Model
<1>3. QED
  BY <1>1, <1>2

\* The models of an accepted source are the validated blocks, one for one.
LEMMA AcceptedModels ==
  ASSUME PassesInv, outcome = "ok"
  PROVE  /\ Parsed /\ KnownDatasource /\ EnumsOnce /\ Validated /\ TablesOnce
         /\ DOMAIN models = DOMAIN file.models
         /\ \A x : x \in Range(models) <=> \E m \in Range(file.models) : x = Model(m)
         /\ \A m \in Range(file.models) :
              /\ ModelError(m) = "none" /\ IsList(m.members)
              /\ \A x \in Range(m.members) : x.member = "field" => IsList(x.attributes)
              /\ m \in Range(source) /\ m.block = "model"
         /\ \A m \in Range(models) : ~Ambiguous(m)
<1>1. /\ source \in Sources /\ Parsed /\ KnownDatasource /\ EnumsOnce /\ Validated /\ TablesOnce
      /\ \A m \in Range(models) : ~Ambiguous(m)
  BY DEF PassesInv, Past
<1>2. file = SchemaFile(source)
  BY <1>1 DEF Parsed
<1>3. /\ DOMAIN file.models = 1 .. Len(file.models)
      /\ \A m \in Range(file.models) : /\ m \in Range(source) /\ m.block = "model" /\ IsList(m.members)
                                       /\ \A x \in Range(m.members) : x.member = "field" => IsList(x.attributes)
  BY <1>1, <1>2, FileOfSource
<1>4. DOMAIN models = DOMAIN file.models
  BY <1>1, <1>3 DEF TablesOnce, Validated, IsList
<1>5. \A k \in DOMAIN models : models[k] = Model(file.models[k]) /\ ModelError(file.models[k]) = "none"
  BY <1>1 DEF Validated
<1>6. \A m : m \in Range(file.models) <=> \E k \in DOMAIN models : m = file.models[k]
  BY <1>4 DEF Range
<1>7. \A x : x \in Range(models) <=> \E k \in DOMAIN models : x = models[k]
  BY DEF Range
<1>8. \A x : x \in Range(models) <=> \E m \in Range(file.models) : x = Model(m)
  BY <1>5, <1>6, <1>7
<1>9. \A m \in Range(file.models) : ModelError(m) = "none"
  BY <1>5, <1>6
<1>10. QED
  BY <1>1, <1>3, <1>4, <1>8, <1>9

-----------------------------------------------------------------------------
(* The two sides of a relation.                                            *)

\* No model is called like a scalar.  Nothing in the validator sees to it: a
\* field of that type is a scalar for validate_relation_disambiguation and a
\* relation for collect_relations.
ScalarsAreTypes ==
  \A s \in Sources : \A b \in Range(s) : b.block = "model" => b.name \notin Scalars

\* So a field whose type is the name of a model is a relation for both.
LEMMA TypesOfModels ==
  ASSUME ScalarsAreTypes, PassesInv, outcome = "ok",
         NEW m \in Range(models), NEW f \in Range(m.fields), NEW c \in Range(models), c.name = f.type
  PROVE  f.kind = "model"
<1>1. PICK b \in Range(file.models) : c = Model(b)
  BY AcceptedModels
<1>2. f.type = b.name /\ f.type \in ModelNames
  BY <1>1, FieldsValidated DEF ModelNames
<1>3. f.type \notin Scalars
  BY <1>1, <1>2, AcceptedModels DEF ScalarsAreTypes, PassesInv
<1>4. f.type \notin EnumNames
  <2>1. PICK k \in DOMAIN models : c = models[k]
    BY DEF Range
  <2>2. Validated
    BY AcceptedModels
  <2>3. QED
    BY <2>1, <2>2 DEF Validated
<1>5. FieldKind(f.type) = "model"
  BY <1>2, <1>3, <1>4 DEF FieldKind
<1>6. PICK d \in Range(file.models) : m = Model(d)
  BY AcceptedModels
<1>7. PICK i \in DOMAIN m.fields : f = m.fields[i]
  BY DEF Range
<1>8. f = Field(FieldsOf(d)[i])
  BY <1>6, <1>7, FieldsValidated
<1>9. f.kind = FieldKind(f.type)
  BY <1>8 DEF Field
<1>10. QED
  BY <1>5, <1>9

LEMMA LoadedAreRelations ==
  ASSUME ScalarsAreTypes, PassesInv, outcome = "ok", NEW m \in Range(models), NEW f \in LoadedThroughChild(m)
  PROVE  /\ f \in Range(m.fields) /\ f.kind = "model" /\ ~OwnsKey(f)
         /\ Child(f) \in Range(models) /\ Child(f).name = f.type
<1>1. f \in Range(m.fields) /\ ~OwnsKey(f)
  BY DEF LoadedThroughChild
<1>2. PICK c \in Range(models) : c.name = f.type
  BY DEF LoadedThroughChild
<1>3. Child(f) \in Range(models) /\ Child(f).name = f.type
  BY <1>2 DEF Child
<1>4. QED
  BY <1>1, <1>2, <1>3, TypesOfModels

\* Fields of an accepted model that load one and the same model through its
\* foreign keys have names, and different ones (validate_relation_disambiguation).
LEMMA NamedApart ==
  ASSUME ScalarsAreTypes, PassesInv, outcome = "ok", NEW m \in Range(models),
         NEW f \in LoadedThroughChild(m), NEW g \in LoadedThroughChild(m), f # g, f.type = g.type
  PROVE  NameOf(f) # Null /\ NameOf(g) # Null /\ NameOf(f) # NameOf(g)
<1>1. /\ f \in Range(m.fields) /\ f.kind = "model" /\ ~OwnsKey(f)
      /\ g \in Range(m.fields) /\ g.kind = "model" /\ ~OwnsKey(g)
  BY LoadedAreRelations
<1>2. PICK i \in DOMAIN m.fields, j \in DOMAIN m.fields : f = m.fields[i] /\ g = m.fields[j] /\ i # j
  BY <1>1 DEF Range
<1>3. i \in Group(m, f.type, FALSE) /\ j \in Group(m, f.type, FALSE)
  BY <1>1, <1>2 DEF Group
<1>4. ~Ambiguous(m)
  BY AcceptedModels
<1>5. QED
  BY <1>2, <1>3, <1>4 DEF Ambiguous

\* RelationsPairApart: two relations of a model of an accepted schema never
\* load through the same foreign key, because the disambiguation leaves the
\* fields of one group distinct names (validate_relation_disambiguation,
\* find_back_reference).
THEOREM PairedApart ==
  ASSUME ScalarsAreTypes
  PROVE  Spec => []RelationsPairApart
<1>1. PassesInv => RelationsPairApart
  <2> SUFFICES ASSUME PassesInv, outcome = "ok", NEW m \in Range(models),
                      NEW f \in LoadedThroughChild(m), NEW g \in LoadedThroughChild(m),
                      f # g, f.type = g.type, FindBackReference(m, Child(f), NameOf(f)) # 0,
                      FindBackReference(m, Child(f), NameOf(f)) = FindBackReference(m, Child(g), NameOf(g))
               PROVE  FALSE
    BY DEF RelationsPairApart
  <2>1. Child(f) \in Range(models)
    BY LoadedAreRelations
  <2>2. NameOf(f) # Null /\ NameOf(g) # Null /\ NameOf(f) # NameOf(g)
    BY NamedApart
  <2> DEFINE c == Child(f)
             k == FindBackReference(m, c, NameOf(f))
  <2>3. Child(g) = c
    BY DEF Child
  <2>4. DOMAIN c.fields \subseteq Nat
    <3>1. PICK b \in Range(file.models) : c = Model(b)
      BY <2>1, AcceptedModels
    <3>2. DOMAIN c.fields = 1 .. Len(FieldsOf(b)) /\ Len(FieldsOf(b)) \in Nat
      BY <3>1, AcceptedModels, FieldsOfModel, FieldsValidated
    <3>3. QED
      BY <3>2
  <2> HIDE DEF c
  <2>5. ASSUME NEW name, name # Null, FindBackReference(m, c, name) # 0
        PROVE  NameOf(c.fields[FindBackReference(m, c, name)]) = name
    <3> DEFINE found == BackReferences(m, c, name)
    <3>1. found # {} /\ FindBackReference(m, c, name) = Least(found)
      BY <2>5 DEF FindBackReference
    <3>2. found \subseteq DOMAIN c.fields
      BY DEF BackReferences
    <3> HIDE DEF found
    <3>3. Least(found) \in found
      BY <2>4, <3>1, <3>2, LeastIsThere
    <3>4. QED
      BY <2>5, <3>1, <3>3 DEF BackReferences, found
  <2>6. NameOf(c.fields[k]) = NameOf(f) /\ NameOf(c.fields[k]) = NameOf(g)
    BY <2>2, <2>3, <2>5 DEF c
  <2>7. QED
    BY <2>2, <2>6
<1>2. QED
  BY <1>1, PassesHold, PTL

\* A list field with a name means at most one foreign key of the other model,
\* whichever find_back_reference comes upon first.  One without a name may mean
\* several: OneBackReference is refuted.
NamedMeansOne ==
  outcome = "ok" =>
    \A m \in Range(models) : \A f \in LoadedThroughChild(m) :
      NameOf(f) # Null => \A i, j \in BackReferences(m, Child(f), NameOf(f)) : i = j

THEOREM NamedFieldsMeanOneKey ==
  ASSUME ScalarsAreTypes
  PROVE  Spec => []NamedMeansOne
<1>1. PassesInv => NamedMeansOne
  <2> SUFFICES ASSUME PassesInv, outcome = "ok", NEW m \in Range(models),
                      NEW f \in LoadedThroughChild(m), NameOf(f) # Null,
                      NEW i \in BackReferences(m, Child(f), NameOf(f)),
                      NEW j \in BackReferences(m, Child(f), NameOf(f)), i # j
               PROVE  FALSE
    BY DEF NamedMeansOne
  <2> DEFINE c == Child(f)
  <2>1. c \in Range(models)
    BY LoadedAreRelations
  <2> HIDE DEF c
  <2>2. ASSUME NEW k \in BackReferences(m, c, NameOf(f))
        PROVE  /\ k \in DOMAIN c.fields /\ c.fields[k].type = m.name
               /\ OwnsKey(c.fields[k]) /\ NameOf(c.fields[k]) = NameOf(f)
    BY DEF BackReferences
  <2>3. i \in BackReferences(m, c, NameOf(f)) /\ j \in BackReferences(m, c, NameOf(f))
    BY DEF c
  <2>4. \A k \in {i, j} : c.fields[k] \in Range(c.fields)
    BY <2>2, <2>3 DEF Range
  <2>5. \A k \in {i, j} : c.fields[k].kind = "model"
    BY <2>1, <2>2, <2>3, <2>4, TypesOfModels
  <2>6. OwnsKey(c.fields[i]) = TRUE /\ OwnsKey(c.fields[j]) = TRUE
    BY <2>2, <2>3 DEF OwnsKey
  <2>7. i \in Group(c, m.name, TRUE) /\ j \in Group(c, m.name, TRUE)
    BY <2>2, <2>3, <2>5, <2>6 DEF Group
  <2>8. m.name \in {c.fields[k].type : k \in DOMAIN c.fields}
    BY <2>2, <2>3
  <2>9. ~Ambiguous(c)
    BY <2>1, AcceptedModels
  <2>10. NameOf(c.fields[i]) = NameOf(c.fields[j])
    BY <2>2, <2>3
  <2>11. QED
    BY <2>7, <2>8, <2>9, <2>10 DEF Ambiguous
<1>2. QED
  BY <1>1, PassesHold, PTL

-----------------------------------------------------------------------------
(* An accepted schema is valid as a whole.                                 *)

\* Of several datasource blocks the last one is used, and it is known
\* (parse, validate_datasource).
LEMMA DatasourceIsKnown ==
  ASSUME PassesInv, outcome = "ok"
  PROVE  /\ \E b \in Range(source) : b.block = "datasource"
         /\ \A i \in DOMAIN source :
              source[i].block = "datasource" /\ (\A j \in DOMAIN source : source[j].block = "datasource" => j <= i)
                => source[i].provider \in Providers
<1> DEFINE blocks == Of(source, "block", "datasource")
           A == At(source, "block", "datasource")
           R(i) == Rank(source, "block", "datasource", i)
           n == Cardinality(A)
<1>1. IsList(source) /\ file.datasource = LastOf(blocks, Null) /\ KnownDatasource
  BY AcceptedModels, FileOfSource DEF Parsed, PassesInv
<1>2. blocks # << >> /\ file.datasource = blocks[Len(blocks)]
  BY <1>1 DEF LastOf, KnownDatasource
<1>3. \A i : i \in A <=> i \in DOMAIN source /\ source[i].block = "datasource"
  BY DEF At
<1>4. /\ Len(blocks) = n /\ n \in Nat /\ A \subseteq Nat
      /\ \A i \in A : R(i) \in 1 .. n /\ blocks[R(i)] = source[i]
      /\ \A i, j \in A : i < j => R(i) < R(j)
      /\ \A k \in 1 .. n : \E i \in A : R(i) = k
      /\ A = {} <=> n = 0
  BY <1>1, Items, Ranks
<1>5. blocks = << >> <=> A = {}
  <2>1. blocks = << >> <=> \A i \in DOMAIN source : source[i]["block"] # "datasource"
    BY <1>1, ItemsInOrder
  <2>2. QED
    BY <1>3, <2>1
<1> HIDE DEF blocks, A, R, n
<1>6. n \in 1 .. n /\ A # {}
  BY <1>2, <1>4, <1>5
<1>7. PICK last \in A : R(last) = n
  BY <1>4, <1>6
<1>8. source[last] = file.datasource
  BY <1>2, <1>4, <1>7
<1>9. ASSUME NEW i \in A, \A j \in A : j <= i
      PROVE  i = last
  <2>1. last <= i /\ i \in Nat /\ last \in Nat
    BY <1>4, <1>7, <1>9
  <2>2. ~ (last < i)
    BY <1>4, <1>7, <1>9
  <2>3. QED
    BY <2>1, <2>2
<1>10. \A i \in A : (\A j \in A : j <= i) => source[i].provider \in Providers
  BY <1>1, <1>8, <1>9 DEF KnownDatasource
<1>11. \E b \in Range(source) : b.block = "datasource"
  BY <1>3, <1>7 DEF Range
<1>12. QED
  BY <1>3, <1>10, <1>11

\* Every enum and every model has a name of its own (validate_enums,
\* validate_models).
LEMMA NamesAreTakenOnce ==
  ASSUME PassesInv, outcome = "ok",
         NEW i \in DOMAIN source, NEW j \in DOMAIN source, i # j,
         source[i].block \in {"enum", "model"}, source[j].block \in {"enum", "model"}
  PROVE  source[i].name # source[j].name
<1> DEFINE R(kind, k) == Rank(source, "block", kind, k)
           A(kind) == At(source, "block", kind)
<1>1. /\ IsList(source) /\ file.enums = Of(source, "block", "enum") /\ file.models = Of(source, "block", "model")
      /\ EnumsOnce /\ Validated /\ DOMAIN models = DOMAIN file.models
  BY AcceptedModels, FileOfSource DEF Parsed, PassesInv
<1>2. /\ \A k \in A("enum") : R("enum", k) \in DOMAIN file.enums /\ file.enums[R("enum", k)] = source[k]
      /\ \A k \in A("model") : R("model", k) \in DOMAIN file.models /\ file.models[R("model", k)] = source[k]
      /\ \A k, l \in A("enum") : k < l => R("enum", k) < R("enum", l)
      /\ \A k, l \in A("model") : k < l => R("model", k) < R("model", l)
      /\ A("enum") \subseteq Nat /\ A("model") \subseteq Nat
      /\ Len(file.enums) \in Nat /\ DOMAIN file.enums = 1 .. Len(file.enums)
      /\ Len(file.models) \in Nat /\ DOMAIN file.models = 1 .. Len(file.models)
  BY <1>1, Items, Ranks
<1>3. \A kind : \A k \in DOMAIN source : source[k].block = kind => k \in A(kind)
  BY DEF At
<1>4. i \in A("enum") \cup A("model") /\ j \in A("enum") \cup A("model")
  BY <1>3
<1> HIDE DEF R, A
<1>5. \A k \in A("enum") : source[k].name \in EnumNames
  <2>1. \A k \in A("enum") : source[k] \in Range(file.enums)
    BY <1>2 DEF Range
  <2>2. QED
    BY <2>1 DEF EnumNames
<1>6. /\ \A k \in DOMAIN models : models[k].name = file.models[k].name
      /\ \A k \in DOMAIN models : models[k].name \notin EnumNames /\ \A l \in 1 .. k - 1 : models[l].name # models[k].name
  BY <1>1, FieldsValidated DEF Validated
<1>7. \A k \in A("model") : R("model", k) \in DOMAIN models /\ models[R("model", k)].name = source[k].name
  BY <1>1, <1>2, <1>6
<1>8. ASSUME NEW k \in A("model"), NEW l \in A("model"), k < l
      PROVE  source[k].name # source[l].name
  <2>1. R("model", k) \in 1 .. R("model", l) - 1
    BY <1>2, <1>8
  <2>2. QED
    BY <1>6, <1>7, <2>1
<1>9. ASSUME NEW k \in A("enum"), NEW l \in A("enum"), k < l
      PROVE  source[k].name # source[l].name
  <2> DEFINE names == [x \in 1 .. Len(file.enums) |-> file.enums[x].name]
  <2>1. Range(names) = EnumNames
    BY <1>2 DEF Range, EnumNames
  <2>2. names \in [1 .. Len(file.enums) -> Range(names)] /\ Cardinality(Range(names)) = Len(file.enums)
    BY <1>1, <2>1 DEF EnumsOnce, Range
  <2>3. \A x, y \in 1 .. Len(file.enums) : names[x] = names[y] => x = y
    <3> HIDE DEF names
    <3> QED
      BY <1>2, <2>2, CountedOnce
  <2>4. R("enum", k) # R("enum", l) /\ R("enum", k) \in DOMAIN file.enums /\ R("enum", l) \in DOMAIN file.enums
    BY <1>2, <1>9
  <2>5. file.enums[R("enum", k)].name # file.enums[R("enum", l)].name
    BY <1>2, <2>3, <2>4
  <2>6. QED
    BY <1>2, <2>5
<1>10. \A k \in A("enum"), l \in A("model") : source[k].name # source[l].name
  BY <1>5, <1>6, <1>7
<1>11. i < j \/ j < i
  BY <1>2, <1>4
<1>12. QED
  BY <1>4, <1>8, <1>9, <1>10, <1>11

\* A field that is written passed every check of validate_field.
LEMMA FieldsAreChecked ==
  ASSUME PassesInv, outcome = "ok", NEW f \in FieldsIn(source)
  PROVE  /\ FieldError(f) = "none" /\ IsList(f.attributes)
         /\ \A a \in Range(Attributes(f, "default")) : a.call => a.value \in DefaultFunctions
<1>1. PICK b \in Range(source) : b.block = "model" /\ f \in Range(FieldsOf(b))
  BY DEF FieldsIn
<1>2. PICK i \in DOMAIN source : b = source[i] /\ source[i]["block"] = "model"
  BY <1>1 DEF Range
<1>3. IsList(source) /\ file.models = Of(source, "block", "model") /\ ~SyntaxError(source)
  BY AcceptedModels, FileOfSource DEF Parsed, PassesInv
<1>4. b \in Range(file.models)
  BY <1>2, <1>3, ItemsInOrder
<1>5. /\ ModelError(b) = "none" /\ IsList(b.members)
      /\ \A x \in Range(b.members) : x.member = "field" => IsList(x.attributes)
  BY <1>4, AcceptedModels
<1>6. FieldError(f) = "none" /\ IsList(f.attributes)
  BY <1>1, <1>5, NoErrors, FieldsOfModel
<1>7. PICK j \in DOMAIN FieldsOf(source[i]) : f = FieldsOf(source[i])[j]
  BY <1>1, <1>2 DEF Range
<1>8. \A a \in Range(Attributes(f, "default")) : ~ (a.call /\ a.value \notin DefaultFunctions)
  BY <1>2, <1>3, <1>7 DEF SyntaxError
<1>9. QED
  BY <1>6, <1>8

LEMMA FieldsAreValid ==
  ASSUME PassesInv, outcome = "ok", NEW f \in FieldsIn(source)
  PROVE  /\ f.name \notin Keywords
         /\ f.type \in Scalars \cup {b.name : b \in {b \in Range(source) : b.block \in {"enum", "model"}}}
         /\ \A a \in Range(f.attributes) :
              /\ a.attr = "id" => f.modifier # "optional"
              /\ a.attr = "default" /\ a.call => a.value \in DefaultFunctions
              /\ a.attr = "relation" =>
                   LET r == RelationAttribute(a.args) IN Len(r.fields) = Len(r.references)
         /\ FirstOf(Attributes(f, "default"), [call |-> FALSE, value |-> Null])
                = [attr |-> "default", call |-> TRUE, value |-> "autoincrement"]
            => f.type \in {"Int", "BigInt"}
<1>1. /\ FieldError(f) = "none" /\ IsList(f.attributes)
      /\ \A a \in Range(Attributes(f, "default")) : a.call => a.value \in DefaultFunctions
  BY FieldsAreChecked
<1> DEFINE default == FirstOf(Attributes(f, "default"), [call |-> FALSE, value |-> Null])
<1>2. /\ f.name \notin Keywords /\ FieldKind(f.type) # Null
      /\ ~ (Field(f).id /\ f.modifier = "optional")
      /\ ~ (default.call /\ default.value = "autoincrement" /\ f.type \notin {"Int", "BigInt"})
      /\ \A a \in Range(Attributes(f, "relation")) :
           LET r == RelationAttribute(a.args) IN Len(r.fields) = Len(r.references)
  <2> HIDE DEF default
  <2>1. /\ f.name \notin Keywords /\ FieldKind(f.type) # Null
        /\ ~ (Field(f).id /\ f.modifier = "optional")
    BY <1>1 DEF FieldError
  <2>2. ~ (default.call /\ default.value = "autoincrement" /\ f.type \notin {"Int", "BigInt"})
    BY <1>1 DEF FieldError, default
  <2>3. \A a \in Range(Attributes(f, "relation")) :
          LET r == RelationAttribute(a.args) IN Len(r.fields) = Len(r.references)
    BY <1>1 DEF FieldError
  <2>4. QED
    BY <2>1, <2>2, <2>3
<1>3. \A kind : \A a \in Range(f.attributes) :
        a.attr = kind => a \in Range(Attributes(f, kind)) /\ Attributes(f, kind) # << >>
  <2> SUFFICES ASSUME NEW kind, NEW i \in DOMAIN f.attributes, f.attributes[i]["attr"] = kind
               PROVE  f.attributes[i] \in Range(Attributes(f, kind)) /\ Attributes(f, kind) # << >>
    BY DEF Range
  <2> QED
    BY <1>1, ItemsInOrder DEF Attributes
<1>4. Field(f).id = (Attributes(f, "id") # << >>)
  BY DEF Field
<1>5. f.type \in Scalars \cup EnumNames \cup ModelNames
  BY <1>2 DEF FieldKind
<1>6. \A b \in Range(file.enums) \cup Range(file.models) : b \in Range(source) /\ b.block \in {"enum", "model"}
  <2>1. IsList(source) /\ file.enums = Of(source, "block", "enum") /\ file.models = Of(source, "block", "model")
    BY AcceptedModels, FileOfSource DEF Parsed, PassesInv
  <2>2. \A b \in Range(file.enums) \cup Range(file.models) :
          \E i \in DOMAIN source : b = source[i] /\ source[i]["block"] \in {"enum", "model"}
    BY <2>1, ItemsInOrder
  <2>3. QED
    BY <2>2 DEF Range
<1>7. f.type \in Scalars \cup {b.name : b \in {b \in Range(source) : b.block \in {"enum", "model"}}}
  BY <1>5, <1>6 DEF EnumNames, ModelNames
<1>8. default = [attr |-> "default", call |-> TRUE, value |-> "autoincrement"] => f.type \in {"Int", "BigInt"}
  <2> HIDE DEF default
  <2> QED
    BY <1>2
<1>9. QED
  BY <1>1, <1>2, <1>3, <1>4, <1>7, <1>8

\* Every model has a key of fields that are its own (validate_model).
LEMMA KeysAreThere ==
  ASSUME PassesInv, outcome = "ok", NEW m \in Range(models)
  PROVE  m.primaryKey # << >> /\ \A n \in Range(m.primaryKey) : Resolves(Range(m.fields), n)
<1>1. PICK b \in Range(file.models) : m = Model(b)
  BY AcceptedModels
<1>2. /\ ModelError(b) = "none" /\ IsList(b.members) /\ b \in Range(source) /\ b.block = "model"
      /\ \A x \in Range(b.members) : x.member = "field" => IsList(x.attributes)
  BY AcceptedModels
<1>3. \A f \in Range(FieldsOf(b)) : FieldError(f) = "none"
  BY <1>2, NoErrors
<1> DEFINE composite == Of(b.members, "member", "id")
           fields == [i \in DOMAIN FieldsOf(b) |-> Field(FieldsOf(b)[i])]
<1>4. m.fields = fields
  BY <1>1 DEF Model
<1>5. m.primaryKey = IF composite # << >> THEN composite[1].fields
                     ELSE LET ids == Of(fields, "id", TRUE) IN [i \in DOMAIN ids |-> ids[i].name]
  BY <1>1 DEF Model
<1>6. CASE composite # << >>
  <2> DEFINE key == composite[1].fields
             bad == {i \in DOMAIN key : ~Resolves(Range(fields), key[i]) \/ JsonKey(fields, key[i])}
  <2>1. {i \in DOMAIN FieldsOf(b) : FieldError(FieldsOf(b)[i]) # "none"} = {}
    BY <1>3 DEF Range
  <2>2. FirstOf(composite, [fields |-> << >>]).fields = key
    BY <1>6 DEF FirstOf
  <2>3. bad = {}
    BY <1>1, <1>2, <1>4, <1>6, <2>1, <2>2 DEF ModelError
  <2>4. composite[1] \in Range(composite)
    <3>1. composite \in Seq(Range(b.members))
      BY <1>2, Items
    <3> HIDE DEF composite
    <3>2. 1 \in DOMAIN composite
      BY <1>6, <3>1
    <3>3. QED
      BY <3>2 DEF Range
  <2>5. \E i \in DOMAIN b.members : composite[1] = b.members[i] /\ b.members[i]["member"] = "id"
    BY <1>2, <2>4, ItemsInOrder
  <2>6. composite[1] \in Range(b.members) /\ composite[1].member = "id"
    BY <2>5 DEF Range
  <2>7. key # << >>
    BY <1>2, <2>6, SourceAssumption DEF PassesInv
  <2>8. \A n \in Range(key) : Resolves(Range(fields), n)
    BY <2>3 DEF Range
  <2> HIDE DEF key, fields, composite
  <2>9. QED
    BY <1>4, <1>5, <1>6, <2>7, <2>8 DEF key
<1>7. CASE composite = << >>
  <2> DEFINE ids == Of(fields, "id", TRUE)
             n == Len(FieldsOf(b))
  <2>1. {i \in DOMAIN FieldsOf(b) : FieldError(FieldsOf(b)[i]) # "none"} = {}
    BY <1>3 DEF Range
  <2>2. \E f \in Range(fields) : f.id
    BY <1>1, <1>2, <1>4, <1>7, <2>1 DEF ModelError
  <2>3. \A i \in DOMAIN fields : fields[i].id \in BOOLEAN
    BY DEF Field
  <2>4. IsList(fields) /\ DOMAIN fields = 1 .. n /\ n \in Nat
    <3>1. DOMAIN FieldsOf(b) = 1 .. n /\ n \in Nat
      BY <1>2, FieldsOfModel
    <3>2. \A i \in DOMAIN fields : fields[i] \in Range(fields)
      BY DEF Range
    <3>3. fields \in [1 .. n -> Range(fields)]
      BY <3>1, <3>2
    <3> HIDE DEF fields, n
    <3>4. QED
      BY <3>1, <3>3 DEF IsList
  <2> HIDE DEF fields
  <2>5. \E i \in DOMAIN fields : fields[i]["id"] = TRUE
    BY <2>2, <2>3 DEF Range
  <2>6. /\ ids # << >> /\ ids \in Seq(Range(fields))
        /\ \A x : x \in Range(ids) <=> \E i \in DOMAIN fields : x = fields[i] /\ fields[i]["id"] = TRUE
    <3>1. ids \in Seq(Range(fields))
      BY <2>4, Items
    <3>2. \A x : x \in Range(ids) <=> \E i \in DOMAIN fields : x = fields[i] /\ fields[i]["id"] = TRUE
      BY <2>4, ItemsInOrder
    <3>3. ids # << >>
      <4>1. Range(ids) # {}
        BY <2>5, <3>2
      <4>2. Range(<< >>) = {}
        BY DEF Range
      <4>3. QED
        BY <4>1, <4>2
    <3>4. QED
      BY <3>1, <3>2, <3>3
  <2> HIDE DEF ids
  <2>7. m.primaryKey = [i \in DOMAIN ids |-> ids[i].name]
    BY <1>5, <1>7 DEF ids
  <2>8. m.primaryKey # << >>
    <3>1. 1 \in DOMAIN ids
      BY <2>6
    <3>2. 1 \in DOMAIN m.primaryKey
      BY <2>7, <3>1
    <3>3. QED
      BY <3>2
  <2>9. \A i \in DOMAIN ids : Resolves(Range(fields), ids[i].name)
    <3>1. \A i \in DOMAIN ids : ids[i] \in Range(fields)
      BY <2>6 DEF Range
    <3>2. QED
      BY <3>1 DEF Resolves
  <2>10. \A x \in Range(m.primaryKey) : \E i \in DOMAIN ids : x = ids[i].name
    BY <2>7 DEF Range
  <2>11. \A x \in Range(m.primaryKey) : Resolves(Range(m.fields), x)
    BY <1>4, <2>9, <2>10
  <2>12. QED
    BY <2>8, <2>11
<1>8. QED
  BY <1>6, <1>7

\* No two models share a table (validate_unique_db_names).
LEMMA TablesAreApart ==
  ASSUME PassesInv, outcome = "ok", NEW m \in Range(models), NEW n \in Range(models), m # n
  PROVE  m.table # n.table
<1> DEFINE len == Len(models)
           tables == [k \in 1 .. len |-> models[k].table]
<1>1. /\ len \in Nat /\ DOMAIN models = 1 .. len
      /\ Cardinality({x.table : x \in Range(models)}) = len
  BY AcceptedModels DEF Validated, TablesOnce, IsList
<1>2. Range(tables) = {x.table : x \in Range(models)}
  BY <1>1 DEF Range
<1>3. tables \in [1 .. len -> Range(tables)]
  BY DEF Range
<1>4. \A i, j \in 1 .. len : tables[i] = tables[j] => i = j
  <2> HIDE DEF tables, len
  <2> QED
    BY <1>1, <1>2, <1>3, CountedOnce
<1>5. PICK i \in 1 .. len, j \in 1 .. len : m = models[i] /\ n = models[j]
  BY <1>1 DEF Range
<1>6. QED
  BY <1>4, <1>5

\* AcceptsOnlyValid: the passes, each of which looks at one thing in the order
\* it is written, accept a schema only if it is valid as a whole (parse,
\* validate).
THEOREM AcceptedIsValid ==
  ASSUME ScalarsAreTypes
  PROVE  Spec => []AcceptsOnlyValid
<1>1. PassesInv => AcceptsOnlyValid
  <2> SUFFICES ASSUME PassesInv, outcome = "ok"
               PROVE  Valid(source)
    BY DEF AcceptsOnlyValid
  <2>1. Len(models) = Len(Of(source, "block", "model"))
    BY AcceptedModels, FileOfSource DEF Parsed, TablesOnce, PassesInv
  <2>2. \A m \in Range(models) : \A f, g \in LoadedThroughChild(m) :
          f # g /\ f.type = g.type => NameOf(f) # NameOf(g)
    BY NamedApart
  <2>3. \A m, n \in Range(models) : m # n => m.table # n.table
    BY TablesAreApart
  <2>4. \A m \in Range(models) : m.primaryKey # << >> /\ \A n \in Range(m.primaryKey) : Resolves(Range(m.fields), n)
    BY KeysAreThere
  <2>5. LET named == {i \in DOMAIN source : source[i].block \in {"enum", "model"}}
        IN  \A i, j \in named : i # j => source[i].name # source[j].name
    BY NamesAreTakenOnce
  <2>6. QED
    BY <2>1, <2>2, <2>3, <2>4, <2>5, DatasourceIsKnown, FieldsAreValid DEF Valid
<1>2. QED
  BY <1>1, PassesHold, PTL
=============================================================================
