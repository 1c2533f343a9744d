--------------------------- MODULE SchemaFrontEnd ---------------------------
(***************************************************************************)
(* From schema.ferriorm to a Schema: the parser (ferriorm-parser/parser.rs) *)
(* and the passes of the validator (validator.rs), which stop at the first *)
(* error, and how the code generator then pairs the two sides of a         *)
(* relation (ferriorm-codegen/relations.rs).                               *)
(*                                                                         *)
(* A source is the sequence of its blocks, a model block the sequence of   *)
(* its members, a field the sequence of its attributes, all in the order   *)
(* they are written.  Names are opaque.                                    *)
(***************************************************************************)
EXTENDS Naturals, Sequences, FiniteSets, Functions

CONSTANTS
    Sources,    \* what may be written
    Snake,      \* to_snake_case
    Plural,     \* to_snake_case, and an "s"
    Null

IsList(s) == s \in Seq(Range(s))

\* Blocks, members and attributes are written one after the other, and the
\* grammar has no empty list of fields (grammar.pest:76).
ASSUME SourceAssumption ==
    \A s \in Sources :
        /\ IsList(s)
        /\ \A b \in Range(s) : b.block = "model" =>
             /\ IsList(b.members)
             /\ \A m \in Range(b.members) :
                  /\ m.member = "field" => IsList(m.attributes)
                  /\ m.member = "id" => IsList(m.fields) /\ m.fields # << >>

VARIABLES
    source,
    pass,       \* the pass that comes next, "done" after the last
    file,       \* the parser's SchemaFile
    models,     \* the models validated so far
    outcome     \* "none", "ok" or the error

vars == <<source, pass, file, models, outcome>>

Providers == {"postgresql", "postgres", "sqlite", "mysql"}
Scalars == {"String", "Int", "BigInt", "Float", "Decimal", "Boolean", "Bool", "DateTime",
            "Json", "Bytes"}
Keywords == {"type", "match", "where", "self"}  \* some of is_rust_keyword's

-----------------------------------------------------------------------------
(* The parser                                                              *)

\* The items of a kind in the order they are written: the k-th of them is the
\* one that has k of them up to itself.
Of(s, tag, kind) ==
    LET at == {i \in DOMAIN s : s[i][tag] = kind}
        Rank(i) == Cardinality({j \in at : j <= i})
    IN  [k \in 1 .. Cardinality(at) |-> s[CHOOSE i \in at : Rank(i) = k]]

\* The value of the last item that is there, of the first one, or otherwise.
LastOf(s, otherwise) == IF s = << >> THEN otherwise ELSE s[Len(s)]
FirstOf(s, otherwise) == IF s = << >> THEN otherwise ELSE s[1]

Least(S) == CHOOSE i \in S : \A j \in S : i <= j

\* Of an argument that is given twice the last one counts; an unknown key is
\* dropped, and so is an action nobody knows.
RelationAttribute(args) ==
    LET Arg(key, otherwise) == LastOf(Of(args, "key", key), [value |-> otherwise]).value
        action == Arg("onDelete", Null)
    IN  [name |-> Arg("name", Null), fields |-> Arg("fields", << >>),
         references |-> Arg("references", << >>),
         onDelete |-> IF action \in {"Cascade", "Restrict", "NoAction", "SetNull", "SetDefault"}
                      THEN action ELSE Null]

DefaultFunctions == {"uuid", "cuid", "autoincrement", "now"}

\* A second datasource block replaces the first.
SchemaFile(s) ==
    [datasource |-> LastOf(Of(s, "block", "datasource"), Null),
     enums |-> Of(s, "block", "enum"),
     models |-> Of(s, "block", "model")]

FieldsOf(m) == Of(m.members, "member", "field")
Attributes(f, kind) == Of(f.attributes, "attr", kind)

SyntaxError(s) ==
    \E i \in DOMAIN s : s[i].block = "model" /\
        \E j \in DOMAIN FieldsOf(s[i]) : \E a \in Range(Attributes(FieldsOf(s[i])[j], "default")) :
            a.call /\ a.value \notin DefaultFunctions

-----------------------------------------------------------------------------
(* validate_field                                                          *)

EnumNames == {e.name : e \in Range(file.enums)}
ModelNames == {m.name : m \in Range(file.models)}

\* A scalar hides an enum of its name, an enum a model.
FieldKind(type) ==
    CASE type \in Scalars -> "scalar"
      [] type \in EnumNames \ Scalars -> "enum"
      [] type \in ModelNames \ (EnumNames \cup Scalars) -> "model"
      [] OTHER -> Null

Relation(f) ==
    LET given == Attributes(f, "relation") IN
    IF given = << >> THEN Null
    ELSE LET r == RelationAttribute(given[1].args)
         IN  [r EXCEPT !.onDelete = IF @ = Null THEN "Restrict" ELSE @]

Field(f) ==
    [name |-> f.name,
     column |-> FirstOf(Attributes(f, "map"), [name |-> Snake[f.name]]).name,
     kind |-> FieldKind(f.type), type |-> f.type, modifier |-> f.modifier,
     id |-> Attributes(f, "id") # << >>,
     relation |-> Relation(f)]

\* Each clause is one early return of validate_field, in its order.
FieldError(f) ==
    LET default == FirstOf(Attributes(f, "default"), [call |-> FALSE, value |-> Null])
    IN  IF f.name \in Keywords THEN "keyword"
        ELSE IF FieldKind(f.type) = Null THEN "unknown type"
        ELSE IF Field(f).id /\ f.modifier = "optional" THEN "optional id"
        ELSE IF default.call /\ default.value = "autoincrement" /\ f.type \notin {"Int", "BigInt"}
        THEN "autoincrement"
        ELSE IF \E a \in Range(Attributes(f, "relation")) :
                  LET r == RelationAttribute(a.args) IN Len(r.fields) # Len(r.references)
        THEN "uneven relation"
        ELSE "none"

-----------------------------------------------------------------------------
(* validate_model                                                          *)

\* A field is found by its name, its column or its name in snake case.
Resolves(fields, name) ==
    \E f \in fields : name \in {f.name, f.column, Snake[f.name]}

JsonKey(fields, name) ==
    \E i \in DOMAIN fields :
        /\ name \in {fields[i].name, fields[i].column, Snake[fields[i].name]}
        /\ \A j \in 1 .. i - 1 : name \notin {fields[j].name, fields[j].column, Snake[fields[j].name]}
        /\ fields[i].type = "Json"

Model(m) ==
    LET fields == [i \in DOMAIN FieldsOf(m) |-> Field(FieldsOf(m)[i])]
        composite == Of(m.members, "member", "id")
    IN  [name |-> m.name,
         table |-> FirstOf(Of(m.members, "member", "map"), [name |-> Plural[m.name]]).name,
         fields |-> fields,
         primaryKey |-> IF composite # << >> THEN composite[1].fields
                        ELSE LET ids == Of(fields, "id", TRUE)
                             IN  [i \in DOMAIN ids |-> ids[i].name]]

ModelError(m) ==
    LET parsed == FieldsOf(m)
        wrong == {i \in DOMAIN parsed : FieldError(parsed[i]) # "none"}
        fields == Model(m).fields
        composite == Of(m.members, "member", "id")
        key == FirstOf(composite, [fields |-> << >>]).fields
        badKey == {i \in DOMAIN key : ~Resolves(Range(fields), key[i]) \/ JsonKey(fields, key[i])}
        lists == Of(m.members, "member", "index") \o Of(m.members, "member", "unique")
    IN  IF wrong # {} THEN FieldError(parsed[Least(wrong)])
        ELSE IF composite = << >> /\ \A f \in Range(fields) : ~f.id THEN "no primary key"
        ELSE IF badKey # {}
        THEN IF Resolves(Range(fields), key[Least(badKey)]) THEN "json key" ELSE "unknown field"
        ELSE IF \E l \in Range(lists) : \E n \in Range(l.fields) : ~Resolves(Range(fields), n)
        THEN "unknown field"
        ELSE "none"

-----------------------------------------------------------------------------
(* validate_relation_disambiguation                                        *)

OwnsKey(f) == f.relation # Null /\ f.relation.fields # << >>
NameOf(f) == IF f.relation = Null THEN Null ELSE f.relation.name

\* The fields of m with the same target and on the same side of a relation.
Group(m, target, owner) ==
    {i \in DOMAIN m.fields : /\ m.fields[i].kind = "model"
                             /\ m.fields[i].type = target
                             /\ OwnsKey(m.fields[i]) = owner}

\* Mutant: only the fields that own a foreign key have to be named.
OwnersAmbiguous(m) ==
    \E target \in {m.fields[i].type : i \in DOMAIN m.fields} :
        \E i, j \in Group(m, target, TRUE) :
            i # j /\ NameOf(m.fields[i]) \in {Null, NameOf(m.fields[j])}

Ambiguous(m) ==
    \E target \in {m.fields[i].type : i \in DOMAIN m.fields}, owner \in BOOLEAN :
        \E i, j \in Group(m, target, owner) :
            i # j /\ NameOf(m.fields[i]) \in {Null, NameOf(m.fields[j])}

-----------------------------------------------------------------------------
(* The passes of validate, each of which may be the last.                  *)

Init ==
    /\ source \in Sources
    /\ pass = "parse"
    /\ file = Null
    /\ models = << >>
    /\ outcome = "none"

Fail(error) == outcome' = error /\ pass' = "done"
Continue(next) == outcome' = outcome /\ pass' = next

Parse ==
    /\ pass = "parse"
    /\ IF SyntaxError(source) THEN Fail("syntax") /\ UNCHANGED file
       ELSE file' = SchemaFile(source) /\ Continue("datasource")
    /\ UNCHANGED <<source, models>>

ValidateDatasource ==
    /\ pass = "datasource"
    /\ CASE file.datasource = Null -> Fail("no datasource")
         [] file.datasource # Null ->
                IF file.datasource.provider \in Providers THEN Continue("enums")
                ELSE Fail("unknown provider")
    /\ UNCHANGED <<source, file, models>>

ValidateEnums ==
    /\ pass = "enums"
    /\ IF Len(file.enums) # Cardinality(EnumNames) THEN Fail("duplicate") ELSE Continue("models")
    /\ UNCHANGED <<source, file, models>>

\* Mutant: a name is looked for among the models before it, and not the enums.
ValidateModelOnly ==
    /\ pass = "models"
    /\ Len(models) < Len(file.models)
    /\ LET m == file.models[Len(models) + 1]
       IN  IF m.name \in {x.name : x \in Range(models)} THEN Fail("duplicate") /\ UNCHANGED models
           ELSE IF ModelError(m) # "none" THEN Fail(ModelError(m)) /\ UNCHANGED models
           ELSE models' = Append(models, Model(m)) /\ Continue("models")
    /\ UNCHANGED <<source, file>>

\* One round of the loop of validate_models.
ValidateModel ==
    /\ pass = "models"
    /\ Len(models) < Len(file.models)
    /\ LET m == file.models[Len(models) + 1]
       IN  IF m.name \in {x.name : x \in Range(models)} \cup EnumNames
           THEN Fail("duplicate") /\ UNCHANGED models
           ELSE IF ModelError(m) # "none" THEN Fail(ModelError(m)) /\ UNCHANGED models
           ELSE models' = Append(models, Model(m)) /\ Continue("models")
    /\ UNCHANGED <<source, file>>

ValidateUniqueDbNames ==
    /\ pass = "models"
    /\ Len(models) = Len(file.models)
    /\ IF Cardinality({m.table : m \in Range(models)}) # Len(models) THEN Fail("duplicate table")
       ELSE Continue("relations")
    /\ UNCHANGED <<source, file, models>>

ValidateRelationDisambiguation ==
    /\ pass = "relations"
    /\ IF \E m \in Range(models) : Ambiguous(m) THEN Fail("ambiguous relation")
       ELSE outcome' = "ok" /\ pass' = "done"
    /\ UNCHANGED <<source, file, models>>

Next ==
    \/ Parse \/ ValidateDatasource \/ ValidateEnums \/ ValidateModel
    \/ ValidateUniqueDbNames \/ ValidateRelationDisambiguation

Spec == Init /\ [][Next]_vars

-----------------------------------------------------------------------------
(* How the code generator pairs relations                                  *)

\* The foreign keys of child that a list field of this name may mean.
BackReferences(parent, child, name) ==
    {i \in DOMAIN child.fields :
        LET f == child.fields[i]
        IN  /\ OwnsKey(f) /\ f.type = parent.name
            /\ name # Null => NameOf(f) = name}

\* find_back_reference takes the first of them.
FindBackReference(parent, child, name) ==
    LET found == BackReferences(parent, child, name)
    IN  IF found = {} THEN 0 ELSE Least(found)

\* collect_relations: the fields that are loaded through the other side's
\* foreign key.
LoadedThroughChild(m) ==
    {f \in Range(m.fields) :
        /\ f.type \in {x.name : x \in Range(models)} /\ ~OwnsKey(f)
        /\ f.relation # Null \/ (f.kind = "model" /\ f.modifier = "list")}

Child(f) == CHOOSE m \in Range(models) : m.name = f.type

-----------------------------------------------------------------------------
(* Properties                                                              *)

FieldsIn(s) == UNION {Range(FieldsOf(b)) : b \in {b \in Range(s) : b.block = "model"}}

\* What a schema has to be, in no order.
Valid(s) ==
    LET enums == {b \in Range(s) : b.block = "enum"}
        defs == Of(s, "block", "model")
        known == Scalars \cup {b.name : b \in {b \in Range(s) : b.block \in {"enum", "model"}}}
        named == {i \in DOMAIN s : s[i].block \in {"enum", "model"}}
    IN  /\ \E b \in Range(s) : b.block = "datasource"
        /\ \A i \in DOMAIN s :
             s[i].block = "datasource" /\ (\A j \in DOMAIN s : s[j].block = "datasource" => j <= i)
                => s[i].provider \in Providers
        /\ \A i, j \in named : i # j => s[i].name # s[j].name
        /\ \A f \in FieldsIn(s) :
             /\ f.name \notin Keywords /\ f.type \in known
             /\ \A a \in Range(f.attributes) :
                  /\ a.attr = "id" => f.modifier # "optional"
                  /\ a.attr = "default" /\ a.call => a.value \in DefaultFunctions
                  /\ a.attr = "relation" =>
                       LET r == RelationAttribute(a.args) IN Len(r.fields) = Len(r.references)
             /\ FirstOf(Attributes(f, "default"), [call |-> FALSE, value |-> Null])
                    = [attr |-> "default", call |-> TRUE, value |-> "autoincrement"]
                => f.type \in {"Int", "BigInt"}
        /\ outcome = "ok" =>
             /\ Len(models) = Len(defs)
             /\ \A m, n \in Range(models) : m # n => m.table # n.table
             /\ \A m \in Range(models) :
                  /\ m.primaryKey # << >>
                  /\ \A n \in Range(m.primaryKey) : Resolves(Range(m.fields), n)
                  /\ \A f, g \in LoadedThroughChild(m) :
                       f # g /\ f.type = g.type => NameOf(f) # NameOf(g)

\* The passes accept a schema only if it is valid as a whole, in whatever
\* order the blocks are written and whichever pass looks at what: a name is
\* taken once, a type exists even when it is declared later, of two
\* datasource blocks the one that is used is known.
AcceptsOnlyValid == outcome = "ok" => Valid(source)

\* Two relations of a model never load through the same foreign key.
RelationsPairApart ==
    outcome = "ok" =>
        \A m \in Range(models) : \A f, g \in LoadedThroughChild(m) :
            /\ f # g
            /\ f.type = g.type
            /\ FindBackReference(m, Child(f), NameOf(f)) # 0
            => FindBackReference(m, Child(f), NameOf(f)) # FindBackReference(m, Child(g), NameOf(g))

\* relations.rs:51: "Multi-relations are rejected by the validator unless
\* every side has a name, so there's at most one matching back-reference here."
OneBackReference ==
    outcome = "ok" =>
        \A m \in Range(models) : \A f \in LoadedThroughChild(m) :
            f.relation = Null => Cardinality(BackReferences(m, Child(f), Null)) <= 1
=============================================================================
