---------------------------- MODULE MCSchemaDiff ----------------------------
(***************************************************************************)
(* SchemaDiff for TLC: a handful of schemas between which every kind of    *)
(* step occurs, each alone and together with others.                       *)
(***************************************************************************)
EXTENDS SchemaDiff, TLC

Scalar(type) == [kind |-> "scalar", of |-> type]
Column(type, default) ==
  [type |-> type, optional |-> FALSE, default |-> default, unique |-> FALSE]
Optional(def) == [def EXCEPT !.optional = TRUE]
UniqueColumn(def) == [def EXCEPT !.unique = TRUE]

Text == Column(Scalar("String"), "none")
Uuid == Column(Scalar("String"), "uuid()")
Count == Column(Scalar("Int"), "0")
Total == Column(Scalar("Int"), "1")
Flag == Column(Scalar("Boolean"), "FALSE")
Number == Column(Scalar("Int"), "none")
Serial == Column(Scalar("Int"), "autoincrement")
Role == Column([kind |-> "enum", of |-> "Role"], "none")

Variant(label) == [label |-> label, compound |-> FALSE]
Compound(label) == [label |-> label, compound |-> TRUE]
RoleEnum(name, variants) == [name |-> "Role", db |-> name, variants |-> variants]

Reference(t, c, r, action) == [table |-> t, column |-> c, ref |-> r, action |-> action]
Key1(t, c) == [table |-> t, columns |-> {c}]
Key2(t, c, d) == [table |-> t, columns |-> {c, d}]

Ids == [t \in {"users", "posts"} |-> <<"id">>]

MCSnake == "Role" :> "role" @@ "UserRole" :> "user_role" @@ "Grade" :> "grade"
MCPascal == "role" :> "Role" @@ "user_role" :> "UserRole" @@ "grade" :> "Grade"

\* Users alone, numbered by the database.
Users ==
  [enums |-> {}, columns |-> <<"users", "id">> :> Serial, layout |-> "users" :> <<"id">>,
   keys |-> "users" :> <<"id">>, fks |-> {}, indexes |-> {}, uniques |-> {}]

\* Users with a role, and posts.
Blog ==
  [enums |-> {RoleEnum("role", {Variant("admin")})},
   columns |-> <<"users", "id">> :> Serial @@ <<"users", "role">> :> Role
            @@ <<"posts", "id">> :> Uuid @@ <<"posts", "author_id">> :> Number,
   layout |-> "users" :> <<"id", "role">> @@ "posts" :> <<"id", "author_id">>,
   keys |-> Ids,
   fks |-> {Reference("posts", "author_id", "users", "RESTRICT")},
   indexes |-> {Key1("posts", "author_id")},
   uniques |-> {}]

\* A variant more, another action, a unique constraint instead of an index.
Stricter ==
  [Blog EXCEPT !.enums = {RoleEnum("role", {Variant("admin"), Compound("superadmin")})},
               !.fks = {Reference("posts", "author_id", "users", "CASCADE")},
               !.indexes = {},
               !.uniques = {Key2("posts", "id", "author_id")}]

\* Posts and users that reference each other; roles are plain text.
Circle ==
  [enums |-> {},
   columns |-> <<"users", "id">> :> Serial @@ <<"users", "role">> :> Text
            @@ <<"users", "best_id">> :> Optional(Text)
            @@ <<"posts", "id">> :> Uuid @@ <<"posts", "author_id">> :> Number,
   layout |-> "users" :> <<"id", "role", "best_id">> @@ "posts" :> <<"id", "author_id">>,
   keys |-> Ids,
   fks |-> {Reference("posts", "author_id", "users", "RESTRICT"),
            Reference("users", "best_id", "posts", "SET NULL")},
   indexes |-> {Key1("users", "best_id")},
   uniques |-> {Key2("posts", "id", "author_id")}]

\* The enum is mapped to another name; users have a composite key, which is
\* not in the order of the fields.
Mapped ==
  [enums |-> {RoleEnum("user_role", {Variant("admin")})},
   columns |-> <<"users", "id">> :> Serial @@ <<"users", "role">> :> Role,
   layout |-> "users" :> <<"id", "role">>,
   keys |-> "users" :> <<"role", "id">>,
   fks |-> {}, indexes |-> {}, uniques |-> {}]

\* Two counters, or a flag that is unique.
Counted ==
  [Users EXCEPT !.columns = @ @@ <<"users", "n">> :> Count @@ <<"users", "m">> :> Total,
                !.layout = "users" :> <<"id", "n", "m">>]
Flagged ==
  [Users EXCEPT !.columns = @ @@ <<"users", "n">> :> UniqueColumn(Flag),
                !.layout = "users" :> <<"id", "n">>]

\* Two enums, the second of which gives up its name to the first.
Grade(name) == [name |-> "Grade", db |-> name, variants |-> {Variant("good")}]
Graded == [Users EXCEPT !.enums = {RoleEnum("role", {}), Grade("user_role")}]
Regraded == [Users EXCEPT !.enums = {RoleEnum("user_role", {}), Grade("grade")}]

\* A role that has no variants yet.
Roleless ==
  [Users EXCEPT !.enums = {RoleEnum("role", {})},
                !.columns = @ @@ <<"users", "role">> :> Role,
                !.layout = "users" :> <<"id", "role">>]

\* The column of the author is also a reference to another post.
Answered ==
  [Blog EXCEPT !.fks = @ \cup {Reference("posts", "author_id", "posts", "CASCADE")}]

\* A table that introspection passes over, and users refer to it.
Audited ==
  [enums |-> {},
   columns |-> <<"users", "id">> :> Serial @@ <<"users", "audit_id">> :> Number
            @@ <<"_audit", "id">> :> Number @@ <<"_audit", "user_id">> :> Number,
   layout |-> "users" :> <<"id", "audit_id">> @@ "_audit" :> <<"id", "user_id">>,
   keys |-> "users" :> <<"id">> @@ "_audit" :> <<"id">>,
   fks |-> {Reference("users", "audit_id", "_audit", "SET NULL"),
            Reference("_audit", "user_id", "users", "CASCADE")},
   indexes |-> {Key1("_audit", "user_id")},
   uniques |-> {}]

AllSchemas ==
  {Users, Blog, Stricter, Circle, Mapped, Counted, Flagged, Graded, Regraded,
   Roleless, Answered, Audited}

\* What the theorems suppose of the schemas; those that introspection does not
\* read back are beyond them.
ASSUME MCSchemaDiffAssumption == Resolved /\ EnumsDiffer /\ NamesReadBack /\ SinglyKeyed
=============================================================================
