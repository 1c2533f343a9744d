-------------------------- MODULE MCSchemaFrontEnd --------------------------
(* Schemas of users and posts, for TLC. *)
EXTENDS SchemaFrontEnd

Names == {"User", "Post", "Role", "id", "key", "authorId", "editorId", "posts", "edited",
          "author", "editor", "data", "type", "role", "missing"}

MCSnake == [n \in Names |-> CASE n = "authorId" -> "author_id"
                              [] n = "editorId" -> "editor_id"
                              [] OTHER -> n]
MCPlural == [n \in Names |-> CASE n = "User" -> "users" [] n = "Post" -> "posts" [] OTHER -> n]

Attr(kind) == [attr |-> kind]
Default(call, value) == [attr |-> "default", call |-> call, value |-> value]
MapTo(name) == [attr |-> "map", name |-> name]
RelationTo(args) == [attr |-> "relation", args |-> args]
Arg(key, value) == [key |-> key, value |-> value]

FieldDef(name, type, modifier, attributes) ==
    [member |-> "field", name |-> name, type |-> type, modifier |-> modifier,
     attributes |-> attributes]
On(kind, fields) == [member |-> kind, fields |-> fields]
Table(name) == [member |-> "map", name |-> name]

Datasource(provider) == [block |-> "datasource", provider |-> provider]
ModelDef(name, members) == [block |-> "model", name |-> name, members |-> members]
EnumDef(name) == [block |-> "enum", name |-> name]

Id == FieldDef("id", "Int", "none", <<Attr("id"), Default(TRUE, "autoincrement")>>)

UpToTwo(S) == {<< >>} \cup {<<x>> : x \in S} \cup (S \X S)

-----------------------------------------------------------------------------
(* Two models, up to two relations between them, named or not on each side. *)

Named(name) == IF name = Null THEN << >> ELSE <<Arg("name", name)>>
RelationNames == {Null, "Writes", "Edits"}

ListField(name, relation) ==
    FieldDef(name, "Post", "list", IF relation = Null THEN << >> ELSE <<RelationTo(Named(relation))>>)
KeyField(name, column, relation) ==
    FieldDef(name, "User", "none",
        <<RelationTo(Named(relation) \o <<Arg("fields", <<column>>), Arg("references", <<"id">>)>>)>>)

UserWith(lists) ==
    ModelDef("User", <<Id>> \o [i \in DOMAIN lists |-> ListField(<<"posts", "edited">>[i], lists[i])])
PostWith(keys) ==
    ModelDef("Post", <<Id, FieldDef("authorId", "Int", "none", << >>),
                       FieldDef("editorId", "Int", "none", << >>)>>
        \o [i \in DOMAIN keys |-> KeyField(<<"author", "editor">>[i], <<"authorId", "editorId">>[i], keys[i])])

Related ==
    {<<Datasource("sqlite"), UserWith(lists), PostWith(keys)>> :
        lists \in UpToTwo(RelationNames), keys \in UpToTwo(RelationNames)}

\* A model that is related to itself.
Trees ==
    {<<Datasource("sqlite"),
       ModelDef("Post", <<Id, FieldDef("authorId", "Int", "none", << >>)>>
           \o [i \in DOMAIN lists |-> ListField(<<"posts", "edited">>[i], lists[i])]
           \o <<FieldDef("author", "Post", "optional",
                  <<RelationTo(Named(key) \o <<Arg("fields", <<"authorId">>), Arg("references", <<"id">>)>>)>>)>>)>> :
        lists \in UpToTwo(RelationNames), key \in RelationNames}

-----------------------------------------------------------------------------
(* Every order of a few blocks, and every way a field or a list may be wrong. *)

Blocks ==
    {Datasource("postgresql"), Datasource("oracle"), EnumDef("Role"), EnumDef("User"),
     ModelDef("User", <<Id, FieldDef("role", "Role", "none", << >>)>>),
     ModelDef("User", <<Id>>),
     ModelDef("Post", <<Id, Table("users")>>),
     ModelDef("Role", <<Id, Table("roles")>>)}

Ordered == {<<a, b, c>> : a \in Blocks, b \in Blocks, c \in Blocks}

Members ==
    {Id,
     FieldDef("id", "Int", "optional", <<Attr("id")>>),
     FieldDef("id", "String", "none", <<Attr("id"), Default(TRUE, "autoincrement")>>),
     FieldDef("key", "String", "none", <<Default(TRUE, "cuid"), MapTo("k")>>),
     FieldDef("key", "String", "none", <<Default(TRUE, "nanoid")>>),
     FieldDef("key", "String", "none", <<Default(FALSE, "autoincrement")>>),
     FieldDef("data", "Json", "none", <<Attr("unique")>>),
     FieldDef("type", "String", "none", <<MapTo("type")>>),
     FieldDef("role", "Role", "none", << >>),
     FieldDef("author", "User", "optional",
        <<RelationTo(<<Arg("fields", <<"id">>), Arg("onDelete", "Explode")>>)>>),
     FieldDef("author", "User", "optional",
        <<RelationTo(<<Arg("fields", <<"id">>), Arg("references", <<"id">>), Arg("onDelete", "Cascade")>>)>>),
     On("id", <<"key", "data">>), On("id", <<"missing">>), On("id", <<"k">>),
     On("index", <<"key">>), On("unique", <<"missing">>)}

Written == {<<Datasource("sqlite"), ModelDef("User", <<a, b, c>>)>> : a \in Members, b \in Members, c \in Members}

MCSources == Related \cup Trees \cup Ordered \cup Written
=============================================================================
