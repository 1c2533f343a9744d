-------------------------------- MODULE Blog --------------------------------
(***************************************************************************)
(* The three models of examples/basic as their generated modules know      *)
(* them: the metadata a statement of user.rs, profile.rs or post.rs is     *)
(* made of, and the calls their types let a program write.                 *)
(***************************************************************************)
CONSTANT Null

BlogModels == {"User", "Profile", "Post"}

\* A column that has no default and may be absent is NULL.
Given == <<"given">>
Uuid == <<"uuid">>
Now == <<"now">>
Literal(v) == <<"literal", v>>

Stamps(cols) == {<<fn, col>> : fn \in {"min", "max"}, col \in cols}
Sums(cols) == {<<fn, col>> : fn \in {"avg", "sum", "min", "max"}, col \in cols}

-----------------------------------------------------------------------------
(* user.rs                                                                 *)

UserFilters ==
    [id |-> "String", email |-> "String", name |-> "NullableString", role |-> "Enum",
     createdAt |-> "DateTime", updatedAt |-> "DateTime"]

UserUnique == {{"id"}, {"email"}}

UserDefaults ==
    [id |-> Uuid, email |-> Given, name |-> Literal(Null), role |-> Literal("User"),
     createdAt |-> Now]

UserSettable == {"email", "name", "role", "createdAt"}
UserStamped == {"updatedAt"}
UserOrders == {"id", "email", "name", "role", "createdAt", "updatedAt"}
UserAggregates == Stamps({"createdAt", "updatedAt"})
UserGroupKeys == {"id", "email", "name", "role", "createdAt", "updatedAt"}
UserHaving == {<<"count", "id">>} \cup Stamps({"createdAt", "updatedAt"})
UserSelect == {"id", "email", "name", "role", "createdAt", "updatedAt"}

\* posts: Vec<Post>
UserRelation == [kind |-> "many", model |-> "Post", mine |-> "id", theirs |-> "authorId"]

-----------------------------------------------------------------------------
(* profile.rs: no @updatedAt                                               *)

ProfileFilters ==
    [id |-> "String", bio |-> "NullableString", avatar |-> "NullableString",
     disconnectedAt |-> "NullableDateTime", userId |-> "String"]

ProfileUnique == {{"id"}, {"userId"}}

ProfileDefaults ==
    [id |-> Uuid, bio |-> Literal(Null), avatar |-> Literal(Null),
     disconnectedAt |-> Literal(Null), userId |-> Given]

ProfileSettable == {"bio", "avatar", "disconnectedAt", "userId"}
ProfileOrders == {"id", "bio", "avatar", "disconnectedAt", "userId"}
ProfileAggregates == Stamps({"disconnectedAt"})
ProfileGroupKeys == {"id", "bio", "avatar", "disconnectedAt", "userId"}
ProfileHaving == {<<"count", "id">>} \cup Stamps({"disconnectedAt"})
ProfileSelect == {"id", "bio", "avatar", "disconnectedAt", "userId"}

\* user: Option<User>
ProfileRelation == [kind |-> "one", model |-> "User", mine |-> "userId", theirs |-> "id"]

-----------------------------------------------------------------------------
(* post.rs                                                                 *)

PostFilters ==
    [id |-> "String", title |-> "String", content |-> "NullableString",
     published |-> "Bool", status |-> "Enum", viewCount |-> "BigInt",
     authorId |-> "String", createdAt |-> "DateTime", updatedAt |-> "DateTime"]

PostUnique == {{"id"}, {"authorId", "title"}}

PostDefaults ==
    [id |-> Uuid, title |-> Given, content |-> Literal(Null), published |-> Literal(FALSE),
     status |-> Literal("Draft"), viewCount |-> Literal(0), authorId |-> Given,
     createdAt |-> Now]

PostSettable ==
    {"title", "content", "published", "status", "viewCount", "authorId", "createdAt"}
PostStamped == {"updatedAt"}
PostOrders == DOMAIN PostFilters
PostAggregates == Sums({"viewCount"}) \cup Stamps({"createdAt", "updatedAt"})
PostGroupKeys == DOMAIN PostFilters
PostHaving == {<<"count", "id">>} \cup Sums({"viewCount"}) \cup Stamps({"createdAt", "updatedAt"})
PostSelect == DOMAIN PostFilters

\* author: Option<User>
PostRelation == [kind |-> "one", model |-> "User", mine |-> "authorId", theirs |-> "id"]

-----------------------------------------------------------------------------
\* refs: the foreign keys of the tables, all of them ON DELETE RESTRICT.
BlogMeta ==
    [User |->
        [columns |-> DOMAIN UserFilters, filters |-> UserFilters, unique |-> UserUnique,
         defaults |-> UserDefaults, settable |-> UserSettable, updatedAt |-> UserStamped,
         orders |-> UserOrders, aggregates |-> UserAggregates, keys |-> UserGroupKeys,
         having |-> UserHaving, select |-> UserSelect, relation |-> UserRelation,
         refs |-> << >>],
     Profile |->
        [columns |-> DOMAIN ProfileFilters, filters |-> ProfileFilters, unique |-> ProfileUnique,
         defaults |-> ProfileDefaults, settable |-> ProfileSettable, updatedAt |-> {},
         orders |-> ProfileOrders, aggregates |-> ProfileAggregates, keys |-> ProfileGroupKeys,
         having |-> ProfileHaving, select |-> ProfileSelect, relation |-> ProfileRelation,
         refs |-> [userId |-> "User"]],
     Post |->
        [columns |-> DOMAIN PostFilters, filters |-> PostFilters, unique |-> PostUnique,
         defaults |-> PostDefaults, settable |-> PostSettable, updatedAt |-> PostStamped,
         orders |-> PostOrders, aggregates |-> PostAggregates, keys |-> PostGroupKeys,
         having |-> PostHaving, select |-> PostSelect, relation |-> PostRelation,
         refs |-> [authorId |-> "User"]]]
=============================================================================
