------------------------------- MODULE MCBlog -------------------------------
(***************************************************************************)
(* The generated client of examples/basic on SQLite: two users, a profile  *)
(* and two posts, and calls that meet on their keys.                       *)
(***************************************************************************)
EXTENDS GeneratedClient, TLC

B == INSTANCE Blog
MCModels == B!BlogModels
MCMeta == B!BlogMeta

Symmetric == Permutations(Clients)

User(id, email) ==
    [id |-> id, email |-> email, name |-> Null, role |-> "User", createdAt |-> 0, updatedAt |-> 0]
Post(id, title, author, content, status, views) ==
    [id |-> id, title |-> title, content |-> content, published |-> FALSE, status |-> status,
     viewCount |-> views, authorId |-> author, createdAt |-> 0, updatedAt |-> 0]
Profile(id, user) ==
    [id |-> id, bio |-> Null, avatar |-> Null, disconnectedAt |-> Null, userId |-> user]

MCSeeds ==
    {[User |-> {User(1, "ann"), User(2, "bob")},
      Profile |-> {Profile(3, 1)},
      Post |-> {Post(4, "a", 1, Null, "Draft", 2), Post(5, "b", 1, "text", "Published", 1)}]}

All == Leaf({})
Equals(col, v) == Condition(col, "equals", v)
NewPost(author, title) == [authorId |-> author, title |-> title]

Inserts ==
    {[op |-> "create", model |-> "Post", data |-> NewPost(2, "c")],
     [op |-> "create_many", model |-> "Post", items |-> << >>],
     [op |-> "create_many", model |-> "Post",
      items |-> <<NewPost(2, "b"), NewPost(1, "a"), NewPost(2, "c")>>],
     [op |-> "create_many", model |-> "Post",
      items |-> <<[authorId |-> 1, title |-> "c", viewCount |-> 1], NewPost(2, "c")>>],
     [op |-> "on_conflict_ignore", model |-> "Profile", data |-> [userId |-> 2]],
     [op |-> "on_conflict_ignore", model |-> "Profile", data |-> [userId |-> 1, bio |-> "me"]]}

Upserts ==
    {[op |-> "upsert", model |-> "User", unique |-> [email |-> "eve"],
      data |-> [email |-> "eve", name |-> "Eve"], set |-> [role |-> "Admin"]],
     [op |-> "upsert", model |-> "Profile", unique |-> [userId |-> 2],
      data |-> [userId |-> 2], set |-> << >>],
     [op |-> "upsert", model |-> "Post", unique |-> [authorId |-> 1, title |-> "a"],
      data |-> NewPost(1, "a"), set |-> [title |-> "b"]],
     [op |-> "upsert", model |-> "User", unique |-> [id |-> 2],
      data |-> [id |-> 2, email |-> "ann"], set |-> [email |-> "eve"]]}

Updates ==
    {[op |-> "update_first", model |-> "Post",
      where |-> Leaf({Equals("id", 4), Equals("status", "Draft")}), set |-> [status |-> "Published"]],
     [op |-> "update_first", model |-> "Post",
      where |-> Leaf({Condition("viewCount", "gte", 1)}), set |-> [viewCount |-> 0]],
     [op |-> "update_many", model |-> "Post",
      where |-> Leaf({Equals("content", Null)}), set |-> [content |-> "text"]],
     [op |-> "update_many", model |-> "Profile", where |-> All, set |-> << >>],
     [op |-> "update", model |-> "Profile", unique |-> [userId |-> 1], set |-> << >>],
     [op |-> "update", model |-> "Profile", unique |-> [id |-> 3], set |-> [userId |-> 2]],
     [op |-> "update", model |-> "User", unique |-> [email |-> "bob"], set |-> [email |-> "ann"]],
     [op |-> "update", model |-> "Post", unique |-> [id |-> 4], set |-> << >>]}

Deletes ==
    {[op |-> "delete", model |-> "User", unique |-> [id |-> 2]],
     [op |-> "delete", model |-> "Profile", unique |-> [userId |-> 1]],
     [op |-> "delete_many", model |-> "Post",
      where |-> Where({}, {}, {Leaf({Equals("status", "Draft")}), Leaf({Equals("authorId", 2)})}, {})]}

FindAll(model, orders, take, skip, select, include) ==
    [op |-> "find_many", model |-> model, where |-> All, orders |-> orders, take |-> take,
     skip |-> skip, select |-> select, include |-> include]

Finds ==
    {FindAll("Post", <<<<"viewCount", "DESC">>>>, Null, Null, {}, TRUE),
     FindAll("Profile", << >>, Null, Null, {}, TRUE),
     FindAll("Post", <<<<"createdAt", "ASC">>, <<"viewCount", "ASC">>>>, 1, 1, {"title"}, FALSE),
     FindAll("Post", << >>, Null, 1, {}, FALSE),
     [op |-> "find_unique", model |-> "User", unique |-> [email |-> "ann"], select |-> {}, include |-> TRUE],
     [op |-> "find_first", model |-> "Post", where |-> Leaf({Equals("authorId", 2)}),
      orders |-> << >>, select |-> {}, include |-> FALSE],
     [op |-> "count", model |-> "Post", where |-> Leaf({Condition("status", "in", {"Draft"})})]}

Groups ==
    {[op |-> "aggregate", model |-> "Post", where |-> All,
      ops |-> {<<"sum", "viewCount">>, <<"min", "viewCount">>, <<"max", "createdAt">>}],
     [op |-> "aggregate", model |-> "User", where |-> All, ops |-> {}],
     [op |-> "group_by", model |-> "Post", where |-> All, keys |-> {"content", "authorId"}, having |-> {}],
     [op |-> "group_by", model |-> "Post", where |-> All, keys |-> {"status"},
      having |-> {[fn |-> "count", condition |-> Condition("id", "gt", 1)],
                  [fn |-> "max", condition |-> Condition("viewCount", "gte", 1)]}],
     [op |-> "group_by", model |-> "Profile", where |-> All, keys |-> {}, having |-> {}]}

MCQueries == Inserts \cup Upserts \cup Updates \cup Deletes \cup Finds \cup Groups

\* The conditions under which the properties are promised are those of a
\* program that uses update_first and upsert as they are meant.
ASSUME MCBlogAssumption == NeverMovesBack /\ UpsertsNameTheirRow
=============================================================================
