------------------------------ MODULE Filters ------------------------------
(***************************************************************************)
(* The filters of the generated client: what build_where pushes onto the   *)
(* query for a WhereInput (ferriorm-codegen/src/model.rs, with the filter  *)
(* types of ferriorm-runtime/src/filter.rs), what the database makes of    *)
(* one such predicate, and what the filter means to its author.            *)
(*                                                                         *)
(* A condition is one field of a filter struct that is set, a WhereInput   *)
(* the conditions of its columns with its `and` and `or` lists and its     *)
(* `not` (a set of at most one).  Nested inputs hold conditions only:      *)
(* deeper ones repeat the same three arms.                                 *)
(* A text is a sequence of characters.                                     *)
(***************************************************************************)
EXTENDS Integers, SequencesExt

CONSTANTS
    Null,
    Postgres        \* TRUE: LIKE tells "a" from "A", FALSE: SQLite, it does not

ASSUME FiltersAssumption == Postgres \in BOOLEAN

\* One field of a filter: Some(arg) for the operator op of the column col.
Condition(col, op, arg) == [col |-> col, op |-> op, arg |-> arg]

\* The kinds of columns with a filter type.  Floats are left out: they have a
\* value that does not equal itself.
FilterKinds ==
    {"String", "NullableString", "Int", "NullableInt", "BigInt", "NullableBigInt",
     "DateTime", "NullableDateTime", "Bool", "NullableBool", "Enum"}

\* The operators of the filter type of a column.  `mode` is in the struct and
\* nothing reads it.
Operators(kind) ==
    CASE kind \in {"String", "NullableString"} ->
             {"equals", "not", "contains", "starts_with", "ends_with", "in", "not_in"}
      [] kind \in {"Int", "NullableInt", "BigInt", "NullableBigInt", "DateTime", "NullableDateTime"} ->
             {"equals", "not", "gt", "gte", "lt", "lte", "in", "not_in"}
      [] kind = "Enum" -> {"equals", "not", "in", "not_in"}
      [] kind \in {"Bool", "NullableBool"} -> {"equals", "not"}

\* Only a nullable filter can be asked for NULL: EnumFilter has no such arm.
MayAskForNull(kind) ==
    kind \in {"NullableString", "NullableInt", "NullableBigInt", "NullableDateTime", "NullableBool"}

Where(own, and, or, not) == [own |-> own, and |-> and, or |-> or, not |-> not]
Leaf(conditions) == Where(conditions, {}, {}, {})

-----------------------------------------------------------------------------
(* What is pushed onto the query.  A token is a keyword, a parenthesis or  *)
(* a predicate on a column.                                                *)

Token(word) == <<[t |-> word]>>
Predicate(col, sql, arg) == <<[t |-> "predicate", col |-> col, sql |-> sql, arg |-> arg]>>
AndPredicate(col, sql, arg) == Token("AND") \o Predicate(col, sql, arg)

\* The characters LIKE gives a meaning.
Percent == "%"
Underscore == "_"
Backslash == "\\"
Special == {Percent, Underscore, Backslash}

\* Mutant: the text is put into the pattern as it is.
NoEscape(s) == s

\* like_escape: %, _ and \ are preceded by a \.
LikeEscape(s) ==
    FlattenSeq([i \in 1 .. Len(s) |->
        IF s[i] \in Special THEN <<Backslash, s[i]>> ELSE <<s[i]>>])

\* An empty IN list becomes 1 = 0, an empty NOT IN list nothing.
InArms(c) ==
    CASE c.op = "in" /\ c.arg = {} -> Token("AND") \o Token("1=0")
      [] c.op = "in" /\ c.arg # {} -> AndPredicate(c.col, "IN", c.arg)
      [] c.op = "not_in" /\ c.arg = {} -> << >>
      [] c.op = "not_in" /\ c.arg # {} -> AndPredicate(c.col, "NOT IN", c.arg)

LikeArms(c) ==
    AndPredicate(c.col, "LIKE",
        CASE c.op = "contains" -> <<Percent>> \o LikeEscape(c.arg) \o <<Percent>>
          [] c.op = "starts_with" -> LikeEscape(c.arg) \o <<Percent>>
          [] c.op = "ends_with" -> <<Percent>> \o LikeEscape(c.arg))

Symbol == [equals |-> "=", not |-> "!=", gt |-> ">", gte |-> ">=", lt |-> "<", lte |-> "<="]

FieldArm(c) ==
    CASE c.op \in {"in", "not_in"} -> InArms(c)
      [] c.op \in {"contains", "starts_with", "ends_with"} -> LikeArms(c)
      [] c.op = "equals" /\ c.arg = Null -> AndPredicate(c.col, "IS NULL", Null)
      [] c.op = "not" /\ c.arg = Null -> AndPredicate(c.col, "IS NOT NULL", Null)
      [] OTHER -> AndPredicate(c.col, Symbol[c.op], c.arg)

WhereArms(conditions) == FlattenSeq(SetToSeq({FieldArm(c) : c \in conditions}))

\* (1=1 followed by the arms of a nested input.
Grouped(w) == Token("(") \o Token("1=1") \o WhereArms(w.own) \o Token(")")

AndArms(ws) == FlattenSeq(SetToSeq({WhereArms(w.own) : w \in ws}))

OrArms(ws) ==
    LET list == SetToSeq(ws) IN
    IF ws = {} THEN << >>
    ELSE Token("AND") \o Token("(")
         \o FlattenSeq([i \in 1 .. Len(list) |->
                (IF i > 1 THEN Token("OR") ELSE << >>) \o Grouped(list[i])])
         \o Token(")")

NotArms(ws) ==
    FlattenSeq(SetToSeq({Token("AND") \o Token("NOT") \o Grouped(w) : w \in ws}))

\* SELECT .. WHERE 1=1 followed by what build_where pushes.
BuildWhere(w) ==
    Token("1=1") \o WhereArms(w.own) \o AndArms(w.and) \o OrArms(w.or) \o NotArms(w.not)

-----------------------------------------------------------------------------
(* The database: three truth values, and LIKE with ESCAPE '\'.             *)

Truth(b) == IF b THEN "true" ELSE "false"
And3(S) == IF "false" \in S THEN "false" ELSE IF "unknown" \in S THEN "unknown" ELSE "true"
Or3(S) == IF "true" \in S THEN "true" ELSE IF "unknown" \in S THEN "unknown" ELSE "false"
Not3(v) == CASE v = "true" -> "false" [] v = "false" -> "true" [] v = "unknown" -> v

Fold(ch) == IF Postgres THEN ch ELSE CASE ch = "A" -> "a" [] OTHER -> ch

\* What one character of the pattern makes of a state of the match: how much
\* of the text has been matched, and whether the character before was a \.
Takes(text, from, ch, to) ==
    \/ /\ ~from.escaped /\ ch = Percent
       /\ to.matched >= from.matched /\ ~to.escaped
    \/ /\ ~from.escaped /\ ch = Backslash
       /\ to.matched = from.matched /\ to.escaped
    \/ /\ from.escaped \/ ch \notin {Percent, Backslash}
       /\ from.matched < Len(text)
       /\ (~from.escaped /\ ch = Underscore) \/ Fold(text[from.matched + 1]) = Fold(ch)
       /\ to.matched = from.matched + 1 /\ ~to.escaped

MatchStates(text) == [matched : 0 .. Len(text), escaped : BOOLEAN]

NextStates(text, states, ch) == {to \in MatchStates(text) : \E from \in states : Takes(text, from, ch, to)}

\* The states the whole pattern may leave the match in.
Reached(text, pattern) ==
    LET upTo[j \in 0 .. Len(pattern)] ==
            IF j = 0 THEN {[matched |-> 0, escaped |-> FALSE]}
            ELSE NextStates(text, upTo[j - 1], pattern[j])
    IN  upTo[Len(pattern)]

Like(text, pattern) == [matched |-> Len(text), escaped |-> FALSE] \in Reached(text, pattern)

SqlPredicate(p, v) ==
    CASE p.sql = "IS NULL" -> Truth(v = Null)
      [] p.sql = "IS NOT NULL" -> Truth(v # Null)
      [] p.sql \notin {"IS NULL", "IS NOT NULL"} /\ Null \in {v, p.arg} -> "unknown"
      [] OTHER -> Truth(CASE p.sql = "=" -> v = p.arg
                          [] p.sql = "!=" -> v # p.arg
                          [] p.sql = ">" -> v > p.arg
                          [] p.sql = ">=" -> v >= p.arg
                          [] p.sql = "<" -> v < p.arg
                          [] p.sql = "<=" -> v <= p.arg
                          [] p.sql = "IN" -> v \in p.arg
                          [] p.sql = "NOT IN" -> v \notin p.arg
                          [] p.sql = "LIKE" -> Like(v, p.arg))

-----------------------------------------------------------------------------
(* What a filter means: its conditions hold of the row's own value.        *)

\* part is found in text as it is written, letter case aside on SQLite.
At(text, part, i) ==
    /\ i + Len(part) <= Len(text)
    /\ \A k \in 1 .. Len(part) : Fold(text[i + k]) = Fold(part[k])

\* NULL meets no condition but the one that asks for it, and the empty lists.
Holds(c, v) ==
    CASE c.op \in {"equals", "not"} /\ c.arg = Null -> (v = Null) = (c.op = "equals")
      [] c.op = "not_in" /\ c.arg = {} -> TRUE
      [] c.op = "in" /\ c.arg = {} -> FALSE
      [] OTHER ->
             /\ v # Null
             /\ CASE c.op = "equals" -> v = c.arg
                  [] c.op = "not" -> v # c.arg
                  [] c.op = "gt" -> v > c.arg
                  [] c.op = "gte" -> v >= c.arg
                  [] c.op = "lt" -> v < c.arg
                  [] c.op = "lte" -> v <= c.arg
                  [] c.op = "in" -> v \in c.arg
                  [] c.op = "not_in" -> v \notin c.arg
                  [] c.op = "contains" -> \E i \in 0 .. Len(v) : At(v, c.arg, i)
                  [] c.op = "starts_with" -> At(v, c.arg, 0)
                  [] c.op = "ends_with" -> Len(c.arg) <= Len(v) /\ At(v, c.arg, Len(v) - Len(c.arg))

\* The condition is of no use on this row: it compares a NULL.
Undecided(c, v) ==
    /\ v = Null
    /\ c.op \in {"equals", "not"} => c.arg # Null
    /\ c.op \in {"in", "not_in"} => c.arg # {}

AllHold(w, row) == \A c \in w.own : Holds(c, row[c.col])

\* A row a NOT lets through is one that fails a condition for certain.
Fails(w, row) == \E c \in w.own : ~Holds(c, row[c.col]) /\ ~Undecided(c, row[c.col])

Found(w, row) ==
    /\ AllHold(w, row)
    /\ \A x \in w.and : AllHold(x, row)
    /\ w.or # {} => \E x \in w.or : AllHold(x, row)
    /\ \A x \in w.not : Fails(x, row)
=============================================================================
