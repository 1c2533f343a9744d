----------------------------- MODULE MCFilters -----------------------------
(***************************************************************************)
(* Filters on a table with a column for each set of operators.             *)
(***************************************************************************)
EXTENDS FilterClause

MCKinds == [title |-> "String", content |-> "NullableString", views |-> "BigInt",
            gone |-> "NullableDateTime", likes |-> "NullableInt", status |-> "Enum",
            published |-> "Bool", pinned |-> "NullableBool"]

MCCharacters == {"a", "A", "b", "%", "_", "\\"}
Texts == {<<"a">>, <<"A">>, <<"a", "b">>, <<"%">>, <<"a", "%">>, <<"_", "b">>,
          <<"\\">>, <<"b", "\\", "a">>}
Values == [title |-> Texts, content |-> {Null, <<"a">>, <<"b", "%">>}, views |-> 0 .. 2,
           gone |-> {Null, 1, 2}, likes |-> {Null, 0, 1}, status |-> {"Draft", "Published"},
           published |-> BOOLEAN, pinned |-> BOOLEAN \cup {Null}]

\* What the operators of a column may be given.
Arguments(col, op) ==
    LET plain == Values[col] \ {Null}
    IN  CASE op \in {"in", "not_in"} -> {{}} \cup {{x} : x \in plain} \cup {plain}
          [] op \in {"equals", "not"} -> plain \cup (IF MayAskForNull(MCKinds[col]) THEN {Null} ELSE {})
          [] op \in {"contains", "starts_with", "ends_with"} -> plain \cup {<< >>}
          [] OTHER -> plain

Conditions(cols) ==
    UNION {UNION {{Condition(col, op, arg) : arg \in Arguments(col, op)}
                  : op \in Operators(MCKinds[col])} : col \in cols}

\* Every condition by itself, and negated.
Single == {Leaf({c}) : c \in Conditions(DOMAIN MCKinds)}
Negated == {Where({}, {}, {}, {w}) : w \in Single}

\* Every way to nest a few conditions whose outcomes differ.
Few == {Leaf({}), Leaf({Condition("content", "equals", Null)}),
        Leaf({Condition("content", "not", <<"a">>)}),
        Leaf({Condition("views", "gt", 0), Condition("content", "contains", <<"%">>)}),
        Leaf({Condition("gone", "lt", 2), Condition("views", "in", {})})}
AtMost(n, S) == {T \in SUBSET S : Cardinality(T) <= n}
Nested == {Where(x.own, y, z, n) : x \in Few, y \in AtMost(1, Few), z \in AtMost(2, Few), n \in AtMost(1, Few)}

MCWheres == Single \cup Negated \cup Nested

\* One column varies freely where a single condition looks at it; the nested
\* ones look at three.
Plain == [title |-> <<"a">>, content |-> <<"a">>, views |-> 1, gone |-> 1, likes |-> 1,
          status |-> "Draft", published |-> TRUE, pinned |-> TRUE]
MCRows ==
    UNION {{[Plain EXCEPT ![col] = v] : v \in Values[col]} : col \in DOMAIN MCKinds}
    \cup {[Plain EXCEPT !.content = c, !.views = n, !.gone = g] :
              c \in Values.content, n \in Values.views, g \in Values.gone}
=============================================================================
