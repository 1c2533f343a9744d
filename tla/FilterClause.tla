---------------------------- MODULE FilterClause ----------------------------
(***************************************************************************)
(* A filter on its way to the database: build_where turns it into a flat   *)
(* clause, and the database reads that clause by its own rules, NOT before *)
(* AND before OR, on a row.                                                *)
(***************************************************************************)
EXTENDS Filters

CONSTANTS
    Characters, \* the characters of a text
    Kinds,      \* the kind of each column
    Wheres,     \* the filters a caller may pass
    Rows        \* the rows the table may hold

Text == Seq(Characters)

\* A condition the filter types have: an operator of the column, an argument
\* that is NULL only where the type has that arm, and text for text.
IsCondition(c) ==
    /\ c.col \in DOMAIN Kinds
    /\ c.op \in Operators(Kinds[c.col])
    /\ c.arg = Null => MayAskForNull(Kinds[c.col]) /\ c.op \in {"equals", "not"}
    /\ c.op \in {"contains", "starts_with", "ends_with"} => c.arg \in Text

AreConditions(own) == IsFiniteSet(own) /\ \A c \in own : IsCondition(c)

\* A nested input.
IsLeaf(w) == AreConditions(w.own) /\ w.and = {} /\ w.or = {} /\ w.not = {}

ASSUME TextAssumption == Special \subseteq Characters /\ Null \notin Text

ASSUME KindsAssumption == Kinds \in [DOMAIN Kinds -> FilterKinds]

ASSUME WheresAssumption ==
    \A w \in Wheres :
        /\ AreConditions(w.own)
        /\ \A ws \in {w.and, w.or, w.not} : IsFiniteSet(ws) /\ \A x \in ws : IsLeaf(x)

ASSUME RowsAssumption ==
    \A r \in Rows, col \in DOMAIN Kinds :
        Kinds[col] \in {"String", "NullableString"} => r[col] \in Text \cup {Null}

VARIABLES
    where,      \* the WhereInput
    row,        \* a row of the table
    clause,     \* the tokens after WHERE, << >> before they are pushed
    verdict     \* what the clause comes to on the row

vars == <<where, row, clause, verdict>>

-----------------------------------------------------------------------------
(* The database's reading of a clause                                      *)

Depth(s, i) ==
    Cardinality({k \in 1 .. i - 1 : s[k].t = "("}) - Cardinality({k \in 1 .. i - 1 : s[k].t = ")"})

\* Where word stands outside parentheses.
Cuts(s, word) == {i \in 1 .. Len(s) : s[i].t = word /\ Depth(s, i) = 0}

\* The parts of s between one occurrence of word outside parentheses and the next.
Parts(s, word) ==
    LET ends == {0, Len(s) + 1} \cup Cuts(s, word)
    IN  {SubSeq(s, p[1] + 1, p[2] - 1) :
             p \in {q \in ends \X ends : q[1] < q[2] /\ \A k \in Cuts(s, word) : k \notin q[1] + 1 .. q[2] - 1}}

\* OR binds less than AND, AND less than NOT.  What stands in parentheses is
\* read by Nested.
Primary(Nested(_, _), s, r) ==
    CASE s[1].t = "(" -> Nested(SubSeq(s, 2, Len(s) - 1), r)
      [] s[1].t = "1=1" -> "true"
      [] s[1].t = "1=0" -> "false"
      [] s[1].t = "predicate" -> SqlPredicate(s[1], r[s[1].col])

Factor(Nested(_, _), s, r) ==
    IF s[1].t = "NOT" THEN Not3(Primary(Nested, Tail(s), r)) ELSE Primary(Nested, s, r)

Reading(Nested(_, _), s, r) ==
    Or3({And3({Factor(Nested, f, r) : f \in Parts(term, "AND")}) : term \in Parts(s, "OR")})

\* A filter puts parentheses into parentheses once, around the inputs of its
\* `or` list: nothing is read below.
Unread(s, r) == "unknown"
ReadConditions(s, r) == Reading(Unread, s, r)
ReadGroups(s, r) == Reading(ReadConditions, s, r)
Evaluate(s, r) == Reading(ReadGroups, s, r)

-----------------------------------------------------------------------------
Init ==
    /\ where \in Wheres
    /\ row \in Rows
    /\ clause = << >>
    /\ verdict = "none"

\* build_select_query and its siblings.
Build ==
    /\ clause = << >>
    /\ clause' = BuildWhere(where)
    /\ UNCHANGED <<where, row, verdict>>

Run ==
    /\ clause # << >> /\ verdict = "none"
    /\ verdict' = Evaluate(clause, row)
    /\ UNCHANGED <<where, row, clause>>

Next == Build \/ Run

Spec == Init /\ [][Next]_vars

-----------------------------------------------------------------------------
(* Properties                                                              *)

\* A filter finds a row exactly when every condition holds of it, one of each
\* `or` list, and of the input under `not` one condition fails for certain,
\* not because it compares a NULL.  Text is compared as it is
\* written, the characters LIKE gives a meaning included, NULL is found only
\* where it is asked for, and the clause is read the way the input is nested.
FindsWhatItSays ==
    verdict # "none" => ((verdict = "true") <=> Found(where, row))
=============================================================================
