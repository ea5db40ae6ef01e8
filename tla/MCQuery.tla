------------------------------- MODULE MCQuery -------------------------------
EXTENDS Planner

\* Every two tables share a column, and "y" is not a column of the first one.
ThreeTables == [a |-> {"id", "x"}, b |-> {"id", "y"}, c |-> {"x", "y"}]
TwoValues == {1, 2}
Text == {<<"b", "y">>, <<"c", "y">>}

OnB == {Compare(Qualified("a", "id"), op, Qualified("b", "id")) : op \in {"=", "<"}}
OnC == {Compare(Qualified("b", "y"), "=", Qualified("c", "y")),
        Logical(Compare(Qualified("a", "x"), "=", Qualified("c", "x")), "AND",
                Compare(Qualified("b", "y"), "<>", Qualified("c", "y")))}
JoinOf(t, ons) == [kind : {"INNER", "LEFT"}, table : {t}, alias : {""}, on : ons]
Wheres == {Everything, IsNull(Qualified("b", "y"))}

Chains ==
    {Query("a", <<j>>, w) : j \in JoinOf("b", OnB), w \in Wheres}
      \cup {Query("a", <<j, k>>, w) : j \in JoinOf("b", OnB), k \in JoinOf("c", OnC), w \in Wheres}
      \cup {Query("a", <<j, k>>, Everything) :
               j \in JoinOf("b", OnB),
               k \in JoinOf("c", {Compare(Qualified("a", "x"), "=", Qualified("c", "y"))})}
      \cup {Query("a", <<[j EXCEPT !.alias = name]>>, Everything) :
               j \in JoinOf("b", OnB), name \in {"c", "s"}}

OnEqual ==
    JoinOf("b", {Compare(Qualified("a", "id"), "=", Qualified("b", "id"))})
      \cup JoinOf("c", {Compare(Column("id"), "=", Qualified("c", "x"))})

Simple ==
    {Compare(Column("x"), op, Literal(v)) : op \in {"=", "<>", "<", "<=", ">", ">="}, v \in {0, 1}}
      \cup {IsNull(Column("x")), IsNotNull(Column("id")), In(Column("id"), {1, 2}),
            Compare(Column("x"), "=", Column("id"))}
Compound ==
    {Everything} \cup Simple
      \cup {Logical(l, op, r) : l \in {IsNull(Column("x")), In(Column("id"), {1})}, op \in {"AND", "OR"},
                                r \in {Compare(Column("x"), "<", Column("id")), IsNotNull(Column("id"))}}

\* Plans: predicates of the first table, one of another, with up to two joins.
PlannedWheres ==
    {Everything, Compare(Column("id"), "=", Literal(1)), Compare(Column("x"), "<", Literal(2)),
     Compare(Column("id"), "<", Literal(2)),
     Compare(Column("id"), "=", Column("x")), IsNull(Column("x")), IsNull(Qualified("b", "y")),
     Logical(Compare(Column("id"), "=", Literal(2)), "AND", IsNotNull(Column("x")))}
OnEqualB == Compare(Qualified("a", "id"), "=", Qualified("b", "id"))
Planned ==
    {Query("a", <<>>, w) : w \in PlannedWheres}
      \cup {Query("a", <<j>>, w) : j \in JoinOf("b", {OnEqualB}), w \in PlannedWheres}
      \cup {Query("a", <<j, k>>, w) :
               j \in JoinOf("b", {OnEqualB}), w \in PlannedWheres,
               k \in JoinOf("c", {Compare(Qualified("b", "y"), "=", Qualified("c", "y"))})}
ThreeScales == {0, 1, 60}
WithAndWithout == {{}, {<<"a", "id">>}}

ByEither == {[by |-> Column(c), dir |-> d] : c \in {"id", "x"}, d \in {"ASC", "DESC"}}
==============================================================================
