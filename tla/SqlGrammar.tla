------------------------------ MODULE SqlGrammar ------------------------------
(***************************************************************************)
(* What the parser should accept, and how a statement is written: the      *)
(* reference that SqlParser is compared with.  A written statement is a    *)
(* tree like the parser's, in which BETWEEN and the aggregates are still   *)
(* nodes of their own.                                                     *)
(***************************************************************************)
EXTENDS SqlParser

CONSTANTS GrammarLength, \* bound on the token sequences compared with the grammar
          MaxSlips,      \* bound on the tokens mistyped or left out of a phrase
          Operands       \* the operands predicates are built from

-----------------------------------------------------------------------------
(* The language of predicates, as sets of token sequences by length: the   *)
(* one that sql-parser/spec.md and the comments of predicate.py describe.  *)

Pairs(left, middle, right) ==
    {l \o middle \o r : l \in left, r \in right}

Kw(v) == <<Keyword(v)>>
Parens(s) == <<Punct("(")>> \o s \o <<Punct(")")>>

Constant == Keyword("NULL")
Name == Ident("x")
Equals == Operator("=")
Comma == Punct(",")

\* Language[n] is [primary, negation, conjunction, predicate], the phrases of n tokens.
Language ==
    LET ListsOf(n) == IF n % 2 = 0 THEN {}
                      ELSE {[i \in 1..n |-> IF i % 2 = 1 THEN Constant ELSE Comma]}
        L[n \in 0..GrammarLength] ==
          LET Split(k, before, mid, after) ==
                  UNION {Pairs(L[i][before], mid, L[k - Len(mid) - i][after]) :
                            i \in 1..(k - Len(mid) - 1)}
              primary ==
                  IF n = 1 THEN {<<Constant>>, <<Name>>}
                  ELSE IF n < 3 THEN {} ELSE {Parens(s) : s \in L[n - 2].predicate}
              comparison ==
                  primary
                  \cup Split(n, "primary", <<Equals>>, "primary")
                  \cup UNION {{s \o Kw("IS") \o t \o Kw("NULL") : s \in L[n - 2 - Len(t)].primary} :
                                 t \in {u \in {<<>>, Kw("NOT")} : n - 2 - Len(u) >= 1}}
                  \cup UNION {UNION {Pairs(L[i].primary, t \o Kw("IN"),
                                           {Parens(v) : v \in ListsOf(n - 3 - Len(t) - i)}) :
                                        i \in 1..(n - 4 - Len(t))} : t \in {<<>>, Kw("NOT")}}
                  \cup UNION {UNION {Pairs(L[i].primary, t \o Kw("BETWEEN"),
                                           Split(n - 1 - Len(t) - i, "primary", Kw("AND"), "primary")) :
                                        i \in 1..(n - 4 - Len(t))} : t \in {<<>>, Kw("NOT")}}
              negation == comparison \cup IF n = 1 THEN {} ELSE {Kw("NOT") \o s : s \in L[n - 1].negation}
              conjunction == negation \cup Split(n, "conjunction", Kw("AND"), "negation")
          IN  [primary |-> primary,
               negation |-> negation,
               conjunction |-> conjunction,
               predicate |-> conjunction \cup Split(n, "predicate", Kw("OR"), "conjunction")]
    IN  L

\* The predicates of the grammar up to the bound.
Phrases == UNION {Language[n].predicate : n \in 1..GrammarLength}

Alphabet ==
    {Constant, Name, Equals, Comma, Punct("("), Punct(")")}
    \cup {Keyword(v) : v \in {"AND", "OR", "IS", "NOT", "IN", "BETWEEN"}}

-----------------------------------------------------------------------------
(* Writing a predicate with as few parentheses as its shape allows         *)

Level(tree) ==
    CASE tree[1] = "or" -> 0
      [] tree[1] = "and" -> 1
      [] tree[1] \in {"column", "qualified", "number", "string", "bool", "null"} -> 3
      [] OTHER -> 2

WriteLiteral(v) ==
    CASE v[1] = "number" -> Number(v[2])
      [] v[1] = "string" -> String(v[2])
      [] v[1] = "bool" -> Keyword(v[2])
      [] v[1] = "null" -> Keyword("NULL")

\* Items with commas between them.
Listed(items) ==
    FlattenSeq([i \in 1..Len(items) |-> IF i = 1 THEN items[i] ELSE <<Comma>> \o items[i]])

WriteColumn(c) ==
    IF c[1] = "column" THEN <<Ident(c[2])>> ELSE <<Ident(c[2]), Punct("."), Ident(c[3])>>

WriteValues(values) == Parens(Listed([i \in 1..Len(values) |-> <<WriteLiteral(values[i])>>]))

RECURSIVE Write(_, _)

\* The tokens of a tree in a place for trees of at least this level.
Write(tree, level) ==
    LET text ==
          CASE tree[1] = "or" -> Write(tree[2], 0) \o Kw("OR") \o Write(tree[3], 1)
            [] tree[1] = "and" -> Write(tree[2], 1) \o Kw("AND") \o Write(tree[3], 2)
            [] tree[1] = "compare" -> Write(tree[3], 3) \o <<Operator(tree[2])>> \o Write(tree[4], 3)
            [] tree[1] = "between" ->
                 Write(tree[2], 3) \o Kw("BETWEEN") \o Write(tree[3], 3) \o Kw("AND") \o Write(tree[4], 3)
            [] tree[1] = "isnull" -> Write(tree[2], 3) \o Kw("IS") \o Kw("NULL")
            [] tree[1] = "notnull" -> Write(tree[2], 3) \o Kw("IS") \o Kw("NOT") \o Kw("NULL")
            [] tree[1] = "in" -> Write(tree[2], 3) \o Kw("IN") \o WriteValues(tree[3])
            [] tree[1] = "notin" -> Write(tree[2], 3) \o Kw("NOT") \o Kw("IN") \o WriteValues(tree[3])
            [] tree[1] \in {"column", "qualified"} -> WriteColumn(tree)
            [] OTHER -> <<WriteLiteral(tree)>>
    IN  IF Level(tree) < level THEN Parens(text) ELSE text

RECURSIVE Meaning(_)

\* The parser's tree for a written one.
Meaning(tree) ==
    CASE tree[1] \in {"or", "and"} -> <<tree[1], Meaning(tree[2]), Meaning(tree[3])>>
      [] tree[1] = "compare" -> <<"compare", tree[2], Meaning(tree[3]), Meaning(tree[4])>>
      [] tree[1] = "between" ->
           <<"and", <<"compare", ">=", Meaning(tree[2]), Meaning(tree[3])>>,
                    <<"compare", "<=", Meaning(tree[2]), Meaning(tree[4])>>>>
      [] tree[1] \in {"isnull", "notnull"} -> <<tree[1], Meaning(tree[2])>>
      [] tree[1] \in {"in", "notin"} -> <<tree[1], Meaning(tree[2]), tree[3]>>
      [] OTHER -> tree

\* Predicates built from the operands in three rounds.
Predicates ==
    LET lists == {<<<<"null">>>>, <<<<"number", "1">>, <<"string", "s">>>>}
        Around(S) ==
            {<<op, p, q>> : op \in {"and", "or"}, p \in S, q \in S}
            \cup {<<"compare", "=", p, q>> : p \in S, q \in S}
            \cup {<<op, p>> : op \in {"isnull", "notnull"}, p \in S}
            \cup {<<op, p, v>> : op \in {"in", "notin"}, p \in S, v \in lists}
            \cup {<<"between", p, q, r>> : p \in S, q \in S, r \in Operands}
        one == Operands \cup Around(Operands)
        two == one \cup Around(one)
    IN  two \cup {<<op, p, q>> : op \in {"and", "or"}, p \in two, q \in Operands}
            \cup {<<op, p, q>> : op \in {"and", "or"}, p \in Operands, q \in two}
            \cup {<<"between", p, q, q>> : p \in Operands, q \in one}

-----------------------------------------------------------------------------
(* Writing a statement.  An optional part is <<>> or <<the part>>.          *)

Column(c) == <<"column", c>>

WriteProjection(p) ==
    CASE p[1] = "star" -> <<Punct("*")>>
      [] p[1] = "aggregate" ->
           <<Keyword(p[2])>> \o Parens(<<IF p[3] = "*" THEN Punct("*") ELSE Ident(p[3])>>)
      [] OTHER -> Write(p, 3)

ProjectionMeaning(p) ==
    IF p[1] = "aggregate" THEN <<"string", p[2] \o "(" \o p[3] \o ")">> ELSE p

\* A clause that may be missing: its words, then its text.
Clause(part, words, text) == IF part = <<>> THEN <<>> ELSE words \o text

WriteWhere(w) == Clause(w, Kw("WHERE"), Write(w[1][1], 0))

WriteAlias(a) == Clause(a, Kw("AS"), <<Ident(a[1])>>)

WriteJoin(j) ==
    Kw(j[1]) \o Kw("JOIN") \o <<Ident(j[2])>> \o WriteAlias(j[3]) \o Kw("ON") \o Write(j[4], 0)

WriteStatement(q) ==
    CASE q[1] = "select" ->
           LET from == q[3]
               group == q[5]
               order == q[6]
           IN  Kw("SELECT") \o Listed([i \in 1..Len(q[2]) |-> WriteProjection(q[2][i])])
               \o Clause(from, Kw("FROM"),
                         <<Ident(from[1][1])>> \o WriteAlias(from[1][2])
                         \o FlattenSeq([i \in 1..Len(from[1][3]) |-> WriteJoin(from[1][3][i])]))
               \o WriteWhere(q[4])
               \o Clause(group, Kw("GROUP") \o Kw("BY"),
                         Listed([i \in 1..Len(group[1][1]) |-> WriteColumn(group[1][1][i])]))
               \o Clause(order, Kw("ORDER") \o Kw("BY"),
                         Listed([i \in 1..Len(order[1][1]) |->
                                   WriteColumn(order[1][1][i][1]) \o Kw(order[1][1][i][2])]))
               \o Clause(q[7], Kw("LIMIT"), <<Number(q[7][1][1])>>)
               \o Clause(q[8], Kw("OFFSET"), <<Number(q[8][1][1])>>)
      [] q[1] = "insert" ->
           Kw("INSERT") \o Kw("INTO") \o <<Ident(q[2])>>
           \o Clause(q[3], <<>>, Parens(Listed([i \in 1..Len(q[3][1]) |-> <<Ident(q[3][1][i])>>])))
           \o Kw("VALUES") \o Listed([i \in 1..Len(q[4]) |-> WriteValues(q[4][i])])
      [] q[1] = "update" ->
           Kw("UPDATE") \o <<Ident(q[2])>> \o Kw("SET")
           \o Listed([i \in 1..Len(q[3]) |-> <<Ident(q[3][i][1]), Equals, WriteLiteral(q[3][i][2])>>])
           \o WriteWhere(q[4])
      [] q[1] = "delete" -> Kw("DELETE") \o Kw("FROM") \o <<Ident(q[2])>> \o WriteWhere(q[3])
      [] q[1] = "create" ->
           Kw("CREATE") \o Kw("TABLE") \o Clause(q[2], Kw("IF") \o Kw("NOT") \o Kw("EXISTS"), <<>>)
           \o <<Ident(q[3])>>
           \o Parens(Listed([i \in 1..Len(q[4]) |->
                       <<Ident(q[4][i][1]), Keyword(q[4][i][2])>>
                       \o FlattenSeq([j \in 1..Len(q[4][i][3]) |->
                            [k \in 1..Len(q[4][i][3][j]) |-> Keyword(q[4][i][3][j][k])]])]))
      [] q[1] = "drop" ->
           Kw("DROP") \o Kw("TABLE") \o Clause(q[2], Kw("IF") \o Kw("EXISTS"), <<>>)
           \o Listed([i \in 1..Len(q[3]) |-> <<Ident(q[3][i])>>])
      [] q[1] = "explain" -> Kw("EXPLAIN") \o Kw("CHECKPOINT")
      [] q[1] = "checkpoint" -> Kw("CHECKPOINT")
      [] q[1] = "begin" -> Kw("BEGIN")
      [] q[1] = "commit" -> Kw("END")
      [] q[1] = "rollback" -> Kw("ROLLBACK")

StatementMeaning(q) ==
    IF q[1] = "select"
    THEN [q EXCEPT ![2] = [i \in DOMAIN @ |-> ProjectionMeaning(@[i])]]
    ELSE q

Opt(S) == {<<>>} \cup {<<x>> : x \in S}

Statements ==
    LET a == Column("a")
        tb == <<"qualified", "t", "b">>
        one == <<"number", "1">>
        wheres == Opt({<<<<"compare", "=", a, one>>>>, <<<<"or", <<"isnull", a>>, tb>>>>})
        tuples == {<<<<one>>>>, <<<<one, <<"null">>>>, <<<<"string", "s">>, <<"bool", "TRUE">>>>>>}
        joins == {<<>>, <<<<"LEFT", "u", <<>>, a>>>>,
                  <<<<"INNER", "u", <<"v">>, <<"compare", "=", a, tb>>>>, <<"LEFT", "w", <<>>, a>>>>}
    IN  {<<"select", p, f, w, g, o, l, k>> :
            p \in {<<<<"star">>>>, <<a, tb>>, <<<<"aggregate", "COUNT", "*">>, one>>,
                   <<<<"aggregate", "SUM", "a">>>>},
            f \in Opt({<<"t", n, j>> : n \in {<<>>, <<"n">>}, j \in joins}),
            w \in wheres,
            g \in Opt({<<<<a>>>>, <<<<a, tb>>>>}),
            o \in Opt({<<<<<<a, "DESC">>, <<tb, "ASC">>>>>>}),
            l \in Opt({<<"2">>}), k \in Opt({<<"3">>})}
        \cup {<<"insert", "t", c, v>> : c \in Opt({<<"a">>, <<"a", "b">>}), v \in tuples}
        \cup {<<"update", "t", s, w>> : s \in {<<<<"a", one>>>>, <<<<"a", one>>, <<"b", <<"null">>>>>>},
                                        w \in wheres}
        \cup {<<"delete", "t", w>> : w \in wheres}
        \cup {<<"create", f, "t", c>> :
                 f \in Opt({<<>>}),
                 c \in {<<<<"a", "INT", <<<<"PRIMARY", "KEY">>>>>>>>,
                        <<<<"a", "TEXT", <<<<"NOT", "NULL">>, <<"UNIQUE">>>>>>, <<"b", "BOOL", <<>>>>>>}}
        \cup {<<"drop", f, n>> : f \in Opt({<<>>}), n \in {<<"t">>, <<"t", "u">>}}
        \cup {<<"explain", <<"checkpoint">>>>, <<"checkpoint">>, <<"begin">>, <<"commit">>,
              <<"rollback">>}

\* One statement of each kind, to be followed by another.
Leading ==
    LET a == Column("a")
    IN  {<<"select", <<a>>, <<>>, <<>>, <<>>, <<>>, <<>>, <<>>>>,
         <<"select", <<<<"star">>>>, <<<<"t", <<>>, <<>>>>>>, <<>>, <<<<<<a>>>>>>, <<>>, <<>>, <<>>>>,
         <<"insert", "t", <<>>, <<<<<<"null">>>>>>>>, <<"update", "t", <<<<"a", <<"null">>>>>>, <<>>>>,
         <<"delete", "t", <<>>>>, <<"drop", <<>>, <<"t">>>>, <<"checkpoint">>, <<"begin">>,
         <<"create", <<>>, "t", <<<<"a", "INT", <<>>>>>>>>}

-----------------------------------------------------------------------------
(* The texts given to the parser: a predicate or a statement as it is      *)
(* written, or a phrase of the grammar in which tokens are mistyped.       *)

VARIABLE source

Init ==
    \/ \E p \in Predicates : source = [kind |-> "predicate", slips |-> 0, text |-> p]
    \/ \E q \in Statements : source = [kind |-> "statement", slips |-> 0, text |-> q]
    \/ \E s \in Phrases : source = [kind |-> "tokens", slips |-> 0, text |-> s]

SlipsAt(last) ==
    IF source.kind = "tokens" /\ source.slips < MaxSlips THEN 1..last ELSE {}

Slip(text) == source' = [source EXCEPT !.text = text, !.slips = @ + 1]

Mistype == \E i \in SlipsAt(Len(source.text)), t \in Alphabet : Slip([source.text EXCEPT ![i] = t])

LeaveOut == \E i \in SlipsAt(Len(source.text)) : Slip(RemoveAt(source.text, i))

Next == Mistype \/ LeaveOut

Spec == Init /\ [][Next]_source

-----------------------------------------------------------------------------
(* Properties                                                              *)

Accepted(text) == \E p \in ParseExpression(text) : p[2] = <<>>

\* NOT is written only where the code looks for it: after IS and before IN.
NotAsInCode(text) ==
    \A i \in DOMAIN text : text[i] = Keyword("NOT") =>
       \/ i > 1 /\ text[i - 1] = Keyword("IS")
       \/ i < Len(text) /\ text[i + 1] = Keyword("IN")

\* Apart from the NOT of NOT BETWEEN and the NOT before a condition, parse_expression
\* accepts exactly the predicates of the grammar: the descent, which never goes back
\* and reads the AND of BETWEEN and the AND between conditions in different
\* functions, refuses no phrase and takes no other.
PredicatesMatchGrammar ==
    source.kind = "tokens" /\ NotAsInCode(source.text) =>
       (Accepted(source.text) <=> source.text \in Phrases)

\* Not so, although parse_not_expression is said to parse NOT and parse_comparison
\* "[NOT] BETWEEN a AND b": every phrase is accepted.
PhrasesAccepted == source.kind = "tokens" /\ source.text \in Phrases => Accepted(source.text)

\* What was written is what is parsed: a predicate with no more parentheses than
\* AND before OR and the grouping to the left require, and a statement clause
\* by clause, whatever clauses it leaves out.
RoundTrips ==
    /\ source.kind = "predicate" =>
          ParseExpression(Write(source.text, 0)) = {<<Meaning(source.text), <<>>>>}
    /\ source.kind = "statement" =>
          Parse(WriteStatement(source.text) \o <<Semicolon>>) = {StatementMeaning(source.text)}

\* Two statements given to parse as one text are refused: dropping every ";"
\* neither runs them together into one statement nor loses the second.
NeverRunTogether ==
    source.kind = "statement" =>
       \A first \in Leading :
          Parse(WriteStatement(first) \o <<Semicolon>> \o WriteStatement(source.text)) = {}
===============================================================================
