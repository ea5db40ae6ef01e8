------------------------------ MODULE SqlParser ------------------------------
(***************************************************************************)
(* tinydb/parser: from text to statement.  A text is a sequence of         *)
(* lexemes: tokens, the mark that starts a line comment, line ends, and    *)
(* the quotes of a string that is written in several lexemes.              *)
(* How characters make up one lexeme is not modelled.                      *)
(*                                                                         *)
(* The parser consumes tokens from the left and raises ParseError at the   *)
(* first one that does not fit.  Each parse function is an operator from   *)
(* the tokens that remain to a set of pairs <<tree, tokens left>>, which   *)
(* has one element, or none for ParseError.  Numbers are well formed, so   *)
(* int() and float() succeed.                                              *)
(***************************************************************************)
EXTENDS Integers, SequencesExt

Keywords ==
    {"CREATE", "TABLE", "IF", "NOT", "EXISTS", "DROP", "INSERT", "INTO", "VALUES", "SELECT",
     "FROM", "WHERE", "ORDER", "BY", "ASC", "DESC", "LIMIT", "OFFSET", "GROUP", "UPDATE",
     "SET", "DELETE", "AND", "OR", "NULL", "IS", "IN", "BETWEEN", "TRUE", "FALSE", "PRIMARY",
     "KEY", "UNIQUE", "CHECKPOINT", "BEGIN", "TRANSACTION", "COMMIT", "END", "ROLLBACK",
     "INT", "FLOAT", "TEXT", "BOOL", "INTEGER", "REAL", "VARCHAR", "BOOLEAN", "AVG", "SUM",
     "COUNT", "AS", "JOIN", "ON", "LEFT", "RIGHT", "INNER", "OUTER", "CROSS", "NULLS",
     "FIRST", "LAST", "EXPLAIN"}

\* Tokens.  A number and a string keep the text they were written with.
Keyword(v) == [type |-> "KEYWORD", value |-> v]
Ident(v) == [type |-> "IDENT", value |-> v]
Number(v) == [type |-> "NUMBER", value |-> v]
String(v) == [type |-> "STRING", value |-> v]
Operator(v) == [type |-> "OPERATOR", value |-> v]
Punct(v) == [type |-> "PUNCT", value |-> v]

Comment == [type |-> "COMMENT", value |-> "--"]
Newline == [type |-> "NEWLINE", value |-> "nl"]
Quote == [type |-> "QUOTE", value |-> "quote"]

Semicolon == Punct(";")

\* tokenize: a comment runs to the end of its line; a string runs over line ends to the
\* next quote, or to the end of the text.
Tokenize(text) ==
    LET Scan(acc, x) ==
          CASE acc.in = "string" /\ x = Quote ->
                 [in |-> "code", part |-> "", tokens |-> Append(acc.tokens, String(acc.part))]
            [] acc.in = "string" /\ x # Quote -> [acc EXCEPT !.part = @ \o x.value]
            [] acc.in = "comment" -> IF x = Newline THEN [acc EXCEPT !.in = "code"] ELSE acc
            [] acc.in = "code" /\ x = Newline -> acc
            [] acc.in = "code" /\ x = Comment -> [acc EXCEPT !.in = "comment"]
            [] acc.in = "code" /\ x = Quote -> [acc EXCEPT !.in = "string"]
            [] OTHER -> [acc EXCEPT !.tokens = Append(@, x)]
        end == FoldLeft(Scan, [in |-> "code", part |-> "", tokens |-> <<>>], text)
    IN  IF end.in = "string" THEN Append(end.tokens, String(end.part)) ELSE end.tokens

-----------------------------------------------------------------------------
(* Reading tokens                                                          *)

Starts(s, prefix) == IsPrefix(prefix, s)

\* _match_keyword / _is_keyword on the next token.
AtKeyword(s, v) == Starts(s, <<Keyword(v)>>)

AtType(s, type) == s # <<>> /\ Head(s).type = type

\* `_peek().value == v`, whatever the type of the token.
AtValue(s, v) == s # <<>> /\ Head(s).value = v

\* The tokens with a fixed spelling, and _expect_keyword, _expect_punct, _expect of one.
FixedTexts == Keywords \cup {"(", ")", "="}

Fixed(v) ==
    CASE v \in Keywords -> Keyword(v) [] v = "=" -> Operator(v) [] OTHER -> Punct(v)

Expect(results, v) ==
    {<<p[1], Tail(p[2])>> : p \in {q \in results : Starts(q[2], <<Fixed(v)>>)}}

ParseIdent(s) == IF AtType(s, "IDENT") THEN {<<Head(s).value, Tail(s)>>} ELSE {}

-----------------------------------------------------------------------------
(* The grammar.  Trees are tuples that begin with their kind.  A           *)
(* production is a sequence of fixed texts, which leave no tree, and of    *)
(* kinds of tree.                                                          *)

RECURSIVE ParseItem(_, _), ParseList(_, _), ParseSeq(_, _), ParseOptional(_, _),
          ParseExpression(_), ParsePrimary(_), AndTail(_), OrTail(_),
          ParseJoins(_), ParseConstraints(_), ParseStatement(_)

\* The comma separated lists, and the kind of their items.
Lists ==
    [idents |-> "ident", values |-> "value", tuples |-> "tuple", columns |-> "column",
     projections |-> "projection", orders |-> "order", assignments |-> "assignment",
     columnDefs |-> "columnDef"]

ParseList(kind, s) ==
    UNION {IF ~Starts(p[2], <<Punct(",")>>) THEN {<<<<p[1]>>, p[2]>>}
           ELSE {<<<<p[1]>> \o q[1], q[2]>> : q \in ParseList(kind, Tail(p[2]))}
           : p \in ParseItem(kind, s)}

\* The clauses that are there when their first keyword is.
Clauses ==
    [where |-> <<"WHERE", "expression">>,
     from |-> <<"FROM", "ident", "alias", "joins">>,
     groupBy |-> <<"GROUP", "BY", "columns">>,
     orderBy |-> <<"ORDER", "BY", "orders">>,
     limit |-> <<"LIMIT", "int">>,
     offset |-> <<"OFFSET", "int">>,
     ifNotExists |-> <<"IF", "NOT", "EXISTS">>,
     ifExists |-> <<"IF", "EXISTS">>,
     transaction |-> <<"TRANSACTION">>]

ParseOptional(kind, s) ==
    IF ~AtKeyword(s, Head(Clauses[kind])) THEN {<<<<>>, s>>}
    ELSE {<<<<p[1]>>, p[2]>> : p \in ParseSeq(Clauses[kind], s)}

ParseSeq(kinds, s) ==
    FoldLeft(LAMBDA results, kind :
                IF kind \in FixedTexts THEN Expect(results, kind)
                ELSE UNION {{<<Append(p[1], q[1]), q[2]>> : q \in ParseItem(kind, p[2])}
                            : p \in results},
             {<<<<>>, s>>}, kinds)

Node(kind, results) == {<<<<kind>> \o p[1], p[2]>> : p \in results}

-----------------------------------------------------------------------------
(* Literals, columns, predicates                                           *)

IsLiteral(token) ==
    \/ token.type \in {"NUMBER", "STRING"}
    \/ token.type = "KEYWORD" /\ token.value \in {"TRUE", "FALSE", "NULL"}

Literal(token) ==
    CASE token.type = "NUMBER" -> <<"number", token.value>>
      [] token.type = "STRING" -> <<"string", token.value>>
      [] OTHER -> IF token.value = "NULL" THEN <<"null">> ELSE <<"bool", token.value>>

\* _parse_value
ParseValue(s) ==
    IF s # <<>> /\ IsLiteral(Head(s)) THEN {<<Literal(Head(s)), Tail(s)>>} ELSE {}

\* _parse_column_ref, and the identifier case of parse_primary.
ParseColumnRef(s) ==
    UNION {IF ~Starts(p[2], <<Punct(".")>>) THEN {<<<<"column", p[1]>>, p[2]>>}
           ELSE {<<<<"qualified", p[1], c[1]>>, c[2]>> : c \in ParseIdent(Tail(p[2]))}
           : p \in ParseIdent(s)}

\* A parenthesised list of values: _parse_value_tuple, _parse_in_list.
ParseValueTuple(s) == {<<p[1][1], p[2]>> : p \in ParseSeq(<<"(", "values", ")">>, s)}

ParsePrimary(s) ==
    IF Starts(s, <<Punct("(")>>)
    THEN {<<p[1][1], p[2]>> : p \in ParseSeq(<<"(", "expression", ")">>, s)}
    ELSE ParseValue(s) \cup ParseColumnRef(s)

\* Mutant of Bounds: the bounds are whole expressions.
BoundsGreedy(s) == ParseSeq(<<"BETWEEN", "expression", "AND", "expression">>, s)

\* The bounds of BETWEEN, with the AND that belongs to it.
Bounds(s) == ParseSeq(<<"BETWEEN", "primary", "AND", "primary">>, s)

\* What may follow the left operand of a comparison.
ComparisonTail(left, s) ==
    CASE AtKeyword(s, "IS") ->
           LET negated == AtKeyword(Tail(s), "NOT")
           IN  {<<<<IF negated THEN "notnull" ELSE "isnull", left>>, p[2]>> :
                   p \in ParseSeq(IF negated THEN <<"IS", "NOT", "NULL">> ELSE <<"IS", "NULL">>, s)}
      [] AtKeyword(s, "NOT") ->
           {<<<<"notin", left, p[1][1]>>, p[2]>> : p \in ParseSeq(<<"NOT", "IN", "tuple">>, s)}
      [] AtKeyword(s, "IN") ->
           {<<<<"in", left, p[1][1]>>, p[2]>> : p \in ParseSeq(<<"IN", "tuple">>, s)}
      [] AtKeyword(s, "BETWEEN") ->
           {<<<<"and", <<"compare", ">=", left, p[1][1]>>, <<"compare", "<=", left, p[1][2]>>>>,
              p[2]>> : p \in Bounds(s)}
      [] AtType(s, "OPERATOR") ->
           {<<<<"compare", Head(s).value, left, p[1]>>, p[2]>> : p \in ParsePrimary(Tail(s))}
      [] OTHER -> {<<left, s>>}

ParseComparison(s) == UNION {ComparisonTail(p[1], p[2]) : p \in ParsePrimary(s)}

\* The loops of parse_and_expression and parse_expression, left associative.
AndTail(p) ==
    IF ~AtKeyword(p[2], "AND") THEN {p}
    ELSE UNION {AndTail(<<<<"and", p[1], q[1]>>, q[2]>>) : q \in ParseComparison(Tail(p[2]))}

ParseAnd(s) == UNION {AndTail(p) : p \in ParseComparison(s)}

\* Mutant of OrTail: the right operand is a whole expression.
OrTailRight(p) ==
    IF ~AtKeyword(p[2], "OR") THEN {p}
    ELSE {<<<<"or", p[1], q[1]>>, q[2]>> : q \in ParseExpression(Tail(p[2]))}

OrTail(p) ==
    IF ~AtKeyword(p[2], "OR") THEN {p}
    ELSE UNION {OrTail(<<<<"or", p[1], q[1]>>, q[2]>>) : q \in ParseAnd(Tail(p[2]))}

ParseExpression(s) == UNION {OrTail(p) : p \in ParseAnd(s)}

-----------------------------------------------------------------------------
(* Parts of statements                                                     *)

\* An aggregate becomes a string literal that spells the call; an argument
\* that is not a plain column is spelled as Python shows it.
ParseAggregate(s) ==
    LET func == Head(s).value
        Spelled(name) == <<"string", func \o "(" \o name \o ")">>
    IN  IF Starts(Tail(s), <<Fixed("(")>>) /\ AtValue(Tail(Tail(s)), "*")
        THEN Expect({<<Spelled("*"), Tail(Tail(Tail(s)))>>}, ")")
        ELSE {<<Spelled(IF p[1][1][1] = "column" THEN p[1][1][2] ELSE "repr of " \o p[1][1][1]),
                p[2]>> : p \in ParseSeq(<<"(", "primary", ")">>, Tail(s))}

\* A column with AS becomes the column named by the alias.
ParseProjection(s) ==
    CASE AtValue(s, "*") -> {<<<<"star">>, Tail(s)>>}
      [] ~AtValue(s, "*") /\ AtType(s, "KEYWORD") /\ Head(s).value \in {"COUNT", "SUM", "AVG"} ->
           ParseAggregate(s)
      [] ~AtValue(s, "*") /\ (AtType(s, "NUMBER") \/ AtType(s, "STRING")) -> ParsePrimary(s)
      [] OTHER ->
           UNION {IF ~AtKeyword(p[2], "AS") THEN {p}
                  ELSE {<<<<"column", a[1]>>, a[2]>> : a \in ParseIdent(Tail(p[2]))}
                  : p \in ParseColumnRef(s)}

ParseOrderItem(s) ==
    {IF AtKeyword(p[2], "ASC") \/ AtKeyword(p[2], "DESC")
     THEN <<<<p[1], Head(p[2]).value>>, Tail(p[2])>>
     ELSE <<<<p[1], "ASC">>, p[2]>> : p \in ParseColumnRef(s)}

ParseIntLiteral(s) == IF AtType(s, "NUMBER") THEN {<<Head(s).value, Tail(s)>>} ELSE {}

ParseAssignment(s) == ParseSeq(<<"ident", "=", "value">>, s)

\* _parse_optional_alias
ParseAlias(s) ==
    IF AtKeyword(s, "AS") \/ AtType(s, "IDENT")
    THEN {<<<<a[1]>>, a[2]>> : a \in ParseIdent(IF AtKeyword(s, "AS") THEN Tail(s) ELSE s)}
    ELSE {<<<<>>, s>>}

ParseJoinClause(s) ==
    LET kind == IF AtKeyword(s, "LEFT") THEN "LEFT" ELSE "INNER"
        words == IF AtKeyword(s, "JOIN") THEN <<"JOIN">> ELSE <<kind, "JOIN">>
    IN  Node(kind, ParseSeq(words \o <<"ident", "alias", "ON", "expression">>, s))

\* parse_join_clauses
ParseJoins(s) ==
    IF ~\E v \in {"JOIN", "INNER", "LEFT"} : AtKeyword(s, v) THEN {<<<<>>, s>>}
    ELSE UNION {{<<<<p[1]>> \o q[1], q[2]>> : q \in ParseJoins(p[2])} : p \in ParseJoinClause(s)}

ParseConstraints(s) ==
    LET words == CASE AtKeyword(s, "PRIMARY") -> <<"PRIMARY", "KEY">>
                   [] AtKeyword(s, "NOT") -> <<"NOT", "NULL">>
                   [] AtKeyword(s, "UNIQUE") -> <<"UNIQUE">>
                   [] OTHER -> <<>>
    IN  IF words = <<>> THEN {<<<<>>, s>>}
        ELSE UNION {{<<<<words>> \o q[1], q[2]>> : q \in ParseConstraints(p[2])}
                    : p \in ParseSeq(words, s)}

\* Any keyword is taken for the type.
ParseColumnDef(s) ==
    UNION {IF ~AtType(p[2], "KEYWORD") THEN {}
           ELSE {<<<<p[1], Head(p[2]).value, c[1]>>, c[2]>> : c \in ParseConstraints(Tail(p[2]))}
           : p \in ParseIdent(s)}

\* The optional column list of INSERT.
ParseInsertColumns(s) ==
    IF ~AtValue(s, "(") THEN {<<<<>>, s>>} ELSE ParseSeq(<<"idents", ")">>, Tail(s))

ParseItem(kind, s) ==
    CASE kind \in DOMAIN Lists -> ParseList(Lists[kind], s)
      [] kind \in DOMAIN Clauses -> ParseOptional(kind, s)
      [] kind = "ident" -> ParseIdent(s)
      [] kind = "value" -> ParseValue(s)
      [] kind = "tuple" -> ParseValueTuple(s)
      [] kind = "column" -> ParseColumnRef(s)
      [] kind = "primary" -> ParsePrimary(s)
      [] kind = "expression" -> ParseExpression(s)
      [] kind = "projection" -> ParseProjection(s)
      [] kind = "order" -> ParseOrderItem(s)
      [] kind = "int" -> ParseIntLiteral(s)
      [] kind = "assignment" -> ParseAssignment(s)
      [] kind = "alias" -> ParseAlias(s)
      [] kind = "joins" -> ParseJoins(s)
      [] kind = "columnDef" -> ParseColumnDef(s)
      [] kind = "insertColumns" -> ParseInsertColumns(s)

-----------------------------------------------------------------------------
(* Statements                                                              *)

ParseCreateTable(s) ==
    Node("create", ParseSeq(<<"CREATE", "TABLE", "ifNotExists", "ident", "(", "columnDefs", ")">>, s))

ParseDropTable(s) == Node("drop", ParseSeq(<<"DROP", "TABLE", "ifExists", "idents">>, s))

ParseInsert(s) ==
    Node("insert", ParseSeq(<<"INSERT", "INTO", "ident", "insertColumns", "VALUES", "tuples">>, s))

ParseSelect(s) ==
    Node("select", ParseSeq(<<"SELECT", "projections", "from", "where", "groupBy", "orderBy",
                              "limit", "offset">>, s))

ParseUpdate(s) == Node("update", ParseSeq(<<"UPDATE", "ident", "SET", "assignments", "where">>, s))

ParseDelete(s) == Node("delete", ParseSeq(<<"DELETE", "FROM", "ident", "where">>, s))

\* BEGIN [TRANSACTION], COMMIT or END, ROLLBACK; any other keyword is refused.
ParseTxControl(s) ==
    CASE AtKeyword(s, "BEGIN") ->
           {<<<<"begin">>, p[2]>> : p \in ParseOptional("transaction", Tail(s))}
      [] AtKeyword(s, "COMMIT") \/ AtKeyword(s, "END") -> {<<<<"commit">>, Tail(s)>>}
      [] AtKeyword(s, "ROLLBACK") -> {<<<<"rollback">>, Tail(s)>>}
      [] OTHER -> {}

ParseStatement(s) ==
    CASE AtKeyword(s, "CREATE") -> ParseCreateTable(s)
      [] AtKeyword(s, "DROP") -> ParseDropTable(s)
      [] AtKeyword(s, "INSERT") -> ParseInsert(s)
      [] AtKeyword(s, "SELECT") -> ParseSelect(s)
      [] AtKeyword(s, "UPDATE") -> ParseUpdate(s)
      [] AtKeyword(s, "DELETE") -> ParseDelete(s)
      [] AtKeyword(s, "CHECKPOINT") -> {<<<<"checkpoint">>, Tail(s)>>}
      [] AtKeyword(s, "EXPLAIN") -> {<<<<"explain", p[1]>>, p[2]>> : p \in ParseStatement(Tail(s))}
      [] OTHER -> ParseTxControl(s)

\* Every ";" of the text is dropped, wherever it stands.
Unpunctuated(text) == SelectSeq(Tokenize(text), LAMBDA t : t # Semicolon)

\* Mutant of Parse: what follows the statement is not looked at.
ParseFirst(text) == {p[1] : p \in ParseStatement(Unpunctuated(text))}

\* parse: the statement must use up every token.
Parse(text) == {p[1] : p \in {q \in ParseStatement(Unpunctuated(text)) : q[2] = <<>>}}
==============================================================================
