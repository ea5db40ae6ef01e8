------------------------------ MODULE MCShell ------------------------------
EXTENDS Shell

Word(v) == [type |-> "WORD", value |-> v]

\* A statement in two lines, whole statements, and one the parser refuses.
TextLines ==
    {<<Keyword("SELECT"), Number("1")>>,
     <<Keyword("FROM"), Ident("t"), Semicolon>>,
     <<Keyword("BEGIN"), Semicolon>>,
     <<Keyword("TABLE"), Semicolon>>}

\* A comment line, a comment after a statement, two statements in a line, a number
\* that begins with its point, a string in two lines.
UntidyLines ==
    {<<Number(".5"), Semicolon>>,
     <<Comment, Ident("note")>>,
     <<Keyword("SELECT"), Quote, Ident("a")>>,
     <<Ident("b"), Quote, Semicolon>>,
     <<Keyword("END"), Semicolon, Comment>>,
     <<Keyword("END"), Semicolon, Keyword("ROLLBACK"), Semicolon>>}

DotLines ==
    {<<Word(".exit")>>, <<Word(".tables")>>, <<Word(".schema")>>, <<Word(".schema"), Ident("t")>>,
     <<Word(".mode")>>, <<Word(".mode"), Word("csv")>>, <<Word(".mode"), Word("color"), Word("on")>>,
     <<Word(".mode"), Word("color"), Word("off")>>, <<Word(".mode"), Word("color")>>,
     <<Word(".timer"), Word("on")>>, <<Word(".timer"), Word("off")>>,
     <<Word(".width"), Word("0")>>, <<Word(".width"), Word("20")>>, <<Word(".width"), Word("wide")>>,
     <<Word(".nullvalue")>>, <<Word(".nullvalue"), Word("none")>>,
     <<Word(".explain")>>, <<Word(".explain"), Keyword("BEGIN"), Semicolon>>,
     <<Word(".explain"), Keyword("END"), Semicolon, Keyword("ROLLBACK")>>}

AllLines == {<<>>} \cup TextLines \cup UntidyLines \cup DotLines

Dots == {".exit", ".quit", ".tables", ".schema", ".mode", ".timer", ".width", ".nullvalue", ".explain",
         ".5"}
=============================================================================
