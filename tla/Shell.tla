-------------------------------- MODULE Shell --------------------------------
(***************************************************************************)
(* tinydb/cli.py and cli_dotcommands.py: one session of the shell.  Lines  *)
(* come from a terminal (_run_repl) or from a script (_run_batch).  A line *)
(* is a sequence of lexemes; a dot command is a line whose first lexeme    *)
(* begins with a dot.  What is printed is left out.                        *)
(*                                                                         *)
(* The database is external: a statement that parses is carried out        *)
(* ("ok"), fails with a TinyDBError ("error") or raises something else,    *)
(* KeyboardInterrupt included ("raised").                                  *)
(***************************************************************************)
EXTENDS SqlParser, FiniteSets

CONSTANTS Lines,    \* the lines that may be typed
          DotWords, \* the first lexemes that begin with a dot
          MaxLines, \* bound on the lines of a session
          Pygments  \* whether the pygments package can be imported

VARIABLES
    tty,      \* stdin.isatty()
    buffer,   \* the lines of the statement being typed
    hasError, \* has_error of _run_batch
    cfg,      \* _ReplConfig
    exit,     \* "running", the status "0" or "1", or "raised" for an escaped exception
    script,   \* history: every line read that is not meant as a dot command
    sent,     \* history: [text, outcome] of what was given to Database.execute
    read      \* the number of lines read

vars == <<tty, buffer, hasError, cfg, exit, script, sent, read>>

Outcomes == {"ok", "parse", "error", "raised"}

TypeOK ==
    /\ tty \in BOOLEAN
    /\ buffer \in Seq(Lines)
    /\ hasError \in BOOLEAN
    /\ cfg \in [mode : {"table", "csv", "json"}, timer : BOOLEAN, width : Nat \ {0},
                nullvalue : Seq(STRING), color : {FALSE, Pygments}]
    /\ exit \in {"running", "0", "1", "raised"}
    /\ script \in Seq(Lines)
    /\ \A i \in DOMAIN sent : sent[i].outcome \in Outcomes
    /\ read \in 0..MaxLines

\* _ReplConfig(), with the initial colour of _resolve_initial_color.
InitialConfigs ==
    [mode : {"table"}, timer : {FALSE}, width : {30}, nullvalue : {<<>>}, color : {FALSE, Pygments}]

Init ==
    /\ tty \in BOOLEAN
    /\ buffer = <<>>
    /\ hasError = FALSE
    /\ cfg \in InitialConfigs
    /\ exit = "running"
    /\ script = <<>>
    /\ sent = <<>>
    /\ read = 0

-----------------------------------------------------------------------------
(* Lines                                                                   *)

IsDot(line) == line # <<>> /\ Head(line).value \in DotWords

Args(line) == [i \in 1..(Len(line) - 1) |-> line[i + 1].value]

\* stripped.endswith(";")
EndsStatement(line) == line # <<>> /\ Last(line) = Semicolon

\* Mutant of Joined: only the line with the ";" is executed.
JoinedLast(lines) == Last(lines)

\* " ".join(buffer): the line ends are gone.
Joined(lines) == FlattenSeq(lines)

\* What Database.execute can do with a text.
Results(text) == IF Parse(text) = {} THEN {"parse"} ELSE {"ok", "error", "raised"}

ReadLine ==
    /\ exit = "running"
    /\ read < MaxLines
    /\ read' = read + 1

-----------------------------------------------------------------------------
(* The loops of _run_batch and _run_repl                                   *)

BlankLine ==
    /\ ReadLine
    /\ <<>> \in Lines
    /\ UNCHANGED <<tty, buffer, hasError, cfg, exit, script, sent>>

BufferLine(line) ==
    /\ ReadLine
    /\ line # <<>> /\ ~IsDot(line) /\ ~EndsStatement(line)
    /\ buffer' = Append(buffer, line)
    /\ script' = Append(script, line)
    /\ UNCHANGED <<tty, hasError, cfg, exit, sent>>

\* Mutant of Failed: a later statement that succeeds clears the error.
FailedLast(outcome) == ~tty /\ outcome = "error"

\* has_error after a statement: a parse error leaves it alone.
Failed(outcome) == hasError \/ (~tty /\ outcome = "error")

\* The line completes a statement, which is executed.
ExecuteLine(line, outcome) ==
    /\ ReadLine
    /\ ~IsDot(line) /\ EndsStatement(line)
    /\ LET text == Joined(Append(buffer, line))
       IN  /\ outcome \in Results(text)
           /\ sent' = Append(sent, [text |-> text, outcome |-> outcome])
    /\ buffer' = <<>>
    /\ script' = Append(script, line)
    /\ hasError' = Failed(outcome)
    /\ exit' = IF outcome = "raised" THEN "raised" ELSE exit
    /\ UNCHANGED <<tty, cfg>>

\* The end of the session: what is still in the buffer is forgotten.
Return ==
    /\ exit' = IF ~tty /\ hasError THEN "1" ELSE "0"
    /\ UNCHANGED <<tty, buffer, hasError, cfg, script, sent>>

\* The end of the input, or an interrupt at the prompt of the terminal.
EndOfInput ==
    /\ exit = "running"
    /\ Return
    /\ UNCHANGED read

\* An interrupt while a script is read is caught by nobody.
InterruptBatch ==
    /\ exit = "running" /\ ~tty
    /\ exit' = "raised"
    /\ UNCHANGED <<tty, buffer, hasError, cfg, script, sent, read>>

-----------------------------------------------------------------------------
(* Dot commands                                                            *)

Command(line) == Head(line).value

ExitLine(line) ==
    /\ ReadLine
    /\ IsDot(line) /\ Command(line) \in {".exit", ".quit"}
    /\ Return

\* .schema of a table the catalog has or has not; in a script a missing one is an error.
SchemaLine(line, found) ==
    /\ ReadLine
    /\ IsDot(line) /\ Command(line) = ".schema" /\ Args(line) # <<>>
    /\ hasError' = (hasError \/ (~tty /\ ~found))
    /\ UNCHANGED <<tty, buffer, cfg, exit, script, sent>>

\* _handle_mode, _handle_timer, _handle_width, _handle_nullvalue: the settings after a command.
Widths == [n \in {"0", "1", "20"} |-> CASE n = "0" -> 0 [] n = "1" -> 1 [] n = "20" -> 20]

AfterMode(args) ==
    CASE args # <<>> /\ args[1] \in {"table", "csv", "json"} -> [cfg EXCEPT !.mode = args[1]]
      [] Len(args) >= 2 /\ args[1] = "color" /\ args[2] = "on" -> [cfg EXCEPT !.color = Pygments]
      [] Len(args) >= 2 /\ args[1] = "color" /\ args[2] = "off" -> [cfg EXCEPT !.color = FALSE]
      [] OTHER -> cfg

AfterTimer(args) ==
    IF args # <<>> /\ args[1] \in {"on", "off"} THEN [cfg EXCEPT !.timer = (args[1] = "on")] ELSE cfg

AfterWidth(args) ==
    IF args # <<>> /\ args[1] \in DOMAIN Widths /\ Widths[args[1]] >= 1
    THEN [cfg EXCEPT !.width = Widths[args[1]]] ELSE cfg

AfterNullvalue(args) == [cfg EXCEPT !.nullvalue = args]

\* The other commands of handle_dot_command but .explain; an unknown one, and a line
\* of a statement that begins with a number like .5, change nothing.  A script ignores
\* them all.
SettingLine(line) ==
    /\ ReadLine
    /\ IsDot(line) /\ Command(line) \notin {".exit", ".quit", ".explain"}
    /\ Command(line) = ".schema" => Args(line) = <<>>
    /\ cfg' = CASE tty /\ Command(line) = ".mode" -> AfterMode(Args(line))
                [] tty /\ Command(line) = ".timer" -> AfterTimer(Args(line))
                [] tty /\ Command(line) = ".width" -> AfterWidth(Args(line))
                [] tty /\ Command(line) = ".nullvalue" -> AfterNullvalue(Args(line))
                [] OTHER -> cfg
    /\ script' = IF Head(line).type = "NUMBER" THEN Append(script, line) ELSE script
    /\ UNCHANGED <<tty, buffer, hasError, exit, sent>>

ExplainText(line) == <<Keyword("EXPLAIN")>> \o Tail(line)

\* .explain: TinyDBError, AttributeError and NotImplementedError are caught.
ExplainLine(line, outcome) ==
    /\ ReadLine
    /\ IsDot(line) /\ Command(line) = ".explain"
    /\ IF tty /\ Tail(line) # <<>>
       THEN /\ outcome \in Results(ExplainText(line))
            /\ exit' = IF outcome = "raised" THEN "raised" ELSE exit
       ELSE outcome = "ok" /\ UNCHANGED exit
    /\ UNCHANGED <<tty, buffer, hasError, cfg, script, sent>>

Next ==
    \/ BlankLine
    \/ \E line \in Lines :
          \/ BufferLine(line)
          \/ ExitLine(line)
          \/ SettingLine(line)
          \/ \E found \in BOOLEAN : SchemaLine(line, found)
          \/ \E outcome \in Outcomes : ExecuteLine(line, outcome) \/ ExplainLine(line, outcome)
    \/ EndOfInput
    \/ InterruptBatch

Spec == Init /\ [][Next]_vars

-----------------------------------------------------------------------------
(* Properties                                                              *)

\* The statements of a script: its tokens, cut after each ";".
Statements(lines) ==
    LET tokens == Tokenize(FlattenSeq([i \in 1..Len(lines) |-> Append(lines[i], Newline)]))
        ends == {i \in DOMAIN tokens : tokens[i] = Semicolon}
        From(i) == CHOOSE b \in {0} \cup ends :
                      b < i /\ \A c \in ends : c < i => c <= b
        ordered == SetToSortSeq(ends, <)
    IN  [n \in 1..Cardinality(ends) |-> SubSeq(tokens, From(ordered[n]) + 1, ordered[n] - 1)]

\* A script in which ";" only ends lines, no line begins with a dot, and nothing, be
\* it a comment or a string, makes line ends matter.
Tidy(lines) ==
    \A i \in DOMAIN lines :
       /\ ~IsDot(lines[i])
       /\ \A j \in DOMAIN lines[i] :
             /\ lines[i][j] \notin {Comment, Quote}
             /\ lines[i][j] = Semicolon => j = Len(lines[i])

\* What was sent, up to and with the n-th, is the beginning of the script.
SentSoFar(n) ==
    /\ n <= Len(Statements(script))
    /\ \A i \in 1..n : Unpunctuated(sent[i].text) = Statements(script)[i]

\* What reaches Database.execute from tidy lines is their statements, each once, whole
\* and in order, however they are spread over lines and whatever blank lines and dot
\* commands stand between the lines of one statement; of a script, up to the first
\* that fails.
StatementsAsWritten ==
    Tidy(script) =>
       LET failures == {i \in DOMAIN sent : sent[i].outcome # "ok"}
       IN  IF tty \/ failures = {}
           THEN SentSoFar(Len(sent)) /\ Len(sent) = Len(Statements(script))
           ELSE SentSoFar(Min(failures))

\* Not so if the lines are not tidy: a comment swallows the lines joined after it, a
\* string loses its line ends, a line may hold two statements.
SentAsWritten == [i \in DOMAIN sent |-> Unpunctuated(sent[i].text)] = Statements(script)

\* Not so, although cli-repl/spec.md asks for it: a script stops at its first error.
FailsFast == ~tty => \A i \in DOMAIN sent : sent[i].outcome # "ok" => i = Len(sent)

\* The exit status of a script that ran to its end is 1 if some statement
\* failed in the database, and a session at the terminal always ends with 0.
ExitTells ==
    /\ ~tty /\ exit = "0" => \A i \in DOMAIN sent : sent[i].outcome # "error"
    /\ exit = "1" => ~tty
    /\ ~tty /\ exit \in {"0", "1"} => \A i \in DOMAIN sent : sent[i].outcome # "raised"

\* Not so: a script with a statement the parser refuses ends with status 0.
ZeroMeansDone == ~tty /\ exit = "0" => \A i \in DOMAIN sent : sent[i].outcome = "ok"
==============================================================================
