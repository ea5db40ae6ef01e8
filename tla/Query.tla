-------------------------------- MODULE Query --------------------------------
(***************************************************************************)
(* What SELECT returns: tinydb/executor/select.py, join.py and             *)
(* aggregate.py as operators on the tables.  A row on its way through a    *)
(* query is a dict: the key <<"", c>> stands for "c", <<t, c>> for "t.c".  *)
(* The tables grow by INSERT, so that every property is about all contents *)
(* up to the bound, in every heap order.                                   *)
(***************************************************************************)
EXTENDS Integers, Sequences, SequencesExt

CONSTANTS Schema,      \* Schema[t]: the columns of table t
          TextColumns, \* the <<table, column>> that are TEXT; the others are INT
          Values,      \* positive column values
          MaxRows,     \* bound: rows of all tables together
          Joins,       \* queries over several tables, [from, joins, where]
          Equijoins,   \* join clauses of table "a" whose ON is left = right
          Predicates,  \* WHERE clauses over the columns of table "a"
          Orders       \* ORDER BY clauses over the columns of table "a"

ASSUME BoundAssumption == MaxRows \in Nat
ASSUME ValuesAssumption == Values \subseteq Nat \ {0}

VARIABLE tables

Null == 0
Tables == DOMAIN Schema

-----------------------------------------------------------------------------
(* Expressions and predicates                                              *)

Column(c) == [kind |-> "column", table |-> "", name |-> c]
Qualified(t, c) == [kind |-> "qualified", table |-> t, name |-> c]
Literal(v) == [kind |-> "literal", value |-> v]

Compare(l, op, r) == [node |-> "compare", op |-> op, left |-> l, right |-> r]
IsNull(e) == Compare(e, "IS NULL", Literal(Null))
IsNotNull(e) == Compare(e, "IS NOT NULL", Literal(Null))
In(e, vs) == [node |-> "in", expr |-> e, values |-> vs, negated |-> FALSE]
Logical(l, op, r) == [node |-> "logical", op |-> op, left |-> l, right |-> r]
Everything == [node |-> "none"]

\* dict.get
Get(row, key) == IF key \in DOMAIN row THEN row[key] ELSE Null

\* A qualified name falls back to the bare one.
EvalExpr(e, row) ==
    CASE e.kind = "literal" -> e.value
      [] e.kind = "qualified" /\ <<e.table, e.name>> \in DOMAIN row ->
            row[<<e.table, e.name>>]
      [] OTHER -> Get(row, <<"", e.name>>)

Holds(op, l, r) ==
    CASE op = "=" -> l = r
      [] op = "<>" -> l # r
      [] op = "<" -> l < r
      [] op = "<=" -> l <= r
      [] op = ">" -> l > r
      [] op = ">=" -> l >= r

\* Mutant of EvalComparison: NULL is compared like a value.
EvalComparisonNull(p, row) ==
    LET l == EvalExpr(p.left, row)
        r == EvalExpr(p.right, row)
    IN  CASE p.op = "IS NULL" -> l = Null
          [] p.op = "IS NOT NULL" -> l # Null
          [] OTHER -> Holds(p.op, l, r)

EvalComparison(p, row) ==
    LET l == EvalExpr(p.left, row)
        r == EvalExpr(p.right, row)
    IN  CASE p.op = "IS NULL" -> l = Null
          [] p.op = "IS NOT NULL" -> l # Null
          [] OTHER -> l # Null /\ r # Null /\ Holds(p.op, l, r)

RECURSIVE EvalPredicate(_, _)
EvalPredicate(p, row) ==
    CASE p.node = "none" -> TRUE
      [] p.node = "compare" -> EvalComparison(p, row)
      [] p.node = "in" -> (EvalExpr(p.expr, row) \in p.values) # p.negated
      [] p.node = "logical" /\ p.op = "AND" ->
            EvalPredicate(p.left, row) /\ EvalPredicate(p.right, row)
      [] p.node = "logical" /\ p.op = "OR" ->
            EvalPredicate(p.left, row) \/ EvalPredicate(p.right, row)

-----------------------------------------------------------------------------
(* Scans and joins                                                         *)

\* A table as dicts, in heap order, with the row id as one more column.
ScanTable(t) ==
    [i \in DOMAIN tables[t] |->
        [k \in {<<"", c>> : c \in Schema[t] \cup {"rowid"}} |->
            IF k[2] = "rowid" THEN i ELSE tables[t][i][k[2]]]]

\* Mutant of MergeRows: a column of the right table replaces one of its name.
MergeRowsOver(left, right, t) == right @@ left

\* A column of the right table gets the table's prefix if its name is taken.
MergeRows(left, right, t) ==
    LET placed(k) == IF k \in DOMAIN left THEN <<t, k[2]>> ELSE k
    IN  [key \in {placed(k) : k \in DOMAIN right} |->
            right[CHOOSE k \in DOMAIN right : placed(k) = key]] @@ left

NullExtended(left, t) ==
    [key \in {<<t, c>> : c \in Schema[t]} \cup {<<"", "rowid">>} |-> Null] @@ left

\* _resolve_table_name: an alias is taken for the name of a table.
TableOf(join) == IF join.alias # "" THEN join.alias ELSE join.table

\* The rows that one row of the left side contributes.
Matches(left, join) ==
    SelectSeq([j \in DOMAIN tables[TableOf(join)] |->
                  MergeRows(left, ScanTable(TableOf(join))[j], TableOf(join))],
              LAMBDA row : EvalPredicate(join.on, row))

NestedLoopJoin(lefts, join) ==
    FlattenSeq([i \in DOMAIN lefts |->
        LET found == Matches(lefts[i], join) IN
          IF found = <<>> /\ join.kind = "LEFT"
            THEN <<NullExtended(lefts[i], TableOf(join))>> ELSE found])

\* Mutant of JoinKey: each side is asked for the column of the other.
JoinKeySwapped(on, row, side) ==
    {EvalExpr(on[IF side = "left" THEN "right" ELSE "left"], row)} \ {Null}

\* _extract_join_key, as a set with at most one element.
JoinKey(on, row, side) ==
    IF on.node = "compare" /\ on.op = "=" THEN {EvalExpr(on[side], row)} \ {Null} ELSE {}

HashJoin(lefts, join) ==
    IF join.kind = "LEFT" THEN NestedLoopJoin(lefts, join)
    ELSE LET rights == ScanTable(TableOf(join))
             bucket(key) ==
                SelectSeq(rights, LAMBDA r : JoinKey(join.on, r, "right") = key)
             probe(left) ==
                LET key == JoinKey(join.on, left, "left") IN
                  IF key = {} THEN <<>>
                  ELSE SelectSeq([j \in DOMAIN bucket(key) |->
                                     MergeRows(left, bucket(key)[j], TableOf(join))],
                                 LAMBDA row : EvalPredicate(join.on, row))
         IN  FlattenSeq([i \in DOMAIN lefts |-> probe(lefts[i])])

-----------------------------------------------------------------------------
(* ORDER BY, LIMIT, OFFSET, projection and aggregation                     *)

NoOrder == [by |-> Column("rowid"), dir |-> "NONE"]
NoLimit == -1

\* list.sort compares every element of a list of two or more, and None with
\* anything is a TypeError.
Unsortable(rows, order) ==
    /\ order.dir # "NONE"
    /\ Len(rows) > 1
    /\ \E i \in DOMAIN rows : EvalExpr(order.by, rows[i]) = Null

\* The sort is stable in both directions.
OrderBy(rows, order) ==
    LET key(i) == EvalExpr(order.by, rows[i])
        before(i, j) ==
            \/ order.dir = "ASC" /\ key(i) < key(j)
            \/ order.dir = "DESC" /\ key(i) > key(j)
            \/ key(i) = key(j) /\ i < j
        rank(j) == Cardinality({i \in DOMAIN rows : before(i, j)}) + 1
    IN  IF order.dir = "NONE" THEN rows
        ELSE [n \in DOMAIN rows |-> rows[CHOOSE j \in DOMAIN rows : rank(j) = n]]

\* Mutant of Paged: LIMIT counts from the start of the table.
PagedFromStart(rows, limit, offset) ==
    SubSeq(rows, offset + 1, IF limit = NoLimit \/ limit > Len(rows) THEN Len(rows) ELSE limit)

Paged(rows, limit, offset) ==
    SubSeq(rows, offset + 1,
           IF limit = NoLimit \/ offset + limit > Len(rows) THEN Len(rows) ELSE offset + limit)

Aggregates == {"count", "sum", "avg"}

ProjKey(p) == IF p.kind \in Aggregates \ {"count"} THEN <<p.kind, p.name>> ELSE <<"", p.name>>

\* _project_row; a later projection with the same key wins.
ProjectRow(projections, row) ==
    [key \in {ProjKey(projections[i]) : i \in DOMAIN projections} |->
        LET last == CHOOSE i \in DOMAIN projections :
                        /\ ProjKey(projections[i]) = key
                        /\ \A j \in DOMAIN projections : ProjKey(projections[j]) = key => j <= i
        IN  EvalExpr(projections[last], row)]

SumOf(rows, c) ==
    FoldLeft(LAMBDA total, row : total + Get(row, <<"", c>>), 0, rows)

\* _aggregate_group; AVG is kept as sum and number of rows, NULL counting as 0.
AggregateGroup(rows, projections) ==
    [key \in {<<"", IF p.kind \in Aggregates THEN p.kind ELSE p.name>> : p \in ToSet(projections)} |->
        LET p == CHOOSE q \in ToSet(projections) :
                    key[2] = IF q.kind \in Aggregates THEN q.kind ELSE q.name
        IN  CASE p.kind = "count" -> Len(rows)
              [] p.kind = "sum" -> SumOf(rows, p.name)
              [] p.kind = "avg" -> [sum |-> SumOf(rows, p.name), of |-> Len(rows)]
              [] OTHER -> IF rows = <<>> THEN Null ELSE Get(rows[1], <<"", p.name>>)]

\* Mutant of GroupRows: NULL keys are passed over.
GroupRowsWithKey(rows, key, v) == SelectSeq(rows, LAMBDA r : Get(r, key) = v /\ v # Null)

GroupRows(rows, key, v) == SelectSeq(rows, LAMBDA r : Get(r, key) = v)

GroupKeys(rows, key) == {Get(rows[i], key) : i \in DOMAIN rows}

\* sorted(groups) raises TypeError when NULL is one of several keys.
Ungroupable(rows, key) == Null \in GroupKeys(rows, key) /\ Cardinality(GroupKeys(rows, key)) > 1

\* exec_aggregate with at most one GROUP BY column.
ExecAggregate(rows, projections, groupBy) ==
    IF groupBy = <<>> THEN <<AggregateGroup(rows, projections)>>
    ELSE LET key == <<"", groupBy[1].name>>
             keys == SetToSortSeq(GroupKeys(rows, key), <)
         IN  [n \in DOMAIN keys |->
                 (key :> keys[n]) @@ AggregateGroup(GroupRows(rows, key, keys[n]), projections)]

-----------------------------------------------------------------------------
(* A SELECT: [from, joins, where, order, limit, offset, star, projections, *)
(* groupBy]                                                                *)

Query(from, joins, where) ==
    [from |-> from, joins |-> joins, where |-> where, order |-> NoOrder, limit |-> NoLimit,
     offset |-> 0, star |-> TRUE, projections |-> <<>>, groupBy |-> <<>>]

\* _column_type: known of a column with its table's name only.
ColumnType(e) ==
    IF e.kind = "qualified" /\ e.table \in Tables /\ e.name \in Schema[e.table]
    THEN IF <<e.table, e.name>> \in TextColumns THEN "TEXT" ELSE "INT"
    ELSE "none"

\* check_join_type_compatibility, of an ON that is one comparison.
TypesCompatible(on) ==
    on.node = "compare" =>
        \/ "none" \in {ColumnType(on.left), ColumnType(on.right)}
        \/ ColumnType(on.left) = ColumnType(on.right)

\* What a join raises: its types are checked before its table is looked up.
JoinError(join) ==
    CASE ~TypesCompatible(join.on) -> "TypeMismatch"
      [] TableOf(join) \notin Tables -> "TableNotFound"
      [] OTHER -> "none"

\* The first error of a chain of joins.
JoinsError(q) ==
    FoldLeft(LAMBDA error, join : IF error = "none" THEN JoinError(join) ELSE error,
             "none", q.joins)

Joined(q) == FoldLeft(NestedLoopJoin, ScanTable(q.from), q.joins)

Filtered(q) == SelectSeq(Joined(q), LAMBDA row : EvalPredicate(q.where, row))

\* resolve_qualified_columns: a bare column that two of the tables have; tables that
\* do not exist are passed over.
Ambiguous(q) ==
    LET names == SelectSeq(<<q.from>> \o [i \in DOMAIN q.joins |-> TableOf(q.joins[i])],
                           LAMBDA t : t \in Tables)
    IN  /\ q.joins # <<>>
        /\ \E p \in ToSet(q.projections) :
              /\ p.kind = "column"
              /\ \E i, j \in DOMAIN names :
                    i # j /\ p.name \in Schema[names[i]] \cap Schema[names[j]]

HasAggregate(q) ==
    q.groupBy # <<>> \/ \E p \in ToSet(q.projections) : p.kind \in Aggregates

Projected(q, rows) ==
    [i \in DOMAIN rows |->
        IF q.star THEN [k \in DOMAIN rows[i] \ {<<"", "rowid">>} |-> rows[i][k]]
        ELSE ProjectRow(q.projections, rows[i])]

\* The rows an aggregate works on: the single-table path is told not to project
\* them, the join path always does.
RowsToAggregate(q, rows) == IF q.joins = <<>> THEN rows ELSE Projected(q, rows)

Raised(error) == [error |-> error, rows |-> <<>>]
Returned(rows) == [error |-> "none", rows |-> rows]

\* Executor._dispatch for a SELECT.
ExecSelect(q) ==
    LET rows == Paged(OrderBy(Filtered(q), q.order), q.limit, q.offset)
        input == RowsToAggregate(q, rows)
    IN  CASE Ambiguous(q) -> Raised("AmbiguousColumn")
          [] JoinsError(q) # "none" -> Raised(JoinsError(q))
          [] Unsortable(Filtered(q), q.order) -> Raised("TypeError")
          [] ~HasAggregate(q) -> Returned(Projected(q, rows))
          [] q.groupBy # <<>> /\ Ungroupable(input, <<"", q.groupBy[1].name>>) ->
                Raised("TypeError")
          [] OTHER -> Returned(ExecAggregate(input, q.projections, q.groupBy))

-----------------------------------------------------------------------------
Init == tables = [t \in Tables |-> <<>>]

TotalRows == FoldFunction(LAMBDA rows, n : Len(rows) + n, 0, tables)

Insert(t, row) ==
    /\ TotalRows < MaxRows
    /\ tables' = [tables EXCEPT ![t] = Append(@, row)]

Next == \E t \in Tables : \E row \in [Schema[t] -> Values \cup {Null}] : Insert(t, row)

Spec == Init /\ [][Next]_tables

-----------------------------------------------------------------------------
(* Reference: three-valued logic (0 false, 1 unknown, 2 true), and joins   *)
(* as choices of one row per table, row 0 being the row of NULLs.          *)

RECURSIVE Truth(_, _)
Truth(p, row) ==
    CASE p.node = "none" -> 2
      [] p.node = "logical" /\ p.op = "AND" -> Min({Truth(p.left, row), Truth(p.right, row)})
      [] p.node = "logical" /\ p.op = "OR" -> Max({Truth(p.left, row), Truth(p.right, row)})
      [] p.node = "in" ->
            IF EvalExpr(p.expr, row) = Null THEN 1
            ELSE Max({0} \cup {IF v = Null THEN 1
                               ELSE IF v = EvalExpr(p.expr, row) THEN 2 ELSE 0 : v \in p.values})
      [] p.node = "compare" /\ p.op \in {"IS NULL", "IS NOT NULL"} ->
            IF (EvalExpr(p.left, row) = Null) = (p.op = "IS NULL") THEN 2 ELSE 0
      [] OTHER ->
            IF Null \in {EvalExpr(p.left, row), EvalExpr(p.right, row)} THEN 1
            ELSE IF Holds(p.op, EvalExpr(p.left, row), EvalExpr(p.right, row)) THEN 2 ELSE 0

\* The values a choice of rows gives to every t.c of the query.
Choice(names, rows) ==
    [key \in UNION {{<<names[i], c>> : c \in Schema[names[i]]} : i \in DOMAIN names} |->
        LET i == CHOOSE n \in DOMAIN names : names[n] = key[1]
        IN  IF rows[i] = 0 THEN Null ELSE tables[key[1]][rows[i]][key[2]]]

ExtendChoices(acc, join) ==
    LET names == Append(acc.names, join.table)
        fits(c) == {j \in DOMAIN tables[join.table] :
                        Truth(join.on, Choice(names, Append(c, j))) = 2}
    IN  [names |-> names,
         rows |-> UNION {IF fits(c) = {} /\ join.kind = "LEFT" THEN {Append(c, 0)}
                         ELSE {Append(c, j) : j \in fits(c)} : c \in acc.rows}]

ChosenRows(q) ==
    FoldLeft(ExtendChoices,
             [names |-> <<q.from>>, rows |-> {<<i>> : i \in DOMAIN tables[q.from]}], q.joins)

-----------------------------------------------------------------------------
(* Properties                                                              *)

\* A predicate without negation and without NULL in an IN list, evaluated with
\* two truth values as _eval_predicate does, accepts a row exactly if SQL's
\* three-valued logic says true.
WhereIsThreeValued ==
    \A p \in Predicates : \A i \in DOMAIN tables["a"] :
        EvalPredicate(p, ScanTable("a")[i]) = (Truth(p, ScanTable("a")[i]) = 2)

Unaliased(q) == \A i \in DOMAIN q.joins : q.joins[i].alias = ""

\* A chain of INNER and LEFT joins with a WHERE, without aliases, raises TypeMismatch
\* or returns each combination of rows that satisfies the conditions exactly once,
\* and every qualified column has the value of its own table, however _merge_rows
\* had to name it.
JoinsMatchReference ==
    \A q \in {p \in Joins : Unaliased(p) /\ JoinsError(p) # "TypeMismatch"} :
        LET chosen == ChosenRows(q)
            wanted == {c \in chosen.rows : Truth(q.where, Choice(chosen.names, c)) = 2}
            seen(row) == [key \in DOMAIN Choice(chosen.names, [n \in DOMAIN chosen.names |-> 0]) |->
                             EvalExpr(Qualified(key[1], key[2]), row)]
            found == Filtered(q)
        IN  /\ Len(found) = Cardinality(wanted)
            /\ \A c \in wanted :
                  Cardinality({i \in DOMAIN found : seen(found[i]) = Choice(chosen.names, c)})
                    = Cardinality({d \in wanted :
                                      Choice(chosen.names, d) = Choice(chosen.names, c)})

\* For an ON of the form left column = right column, exec_hash_join and
\* exec_nested_loop_join return the same rows in the same order.
HashJoinAgrees ==
    \A join \in Equijoins :
        HashJoin(ScanTable("a"), join) = NestedLoopJoin(ScanTable("a"), join)

\* The pages of an ordered SELECT, LIMIT n OFFSET 0, n, 2n, ..., put together are
\* the whole ordered result: no row is skipped or shown twice.
PagesCoverResult ==
    \A order \in Orders, n \in 1..MaxRows :
        LET q == [Query("a", <<>>, Everything) EXCEPT !.order = order]
            page(k) == ExecSelect([q EXCEPT !.limit = n, !.offset = (k - 1) * n])
            pages == [k \in 1..(MaxRows + 1) |-> page(k).rows]
        IN  /\ \A k \in 1..(MaxRows + 1) : page(k).error = ExecSelect(q).error
            /\ FlattenSeq(pages) = ExecSelect(q).rows

Total(rows, name) ==
    FoldLeft(LAMBDA total, row : total + row[<<"", name>>], 0, rows)

Count == [kind |-> "count", table |-> "", name |-> "count"]
Sum(c) == [kind |-> "sum", table |-> "", name |-> c]

\* The rows of table "a" that a predicate selects have NULL and a value in column c.
NullBesideValue(p, c) ==
    LET seen == {Get(row, <<"", c>>) : row \in {r \in ToSet(ScanTable("a")) : EvalPredicate(p, r)}}
    IN  Null \in seen /\ seen # {Null}

\* GROUP BY partitions the rows: each group has its own key, and counts and sums
\* of the groups add up to those of the same query without GROUP BY.  It fails
\* where NULL is one of several keys, and there only.
GroupsPartition ==
    \A p \in Predicates : \A c, d \in Schema["a"] :
        LET q == [Query("a", <<>>, p) EXCEPT !.star = FALSE, !.projections = <<Count, Sum(d)>>]
            whole == ExecSelect(q).rows[1]
            grouped == ExecSelect([q EXCEPT !.groupBy = <<Column(c)>>])
        IN  ~NullBesideValue(p, c) =>
              /\ grouped.error = "none"
              /\ Total(grouped.rows, "count") = whole[<<"", "count">>]
              /\ Total(grouped.rows, "sum") = whole[<<"", "sum">>]
              /\ \A i, j \in DOMAIN grouped.rows :
                    i < j => grouped.rows[i][<<"", c>>] < grouped.rows[j][<<"", c>>]

\* Not so: the keys are sorted, and None is not comparable.
GroupsReturned ==
    \A p \in Predicates : \A c \in Schema["a"] :
        ExecSelect([Query("a", <<>>, p) EXCEPT !.star = FALSE, !.projections = <<Count>>,
                                               !.groupBy = <<Column(c)>>]).error = "none"

\* Not so: an alias is looked up in the catalog.
AliasesWork == \A q \in Joins : ExecSelect(q).error # "TableNotFound"

\* Not so: an alias that is the name of another table reads that table.
AliasesRename ==
    \A q \in Joins :
        LET plain == [q EXCEPT !.joins = [i \in DOMAIN @ |-> [@[i] EXCEPT !.alias = ""]]]
        IN  ExecSelect(q).error = "none" => Len(Filtered(q)) = Len(Filtered(plain))

\* SUM over a join adds up the column over the joined rows.
SumsOverJoins ==
    \A q \in Joins : \A c \in UNION {Schema[t] : t \in Tables} :
        LET summed == ExecSelect([q EXCEPT !.star = FALSE, !.projections = <<Sum(c)>>])
        IN  summed.error = "none" => summed.rows[1][<<"", "sum">>] = SumOf(Filtered(q), c)
==============================================================================
