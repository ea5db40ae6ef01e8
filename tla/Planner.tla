------------------------------- MODULE Planner -------------------------------
(***************************************************************************)
(* The plan that EXPLAIN shows for a SELECT: tinydb/executor/index_plan.py *)
(* and plan_nodes.py.  Nothing in the package executes a plan; Run says    *)
(* what executing it would return, with the operators of Query.            *)
(*                                                                         *)
(* The catalog carries a row count and the indexed columns of each table.  *)
(* The program stores 0 and none; catalogs with statistics are in its      *)
(* tests.                                                                  *)
(***************************************************************************)
EXTENDS Query

CONSTANTS Scales,   \* row_count is the number of rows times one of these
          IndexSets,\* sets of indexed columns, as <<table, column>>
          Plans     \* the queries that are planned

ASSUME ScalesAssumption == Scales \subseteq Nat

\* The metas of the catalog.
Catalogs == [scale : Scales, indexed : IndexSets]

RowCount(t, meta) == meta.scale * Len(tables[t])

-----------------------------------------------------------------------------
(* Nodes                                                                   *)

TableScanNode(t, estRows, cost) ==
    [node |-> "TableScan", table |-> t, estRows |-> estRows, cost |-> cost]

IndexScanNode(t, c, key, estRows, cost) ==
    [node |-> "IndexScan", table |-> t, column |-> c, key |-> key, estRows |-> estRows,
     cost |-> cost]

FilterNode(p, child, estRows, cost) ==
    [node |-> "Filter", predicate |-> p, child |-> child, estRows |-> estRows, cost |-> cost]

\* A join keeps its condition; whether it is INNER or LEFT is not in the plan.
JoinNode(left, right, on, estRows, cost) ==
    [node |-> "NestedLoopJoin", left |-> left, right |-> right, condition |-> on,
     estRows |-> estRows, cost |-> cost]

-----------------------------------------------------------------------------
(* IndexPlanner                                                            *)

DefaultRowCount == 1000

Estimate(t, meta) == IF RowCount(t, meta) > 0 THEN RowCount(t, meta) ELSE DefaultRowCount

\* Mutant of AtLeastOne: an estimate may become zero.
AtLeastOneNot(n) == n

AtLeastOne(n) == Max({1, n})

IsColumnEquality(p) == p.node = "compare" /\ p.op = "=" /\ p.left.kind = "column"

\* Mutant of MatchesIndex: any comparison of an indexed column will do.
MatchesIndexAny(t, where, meta) ==
    where.node = "compare" /\ where.left.kind = "column" /\ <<t, where.left.name>> \in meta.indexed

\* _match_index_column
MatchesIndex(t, where, meta) ==
    IsColumnEquality(where) /\ <<t, where.left.name>> \in meta.indexed

\* _eval_literal: of a column it is the name.
SeekKey(e) == IF e.kind = "literal" THEN [value |-> e.value] ELSE [name |-> e.name]

PlanScan(t, where, meta) ==
    IF MatchesIndex(t, where, meta)
    THEN IndexScanNode(t, where.left.name, SeekKey(where.right),
                       AtLeastOne(Estimate(t, meta) \div 10), 4)
    ELSE TableScanNode(t, Estimate(t, meta), AtLeastOne(Estimate(t, meta) \div 50))

\* _extract_post_scan_predicate: an equality is left to the scan, index or not.
PostScanPredicate(where) == IF IsColumnEquality(where) THEN Everything ELSE where

PlanJoin(left, join, meta) ==
    LET right == PlanScan(join.table, Everything, meta)
    IN  JoinNode(left, right, join.on,
                 left.estRows * AtLeastOne(Estimate(join.table, meta) \div 10),
                 left.cost + left.estRows * right.cost)

\* The WHERE is applied to the first table, before the joins.
PlanSelect(q, meta) ==
    LET scan == PlanScan(q.from, q.where, meta)
        remaining == PostScanPredicate(q.where)
        start == IF remaining = Everything THEN scan
                 ELSE FilterNode(remaining, scan, AtLeastOne(scan.estRows \div 2), scan.cost + 1)
    IN  FoldLeft(LAMBDA left, join : PlanJoin(left, join, meta), start, q.joins)

\* What EXPLAIN returns: the join condition is left out.
RECURSIVE PlanToDict(_)
PlanToDict(plan) ==
    [node |-> plan.node, estRows |-> plan.estRows, cost |-> plan.cost,
     children |-> CASE plan.node = "Filter" -> <<PlanToDict(plan.child)>>
                    [] plan.node = "NestedLoopJoin" ->
                         <<PlanToDict(plan.left), PlanToDict(plan.right)>>
                    [] OTHER -> <<>>]

ExecExplain(q, meta) == PlanToDict(PlanSelect(q, meta))

-----------------------------------------------------------------------------
(* Reference: what a plan means.  A join without a kind is an inner one.   *)

RECURSIVE Run(_)
Run(plan) ==
    CASE plan.node = "TableScan" -> ScanTable(plan.table)
      [] plan.node = "IndexScan" ->
            SelectSeq(ScanTable(plan.table),
                      LAMBDA row : /\ Get(row, <<"", plan.column>>) # Null
                                   /\ plan.key = [value |-> Get(row, <<"", plan.column>>)])
      [] plan.node = "Filter" ->
            SelectSeq(Run(plan.child), LAMBDA row : EvalPredicate(plan.predicate, row))
      [] plan.node = "NestedLoopJoin" ->
            NestedLoopJoin(Run(plan.left),
                           [kind |-> "INNER", table |-> plan.right.table, alias |-> "",
                            on |-> plan.condition])

\* The columns a predicate names.
RECURSIVE Names(_)
Names(p) ==
    CASE p.node = "none" -> {}
      [] p.node = "compare" -> {e \in {p.left, p.right} : e.kind # "literal"}
      [] p.node = "in" -> {p.expr}
      [] p.node = "logical" -> Names(p.left) \cup Names(p.right)

\* The WHERE names columns of the first table only.
AboutFirstTable(q) ==
    \A e \in Names(q.where) : e.name \in Schema[q.from] /\ e.table \in {"", q.from}

InnerOnly(q) == \A i \in DOMAIN q.joins : q.joins[i].kind = "INNER"

\* An index would be asked for the name of a column.
SeeksName(q, meta) ==
    MatchesIndex(q.from, q.where, meta) /\ q.where.right.kind # "literal"

\* An equality is left to a scan that does not know of it.
Dropped(q, meta) == IsColumnEquality(q.where) /\ ~MatchesIndex(q.from, q.where, meta)

-----------------------------------------------------------------------------
(* Properties                                                              *)

\* The plan of inner joins whose WHERE is about the first table loses and reorders
\* no row, although the WHERE is moved below the joins and an index may take its
\* place: with the WHERE applied once more it returns what the executor returns.
\* Without that, too, unless the WHERE is an equality on a column with no index.
PlanIsTheQuery ==
    \A q \in Plans, meta \in Catalogs :
        LET planned == Run(PlanSelect(q, meta)) IN
        AboutFirstTable(q) /\ InnerOnly(q) /\ ~SeeksName(q, meta) =>
            /\ SelectSeq(planned, LAMBDA row : EvalPredicate(q.where, row)) = Filtered(q)
            /\ ~Dropped(q, meta) => planned = Filtered(q)

RECURSIVE Sound(_)
Sound(shown) ==
    /\ shown.estRows >= 1
    /\ \A i \in DOMAIN shown.children :
          Sound(shown.children[i]) /\ shown.cost > shown.children[i].cost

RECURSIVE Leaves(_)
Leaves(shown) ==
    IF shown.children = <<>> THEN 1
    ELSE FoldLeft(LAMBDA n, child : n + Leaves(child), 0, shown.children)

\* In what EXPLAIN shows, every table of the query is scanned once, every node
\* expects a row and costs more than each of its inputs, also for tables so
\* small that the integer divisions of the cost model give zero.
ExplainAddsUp ==
    \A q \in Plans, meta \in Catalogs :
        Sound(ExecExplain(q, meta)) /\ Leaves(ExecExplain(q, meta)) = 1 + Len(q.joins)

\* Not so: the plan of a LEFT JOIN is that of the inner one, an equality on a column
\* with no index is in no node, an index may be asked for the name of a column, and
\* a WHERE about a later table is applied to the first.
PlansAreQueries ==
    \A q \in Plans, meta \in Catalogs : Run(PlanSelect(q, meta)) = Filtered(q)

\* Not so even for a WHERE that a plan can carry, because of LEFT JOIN.
LeftJoinsPlanned ==
    \A q \in Plans, meta \in Catalogs :
        AboutFirstTable(q) /\ ~IsColumnEquality(q.where) => Run(PlanSelect(q, meta)) = Filtered(q)

\* Not so: an index is used however small the table is.
CheapestScan ==
    \A q \in Plans, meta \in Catalogs :
        PlanScan(q.from, q.where, meta).cost <= PlanScan(q.from, Everything, meta).cost
==============================================================================
