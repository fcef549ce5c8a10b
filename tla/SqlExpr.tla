------------------------------ MODULE SqlExpr ------------------------------
(***************************************************************************)
(* The SELECT statements of tracer/sql: what the parser accepts, how a     *)
(* WHERE expression is bound to a row and how it is evaluated.             *)
(*                                                                         *)
(* An expression is a tree of records with a kind k, as the SQL parser     *)
(* delivers it (an external library):                                      *)
(*   and, or (l, r)   not, paren (e)   cmp (n, op, l, r)                   *)
(*   range (neg, l, from, to)   str (s)   int (v)   col (table, name)      *)
(*   func (name, args)   true   other (anything the parser rejects)        *)
(* The field n numbers the comparisons of a tree.                          *)
(***************************************************************************)
EXTENDS SymbolTable

CONSTANTS Matches,    \* the pairs <<pattern, string>> for which LIKE or REGEXP holds
          Uncompilable, \* the patterns that regexp.Compile does not accept
          PackageOf,  \* the package path of every function name
          ShortOf     \* the name without the package of every function name

Tables ==
  [calls      |-> {"id", "gid", "starttime", "endtime", "exectime"},
   frames     |-> {"id", "offset", "package", "func", "file", "line", "pc"},
   goroutines |-> {"gid", "starttime", "endtime", "exectime"},
   funcs      |-> {"name", "shortname", "package", "path"},
   modules    |-> {"module"}]

ImplictJoin(from) == IF from = "frames" THEN "calls" ELSE from

\* The functions: the table their arguments' columns belong to ("" keeps the
\* caller's) and the number of their arguments.
SqlFuncs ==
  [FRAME   |-> [table |-> "frames", args |-> 1],
   CALL    |-> [table |-> "calls",  args |-> 1],
   NOW     |-> [table |-> "",       args |-> 0],
   ADDTIME |-> [table |-> "",       args |-> 2],
   SUBTIME |-> [table |-> "",       args |-> 2]]

-----------------------------------------------------------------------------
(* Parsing *)

\* The operands of a node that parseWhereExpr visits.
Operands(e) ==
  CASE e.k \in {"and", "or", "cmp"}  -> {e.l, e.r}
    [] e.k \in {"not", "paren"}      -> {e.e}
    [] e.k = "range"                 -> {e.l, e.from, e.to}
    [] e.k = "func"                  -> {e.args[i] : i \in DOMAIN e.args}
    [] OTHER                         -> {}

\* parseWhereExpr panics on what it does not support; Parse turns that into an error.
RECURSIVE Parses(_)
Parses(e) ==
  /\ e.k # "other"
  /\ e.k = "func" => e.name \in DOMAIN SqlFuncs /\ Len(e.args) = SqlFuncs[e.name].args
  /\ \A x \in Operands(e) : Parses(x)

\* The tree with every column's table filled in.  ADDTIME and SUBTIME forget
\* their arguments.
RECURSIVE Resolve(_, _)
Resolve(e, table) ==
  CASE e.k \in {"and", "or", "cmp"} -> [e EXCEPT !.l = Resolve(@, table), !.r = Resolve(@, table)]
    [] e.k = "not"   -> [e EXCEPT !.e = Resolve(@, table)]
    [] e.k = "paren" -> Resolve(e.e, table)
    [] e.k = "range" -> [e EXCEPT !.l = Resolve(@, table), !.from = Resolve(@, table), !.to = Resolve(@, table)]
    [] e.k = "col"   -> IF e.table = "" THEN [e EXCEPT !.table = table] ELSE e
    [] e.k = "func"  -> [e EXCEPT !.args = IF e.name \in {"FRAME", "CALL"}
                                             THEN <<Resolve(@[1], SqlFuncs[e.name].table)>>
                                             ELSE <<>>]
    [] OTHER         -> e

\* parseCols: "*" and "t.*" stand for every column of a table, c and t.c for one.
\* A column list is a sequence of [kind, table, name]; the result is the set of
\* the columns in it.
ColsOf(from, c) ==
  LET t == IF c.table = "" THEN from ELSE c.table
  IN  IF c.kind = "star"
        THEN IF t \in DOMAIN Tables THEN {<<t, n>> : n \in Tables[t]} ELSE {<<t, "*">>}
        ELSE {<<t, c.name>>}

ColsParse(from, cols) ==
  \A i \in DOMAIN cols :
    /\ cols[i].kind \in {"star", "col"}
    /\ \A f \in ColsOf(from, cols[i]) :
         /\ f[1] \in {from, ImplictJoin(from)}
         /\ f[2] \in Tables[f[1]]

\* ParseSelect: plain is FALSE for DISTINCT, GROUP BY, HAVING and ORDER BY.
Accepts(stmt) ==
  /\ stmt.plain
  /\ stmt.from \in DOMAIN Tables
  /\ ColsParse(stmt.from, stmt.cols)
  /\ Parses(stmt.where)

-----------------------------------------------------------------------------
(* Rows.  A value is [t, v]: its type and the Go value.                    *)

BigInt(v)   == [t |-> "bigint", v |-> v]
String(v)   == [t |-> "string", v |-> v]
Datetime(v) == [t |-> "datetime", v |-> v]
Panic       == [t |-> "panic", v |-> 0]

\* The field getters of the rows; sd is the log's symbol table and off the
\* frame that the row of a call currently points to.
CallField(row, name) ==
  CASE name = "id"        -> BigInt(row.id)
    [] name = "gid"       -> BigInt(row.gid)
    [] name = "starttime" -> Datetime(row.starttime)
    [] name = "endtime"   -> Datetime(row.endtime)
    [] name = "exectime"  -> BigInt(row.endtime - row.starttime)

FrameField(sd, row, off, name) ==
  LET pc == row.frames[off + 1]
      fn == GoFunc(sd, pc)
  IN  IF name \notin {"id", "offset"} /\ off >= Len(row.frames) THEN Panic ELSE
      CASE name = "id"      -> BigInt(row.id)
        [] name = "offset"  -> BigInt(off)
        [] name = "package" -> String(IF fn = 0 THEN "?" ELSE PackageOf[sd.Funcs[fn].Name])
        [] name = "func"    -> String(IF fn = 0 THEN "?" ELSE sd.Funcs[fn].Name)
        [] name = "file"    -> String(File(sd, pc))
        [] name = "line"    -> BigInt(Line(sd, pc))
        [] name = "pc"      -> BigInt(pc)

GoroutineField(row, name) == CallField(row, name)

GoFuncField(sd, row, name) ==
  CASE name = "name"      -> String(row.Name)
    [] name = "shortname" -> String(ShortOf[row.Name])
    [] name = "package"   -> String(PackageOf[row.Name])
    [] name = "path"      -> [t |-> "string", v |-> FileLine(sd, row.Entry)]

GoModuleField(row) == String(row.Name)

Field(sd, row, off, table, name) ==
  CASE table = "calls"      -> CallField(row, name)
    [] table = "frames"     -> FrameField(sd, row, off, name)
    [] table = "goroutines" -> GoroutineField(row, name)
    [] table = "funcs"      -> GoFuncField(sd, row, name)
    [] table = "modules"    -> GoModuleField(row)

\* WithRow: every column must be one that the row has; FRAME and CALL need the
\* row of a call.
RowTables(from) == IF from \in {"calls", "frames"} THEN {"calls", "frames"} ELSE {from}

RECURSIVE WithRow(_, _)
WithRow(e, from) ==
  /\ e.k = "col" => e.table \in RowTables(from) /\ e.name \in Tables[e.table]
  /\ e.k = "func" /\ e.name \in {"FRAME", "CALL"} => from \in {"calls", "frames"}
  /\ \A x \in Operands(e) : WithRow(x, from)

-----------------------------------------------------------------------------
(* Evaluation.  ctx is what evaluating changes: the frame the row points   *)
(* to, which FRAME moves, and the patterns that LIKE and REGEXP fixed when *)
(* they were evaluated for the first time.                                 *)

IsBoolOp(e) == e.k \in {"and", "or", "not", "cmp", "range", "true"} \/ (e.k = "func" /\ e.name \in {"FRAME", "CALL"})

Scalar(e, sd, row, ctx) ==
  CASE e.k = "int" -> BigInt(e.v)
    [] e.k = "str" -> String(e.s)
    [] e.k = "col" -> Field(sd, row, ctx.off, e.table, e.name)
    [] e.k = "func" /\ e.name = "NOW" -> Datetime(0)
    [] OTHER       -> [t |-> "datetime", v |-> -1]

TypeOf(e, sd, row, ctx) == IF IsBoolOp(e) THEN "bool" ELSE Scalar(e, sd, row, ctx).t

RegexpOps  == {"regexp", "not regexp"}
PatternOps == {"like", "not like"} \cup RegexpOps

\* CompOp.compareFn: which operators a type supports; DATETIME supports none.
Supports(type, op) ==
  CASE type = "bool"   -> op \in {"=", "!=", "<=>"}
    [] type = "bigint" -> op \in {"=", "!=", "<=>", "<", ">", "<=", ">="}
    [] type = "string" -> op \in {"=", "!=", "<=>"} \cup PatternOps
    [] OTHER           -> FALSE

Compare(op, a, b) ==
  CASE op \in {"=", "<=>"} -> a = b
    [] op = "!=" -> a # b
    [] op = "<"  -> a < b
    [] op = ">"  -> a > b
    [] op = "<=" -> a <= b
    [] op = ">=" -> a >= b

Result(v, ctx) == [v |-> IF v THEN "true" ELSE "false", ctx |-> ctx]
Panics(ctx)    == [v |-> "panic", ctx |-> ctx]

RECURSIVE Bool(_, _, _, _)
RECURSIVE AnyFrame(_, _, _, _, _)

Combine(op, a, b) ==
  CASE op = "and" -> a /\ b
    [] op = "or"  -> a \/ b
    [] OTHER      -> Compare(op, a, b)

\* Both operands are evaluated, whatever the first one gives.
Both(e, sd, row, ctx, op) ==
  LET a == Bool(e.l, sd, row, ctx)
      b == Bool(e.r, sd, row, a.ctx)
  IN  IF a.v = "panic" THEN a ELSE IF b.v = "panic" THEN b ELSE Result(Combine(op, a.v = "true", b.v = "true"), b.ctx)

\* The loop of FRAME: the first frame for which the expression holds ends it and
\* stays the row's frame.
AnyFrame(e, sd, row, ctx, i) ==
  IF i >= Len(row.frames) THEN Result(FALSE, ctx)
  ELSE LET a == Bool(e, sd, row, [ctx EXCEPT !.off = i])
       IN  IF a.v = "false" THEN AnyFrame(e, sd, row, a.ctx, i + 1) ELSE a

\* The first evaluation looks at the types and takes the pattern; later ones read
\* only the left operand of LIKE and REGEXP.
CompOp(e, sd, row, ctx) ==
  LET fixed == e.n \in DOMAIN ctx.pats
      lt  == TypeOf(e.l, sd, row, ctx)
      rt  == IF fixed THEN "string" ELSE TypeOf(e.r, sd, row, ctx)
      l   == Scalar(e.l, sd, row, ctx)
      r   == Scalar(e.r, sd, row, ctx)
      pat == IF fixed THEN ctx.pats[e.n] ELSE r.v
  IN  IF lt # rt \/ ~Supports(lt, e.op) THEN Panics(ctx)
      ELSE IF lt = "bool" THEN Both(e, sd, row, ctx, e.op)
      ELSE IF e.op \notin PatternOps THEN Result(Compare(e.op, l.v, r.v), ctx)
      ELSE IF e.op \in RegexpOps /\ pat \in Uncompilable THEN Panics(ctx)
      ELSE Result((e.op \in {"like", "regexp"}) = (<<pat, l.v>> \in Matches),
                  [ctx EXCEPT !.pats = [n \in DOMAIN @ \cup {e.n} |-> IF n = e.n THEN pat ELSE @[n]]])

RangeOp(e, sd, row, ctx) ==
  LET x == Scalar(e.l, sd, row, ctx)
      a == Scalar(e.from, sd, row, ctx)
      b == Scalar(e.to, sd, row, ctx)
  IN  IF \E y \in {e.l, e.from, e.to} : TypeOf(y, sd, row, ctx) # "bigint" THEN Panics(ctx)
      ELSE Result((a.v <= x.v /\ x.v <= b.v) # e.neg, ctx)

\* Seeded bug: the result is not inverted.
NotOp_Same(e, sd, row, ctx) == Bool(e.e, sd, row, ctx)
NotOp(e, sd, row, ctx) ==
  LET a == Bool(e.e, sd, row, ctx) IN IF a.v = "panic" THEN a ELSE Result(a.v = "false", a.ctx)

Bool(e, sd, row, ctx) ==
  CASE e.k = "true"  -> Result(TRUE, ctx)
    [] e.k = "and"   -> Both(e, sd, row, ctx, "and")
    [] e.k = "or"    -> Both(e, sd, row, ctx, "or")
    [] e.k = "not"   -> NotOp(e, sd, row, ctx)
    [] e.k = "cmp"   -> CompOp(e, sd, row, ctx)
    [] e.k = "range" -> RangeOp(e, sd, row, ctx)
    [] e.k = "func" /\ e.name = "FRAME" -> AnyFrame(e.args[1], sd, row, ctx, 0)
    [] e.k = "func" /\ e.name = "CALL"  -> Bool(e.args[1], sd, row, ctx)
    [] OTHER         -> LET x == Scalar(e, sd, row, ctx)
                        IN  IF x.t = "bigint" THEN Result(x.v # 0, ctx) ELSE Panics(ctx)
=============================================================================
