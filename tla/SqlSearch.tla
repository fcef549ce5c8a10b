----------------------------- MODULE SqlSearch -----------------------------
(***************************************************************************)
(* GET /log/{log-id}/search.csv: one SELECT statement answered row by row, *)
(* while the worker of the log goes on recording calls, the symbols arrive *)
(* and the log is closed and opened again.                                 *)
(***************************************************************************)
EXTENDS SqlExpr, TLC

CONSTANTS Stmts,        \* the statements a client may send
          NewCall,      \* the calls that may start: [gid, starttime, frames]
          EndTime,      \* when a call ends
          MaxCalls,     \* bound on the calls recorded
          Goroutines,   \* the goroutine records the worker may write
          Table,        \* the symbols of the traced program
          TooLong       \* the names with which a line does not fit its buffer

ASSUME SearchAssumption == MaxCalls \in Nat /\ Validate(Table)

VARIABLES calls,      \* the store of calls
          gos,        \* the store of goroutines: the records written, by GID
          syms,       \* the log's symbol table
          store,      \* "open", "closed", or "blank" while Open() replaces it
          q,          \* the request
          seen        \* history: the rows the request has read, with the symbols of that moment

vars == <<calls, gos, syms, store, q, seen>>

Init ==
  /\ calls = <<>> /\ gos = <<>> /\ syms = NoTable /\ store = "open"
  /\ q = [pc |-> "idle", n |-> 0, id |-> -1, off |-> -1, lineno |-> 0, sent |-> <<>>,
          ctx |-> [off |-> 0, pats |-> <<>>], snapshot |-> <<>>, floor |-> 0, disturbed |-> FALSE]
  /\ seen = <<>>

-----------------------------------------------------------------------------
(* The worker of the log (module LogServer): a call is written when it     *)
(* starts and again when it ends; at the end of the connection the log is  *)
(* closed and opened read-only.                                            *)

RecordCall(c) ==
  /\ store = "open" /\ Len(calls) < MaxCalls
  /\ calls' = Append(calls, [id |-> Len(calls), endtime |-> -1] @@ c)
  /\ UNCHANGED <<gos, syms, store, q, seen>>

RecordEnd(i) ==
  /\ store = "open" /\ calls[i].endtime = -1
  /\ calls' = [calls EXCEPT ![i].endtime = EndTime]
  /\ UNCHANGED <<gos, syms, store, q, seen>>

RecordGoroutine(g) ==
  /\ store = "open" /\ g.gid \notin DOMAIN gos
  /\ gos' = gos @@ (g.gid :> g)
  /\ UNCHANGED <<calls, syms, store, q, seen>>

ReceiveSymbols ==
  /\ store = "open" /\ syms = NoTable
  /\ syms' = Table
  /\ UNCHANGED <<calls, gos, store, q, seen>>

\* Close() of the stores, their replacement by new ones in Open(), and their Open().
Reopen ==
  /\ store # "readonly"
  /\ store' = CASE store = "open"   -> "closed"
                [] store = "closed" -> "blank"
                [] store = "blank"  -> "readonly"
  /\ q' = [q EXCEPT !.disturbed = @ \/ q.pc = "reading"]
  /\ UNCHANGED <<calls, gos, syms, seen>>

-----------------------------------------------------------------------------
(* The request *)

\* The conditions with their columns resolved, and the columns the statements print.
Wheres  == [n \in DOMAIN Stmts |-> Resolve(Stmts[n].where, Stmts[n].from)]
Columns == [n \in DOMAIN Stmts |-> UNION {ColsOf(Stmts[n].from, Stmts[n].cols[i]) : i \in DOMAIN Stmts[n].cols}]

Stmt  == Stmts[q.n]
Where == Wheres[q.n]
Cols  == Columns[q.n]

\* Records(): one more than the largest index written.
GoroutineRecords == IF DOMAIN gos = {} THEN 0 ELSE Max(DOMAIN gos) + 1

\* The statement is parsed and bound to the row, the header is written; a query
\* on funcs or modules copies the symbols it is going to read.
Request(n) ==
  LET stmt == Stmts[n]
      ok   == Accepts(stmt) /\ WithRow(Wheres[n], stmt.from)
  IN  /\ q.pc = "idle"
      /\ q' = [q EXCEPT !.n = n, !.pc = IF ok THEN "reading" ELSE "rejected",
                        !.disturbed = store \in {"closed", "blank"},
                        !.snapshot = CASE stmt.from = "funcs"   -> syms.Funcs
                                       [] stmt.from = "modules" -> syms.Mods
                                       [] OTHER                 -> <<>>,
                        !.floor = CASE stmt.from \in {"calls", "frames"} -> Len(calls)
                                    [] stmt.from = "goroutines"          -> GoroutineRecords
                                    [] stmt.from = "funcs"               -> Len(syms.Funcs)
                                    [] stmt.from = "modules"             -> Len(syms.Mods)
                                    [] OTHER                             -> 0]
      /\ UNCHANGED <<calls, gos, syms, store, seen>>

\* The record of a goroutine that was never written is a block of zeros.
ZeroGoroutine == [gid |-> 0, starttime |-> 0, endtime |-> 0]

GetGoroutine(gid) == IF gid \in DOMAIN gos THEN gos[gid] ELSE ZeroGoroutine

\* Where the next Read() of a query looks: the next frame of the call it is at,
\* or else the next record.  Seeded bug: one frame too many.
NextFrame_OnePast == Stmt.from = "frames" /\ q.off >= 0 /\ q.off + 1 <= Len(seen[Len(seen)].row.frames)
NextFrame == Stmt.from = "frames" /\ q.off >= 0 /\ q.off + 1 < Len(seen[Len(seen)].row.frames)

NextPos == IF NextFrame THEN <<q.id, q.off + 1>> ELSE <<q.id + 1, 0>>

Records ==
  CASE Stmt.from \in {"funcs", "modules"} -> Len(q.snapshot)
    [] store = "blank"                    -> 0
    [] Stmt.from = "goroutines"           -> GoroutineRecords
    [] OTHER                              -> Len(calls)

Get(id) ==
  CASE Stmt.from \in {"funcs", "modules"} -> q.snapshot[id + 1]
    [] Stmt.from = "goroutines"           -> GetGoroutine(id)
    [] OTHER                              -> calls[id + 1]

UsesStore == Stmt.from \notin {"funcs", "modules"} /\ ~NextFrame

\* Read() returns io.EOF: the answer ends here.  Seeded bug: one record too early.
ReadEof_Early ==
  /\ q.pc = "reading" /\ ~NextFrame /\ NextPos[1] + 1 >= Records
  /\ q' = [q EXCEPT !.pc = "done"]
  /\ UNCHANGED <<calls, gos, syms, store, seen>>
ReadEof ==
  /\ q.pc = "reading" /\ ~NextFrame /\ NextPos[1] >= Records
  /\ q' = [q EXCEPT !.pc = "done"]
  /\ UNCHANGED <<calls, gos, syms, store, seen>>

\* Read() fails: the files are closed.  The answer ends with status 200 all the same.
ReadError ==
  /\ q.pc = "reading" /\ UsesStore /\ NextPos[1] < Records /\ store = "closed"
  /\ q' = [q EXCEPT !.pc = "cut"]
  /\ UNCHANGED <<calls, gos, syms, store, seen>>

\* csvResponse.Run: lineno counts the rows that satisfy WHERE.
Counted(lineno)       == lineno + 1
Skips(lineno, offset)      == lineno < offset
Ends(lineno, offset, rows) == 0 < rows /\ offset + rows <= lineno

\* The printer of the columns; it panics when the line buffer is too small.
CsvLine(sd, row, off) == [f \in Cols |-> Field(sd, row, off, f[1], f[2])]

NamesIn(f, x) == IF x.t # "string" THEN {} ELSE IF f[2] = "path" THEN {x.v[1]} ELSE {x.v}
Fits(text)    == \A f \in Cols : NamesIn(f, text[f]) \cap TooLong = {}

\* What csvResponse.Run does with a row at pos that WHERE has been evaluated for.
AfterWhere(row, pos, cond) ==
  \E line \in {Counted(q.lineno)}, next \in {[q EXCEPT !.id = pos[1], !.off = pos[2], !.ctx = cond.ctx]} :
    \/ cond.v = "panic" /\ q' = [next EXCEPT !.pc = "panic"]
    \/ cond.v = "false" /\ q' = next
    \/ /\ cond.v = "true"
       /\ \/ Skips(line, Stmt.offset) /\ q' = [next EXCEPT !.lineno = line]
          \/ /\ ~Skips(line, Stmt.offset) /\ Ends(line, Stmt.offset, Stmt.rows)
             /\ q' = [next EXCEPT !.lineno = line, !.pc = "limit"]
          \/ /\ ~Skips(line, Stmt.offset) /\ ~Ends(line, Stmt.offset, Stmt.rows)
             /\ \E text \in {CsvLine(syms, row, cond.ctx.off)} :
                  IF (\E f \in Cols : text[f].t = "panic") \/ ~Fits(text) THEN q' = [next EXCEPT !.pc = "panic"]
                  ELSE \/ q' = [next EXCEPT !.lineno = line, !.sent = Append(@, text)]
                       \/ q' = [next EXCEPT !.pc = "cut"]

\* One round of the loop of csvResponse.Run: Read, Where, the limits and Send.
\* Send fails when the client is gone.
ReadRow ==
  /\ q.pc = "reading"
  /\ NextFrame \/ NextPos[1] < Records
  /\ UsesStore => store # "closed"
  /\ \E pos \in {NextPos}, row \in {IF NextFrame THEN seen[Len(seen)].row ELSE Get(NextPos[1])} :
       /\ seen' = Append(seen, [row |-> row, pos |-> pos, syms |-> syms])
       /\ \E at \in {[q.ctx EXCEPT !.off = IF Stmt.from = "frames" THEN pos[2] ELSE @]} :
            \E cond \in {Bool(Where, syms, row, at)} : AfterWhere(row, pos, cond)
  /\ UNCHANGED <<calls, gos, syms, store>>

Next ==
  \/ \E c \in NewCall : RecordCall(c)
  \/ \E i \in DOMAIN calls : RecordEnd(i)
  \/ \E g \in Goroutines : RecordGoroutine(g)
  \/ ReceiveSymbols
  \/ Reopen
  \/ \E n \in DOMAIN Stmts : Request(n)
  \/ ReadEof \/ ReadError \/ ReadRow

Spec == Init /\ [][Next]_vars
-----------------------------------------------------------------------------
(* What a statement means, and which statements have a meaning.            *)

ColType(name) ==
  CASE name \in {"id", "gid", "exectime", "offset", "line", "pc"} -> "bigint"
    [] name \in {"starttime", "endtime"}                          -> "datetime"
    [] OTHER                                                      -> "string"

StaticType(e) ==
  CASE IsBoolOp(e)  -> "bool"
    [] e.k = "int"  -> "bigint"
    [] e.k = "str"  -> "string"
    [] e.k = "col"  -> ColType(e.name)
    [] e.k = "func" /\ ~IsBoolOp(e) -> "datetime"

IsCondition(e) == StaticType(e) \in {"bool", "bigint"}

EqualOps == {"=", "!=", "<=>"}
OrderOps == {"<", ">", "<=", ">="}

\* tracer/sql/README.md compares a duration with a text: exectime > '1s'.
IsDuration(e) == e.k = "cmp" /\ e.l.k = "col" /\ e.l.name = "exectime" /\ e.r.k = "str" /\ e.op \in EqualOps \cup OrderOps

\* The conditions that SQL and the examples give a meaning to: operands of one
\* type, every type but the Booleans ordered, patterns for texts.
RECURSIVE WellTyped(_)
WellTyped(e) ==
  /\ \A x \in Operands(e) : WellTyped(x)
  /\ e.k \in {"and", "or", "not", "func"} => \A x \in Operands(e) : IsCondition(x)
  /\ e.k = "range" => \E t \in {"bigint", "datetime", "string"} : \A x \in Operands(e) : StaticType(x) = t
  /\ e.k = "cmp" =>
       \/ IsDuration(e)
       \/ /\ StaticType(e.l) = StaticType(e.r)
          /\ \/ e.op \in EqualOps
             \/ e.op \in OrderOps /\ StaticType(e.l) # "bool"
             \/ e.op \in PatternOps /\ StaticType(e.l) = "string"

\* Those of them that compareFn and RangeOp do not support (see the README).
Unsupported(e) ==
  \/ IsDuration(e)
  \/ e.k = "cmp" /\ StaticType(e.l) = "datetime"
  \/ e.k = "cmp" /\ StaticType(e.l) = "string" /\ e.op \in OrderOps
  \/ e.k = "range" /\ StaticType(e.l) # "bigint"

RECURSIVE Nodes(_)
Nodes(e) == {e} \cup UNION {Nodes(x) : x \in Operands(e)}

IsFrame(e)  == e.k = "func" /\ e.name = "FRAME"
HasFrame(e) == \E x \in Nodes(e) : IsFrame(x)

\* Columns of the current frame that are read outside FRAME().
RECURSIVE ReadsFrame(_)
ReadsFrame(e) == \/ e.k = "col" /\ e.table = "frames" /\ e.name # "id"
                 \/ ~IsFrame(e) /\ \E x \in Operands(e) : ReadsFrame(x)

\* FRAME() leaves the row at another frame, and something else reads it.
IsMoved(e) ==
  /\ HasFrame(e)
  /\ ReadsFrame(e) \/ \E x \in Nodes(e) : IsFrame(x) /\ HasFrame(x.args[1])

\* A pattern that is a column is the one of the first row.
PatternOf(e) == IF e.r.k = "str" THEN e.r.s
                ELSE Scalar(e.r, seen[1].syms, seen[1].row, [off |-> 0, pats |-> <<>>]).v

RECURSIVE Means(_, _, _, _)
Means(e, sd, row, f) ==
  LET Val(x) == Scalar(x, sd, row, [off |-> f, pats |-> <<>>]).v
      Is(x)  == Means(x, sd, row, f)
  IN  CASE e.k = "true"  -> TRUE
        [] e.k = "and"   -> Is(e.l) /\ Is(e.r)
        [] e.k = "or"    -> Is(e.l) \/ Is(e.r)
        [] e.k = "not"   -> ~Is(e.e)
        [] e.k = "range" -> (Val(e.l) \in Val(e.from)..Val(e.to)) # e.neg
        [] e.k = "func"  -> IF e.name = "FRAME" THEN \E g \in 0..(Len(row.frames) - 1) : Means(e.args[1], sd, row, g)
                            ELSE Is(e.args[1])
        [] e.k = "cmp"   -> IF e.op \in PatternOps
                              THEN (<<PatternOf(e), Val(e.l)>> \in Matches) = (e.op \in {"like", "regexp"})
                            ELSE IF StaticType(e.l) = "bool" THEN Compare(e.op, Is(e.l), Is(e.r))
                            ELSE Compare(e.op, Val(e.l), Val(e.r))
        [] OTHER         -> Val(e) # 0

LastPC == Max({0} \cup {Table.Mods[m].MaxPC : m \in DOMAIN Table.Mods})

Accepted == q.pc \notin {"idle", "rejected"}

\* The condition cannot be evaluated for any row.
Typed  == {n \in DOMAIN Stmts : Accepts(Stmts[n]) /\ IsCondition(Wheres[n]) /\ WellTyped(Wheres[n])
                                /\ \A x \in Nodes(Wheres[n]) : ~Unsupported(x)}
Faulty == \/ q.n \notin Typed
          \/ \E x \in Nodes(Where) : x.k = "cmp" /\ x.op \in RegexpOps /\ PatternOf(x) \in Uncompilable

\* What may be printed of a row that was read: in a query on frames FRAME() moves
\* the row to the frame it stopped at.
LinesOf(s) ==
  LET Text(f) == CsvLine(s.syms, s.row, f)
  IN  {Text(s.pos[2])} \cup
      IF Stmt.from = "frames" /\ HasFrame(Where) THEN {Text(f - 1) : f \in DOMAIN s.row.frames} ELSE {}

\* The rows read so far that satisfy the condition, and those of them that LIMIT
\* offset, rows selects: from the one numbered offset on, up to the one numbered
\* offset + rows - 1.
Selected == SelectSeq(seen, LAMBDA s : Means(Where, s.syms, s.row, s.pos[2]))
Window   == SubSeq(Selected, Max({1, Stmt.offset}),
                   IF Stmt.rows = 0 THEN Len(Selected) ELSE Min({Len(Selected), Stmt.offset + Stmt.rows - 1}))

\* The look-ups of a request find what they are for, whatever pc they are asked for.
LookupsAreNearest ==
  \A pc \in 1..(LastPC + 1) : /\ GoFunc(syms, pc) = NearestKey(syms, Entries(syms), pc)
                              /\ GoLine(syms, pc) = NearestKey(syms, LinePCs(syms), pc)

-----------------------------------------------------------------------------
TypeOK ==
  /\ q.pc \in {"idle", "rejected", "reading", "done", "cut", "limit", "panic"}
  /\ store \in {"open", "closed", "blank", "readonly"}
  /\ syms \in {NoTable, Table}
  /\ q.pc \notin {"idle"} => q.n \in DOMAIN Stmts
  /\ Len(q.sent) <= q.lineno /\ q.lineno <= Len(seen)

\* A query sends exactly the rows that satisfy its condition and that LIMIT selects,
\* in their order, whatever is recorded meanwhile: evaluating a row (search,
\* csvResponse.Run, the operators of op.go) leaves nothing behind that changes
\* what a later row gives.  Three things deviate from SQL and are as stated here:
\* LIMIT counts from one (Window); a query on frames prints the frame that
\* FRAME() stopped at (LinesOf); a pattern that is a column is the first row's
\* (PatternOf).  Where FRAME() moves what the condition itself reads (IsMoved) the
\* selection may be any rows that were read.  The symbols in the lines are those
\* nearest to the pc in its own module (Symbols.GoFunc, Symbols.GoLine).
LinesAreTheSelection ==
  /\ TypeOK
  /\ q.pc = "idle" => LookupsAreNearest
  /\ Accepted /\ seen # <<>> /\ ~Faulty =>
       IF IsMoved(Where)
         THEN \A i \in DOMAIN q.sent : \E s \in Range(seen) : q.sent[i] \in LinesOf(s)
         ELSE /\ Len(q.sent) <= Len(Window) /\ \A i \in DOMAIN q.sent : q.sent[i] \in LinesOf(Window[i])
              /\ q.pc \in {"reading", "done", "limit"} => Len(q.sent) = Len(Window)

\* A request panics while its rows are evaluated and printed, which cuts its
\* answer, for three reasons and no other: its condition cannot be evaluated
\* (ill typed, or unsupported like the documented exectime > '1s', or a pattern
\* that does not compile), and then it does so at its first row; the frame that
\* FRAME() left for an earlier call does not exist in this one; or a line does not
\* fit its buffer.
PanicsAreExplained ==
  Accepted /\ seen # <<>> =>
    LET last == seen[Len(seen)]
    IN  /\ Faulty => q.pc = "panic" /\ q.sent = <<>>
        /\ q.pc = "panic" =>
             \/ Faulty
             \/ /\ Stmt.from = "calls" /\ IsMoved(Where)
                /\ \E s \in Range(seen) : Len(s.row.frames) > Len(last.row.frames)
             \/ \E text \in LinesOf(last) : ~Fits(text)

\* An answer that ends at the end of its table has looked at every record that was
\* there when the request came, once, unless the log was opened again meanwhile.
CompleteAtEof ==
  q.pc = "done" /\ ~q.disturbed =>
    \A i \in 0..(q.floor - 1) :
      LET at == SelectSeq(seen, LAMBDA s : s.pos[1] = i)
      IN  Len(at) = IF Stmt.from = "frames" THEN Len(calls[i + 1].frames) ELSE 1
=============================================================================
