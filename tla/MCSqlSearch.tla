---------------------------- MODULE MCSqlSearch ----------------------------
EXTENDS SqlSearch

Num(v)          == [k |-> "int", v |-> v]
Str(s)          == [k |-> "str", s |-> s]
Col(t, c)       == [k |-> "col", table |-> t, name |-> c]
Cmp(n, op, l, r) == [k |-> "cmp", n |-> n, op |-> op, l |-> l, r |-> r]
And(l, r)       == [k |-> "and", l |-> l, r |-> r]
Or(l, r)        == [k |-> "or", l |-> l, r |-> r]
Not(e)          == [k |-> "not", e |-> e]
Between(l, a, b, neg) == [k |-> "range", neg |-> neg, l |-> l, from |-> a, to |-> b]
Fn(f, args)     == [k |-> "func", name |-> f, args |-> args]
All             == [k |-> "true"]

Star    == <<[kind |-> "star", table |-> "", name |-> ""]>>
Only(c) == <<[kind |-> "col", table |-> "", name |-> c]>>

Select(cols, from, where, offset, rows) ==
  [plain |-> TRUE, cols |-> cols, from |-> from, where |-> where, offset |-> offset, rows |-> rows]

IsMain == Cmp(1, "like", Col("", "func"), Str("main.%"))

TheStmts == <<
  Select(Star, "calls", Not(Or(Cmp(1, "=", Col("", "gid"), Num(1)), Cmp(2, ">", Col("calls", "exectime"), Num(2)))), 0, 0),
  Select(Only("id"), "calls", Fn("FRAME", <<IsMain>>), 0, 0),
  Select(Only("id"), "calls", And(Between(Col("", "id"), Num(0), Num(1), TRUE), Cmp(2, "!=", Fn("FRAME", <<IsMain>>), Fn("CALL", <<Num(1)>>))), 0, 0),
  Select(Only("id"), "calls", All, 2, 1),
  Select(Only("id"), "calls", All, 1, 1),
  Select(Star, "frames", Cmp(1, "not regexp", Col("", "file"), Str("a%")), 0, 0),
  Select(<<[kind |-> "star", table |-> "calls", name |-> ""], [kind |-> "col", table |-> "", name |-> "pc"]>>, "frames",
         Cmp(1, ">=", Col("", "line"), Num(2)), 0, 0),
  Select(Only("offset"), "frames", Fn("FRAME", <<IsMain>>), 0, 0),
  Select(Star, "goroutines", Cmp(1, "<=", Col("", "starttime"), Fn("NOW", <<>>)), 0, 0),
  Select(Star, "goroutines", Col("", "gid"), 0, 0),
  Select(Star, "funcs", Cmp(1, "=", Col("", "package"), Str("main")), 0, 0),
  Select(Star, "modules", All, 0, 0),
  Select(Only("id"), "calls", Or(Cmp(2, "<", Col("frames", "pc"), Num(1)), Fn("FRAME", <<IsMain>>)), 0, 0),
  Select(Only("id"), "calls", Cmp(1, "=", Col("goroutines", "gid"), Num(1)), 0, 0),
  Select(Only("pc"), "calls", All, 0, 0),
  Select(Only("id"), "calls", [k |-> "other"], 0, 0),
  Select(Only("id"), "calls", All, 0, 2),
  Select(Star, "goroutines", Cmp(1, ">", Col("", "exectime"), Str("1s")), 0, 0),
  Select(Only("pc"), "frames", Cmp(1, "regexp", Col("", "file"), Str("a(")), 0, 0),
  Select(Only("shortname"), "funcs", Cmp(1, "not like", Col("", "name"), Col("", "name")), 0, 0) >>

ThePackages == "main.f" :> "main" @@ "lib.g" :> "lib"
TheShorts   == "main.f" :> "f" @@ "lib.g" :> "g"
TheMatches  == {<<"main.%", "main.f">>, <<"a%", "a.go">>, <<"main.f", "main.f">>, <<"lib.g", "lib.g">>}
TheInvalid  == {"a("}
TheTooLong  == {"lib.g"}

TheTable ==
  [Files |-> <<"a.go", "b.go">>,
   Mods  |-> <<[Name |-> "", MinPC |-> 1, MaxPC |-> 4], [Name |-> "", MinPC |-> 6, MaxPC |-> 9]>>,
   Funcs |-> <<[Entry |-> 2, Name |-> "main.f"], [Entry |-> 7, Name |-> "lib.g"]>>,
   Lines |-> <<[PC |-> 2, FileID |-> 0, Line |-> 1], [PC |-> 6, FileID |-> 1, Line |-> 2]>>]

TheCalls == {[gid |-> 1, starttime |-> 1, frames |-> <<6, 3>>], [gid |-> 2, starttime |-> 2, frames |-> <<7>>]}

TheGoroutines == {[gid |-> 2, starttime |-> 1, endtime |-> 3]}

\* Nothing more is explored once the request has been answered, and of what the
\* worker records only the tables that the statement reads.
Answering ==
  /\ q.pc \in {"idle", "reading"}
  /\ q.pc = "idle" => calls = <<>> \/ gos = <<>>
  /\ q.pc = "reading" => /\ Stmt.from \in {"calls", "frames"} \/ calls = <<>>
                         /\ Stmt.from = "goroutines" \/ gos = <<>>
                         /\ Stmt.from # "goroutines" \/ syms = NoTable
=============================================================================
