---------------------------- MODULE MCCallSearch ----------------------------
EXTENDS CallSearch

TheRecs == 0 :> [gid |-> 1, start |-> 1, end |-> 9] @@ 1 :> [gid |-> 2, start |-> 2, end |-> 5]
           @@ 2 :> [gid |-> 1, start |-> 3, end |-> 5]

\* What the client's parameters become on their way to the server.
Ask(p)      == [params |-> ToParamMap(p), bad |-> {}, sql |-> None, format |-> "json"]
Zero        == [n \in Numbers |-> 0] @@ ("sort" :> "" @@ "order" :> "")
Sql(w, o, n) == [params |-> "sql" :> "SELECT", bad |-> {}, format |-> "csv",
                 sql |-> [valid |-> TRUE, where |-> w, wrong |-> FALSE, offset |-> o, rows |-> n]]

TheRequests ==
  {Ask(Zero),
   Ask([Zero EXCEPT !["sort"] = "start-time", !["order"] = "asc"]),
   Ask([Zero EXCEPT !["gid"] = 1, !["sort"] = "end-time", !["order"] = "desc", !["limit"] = 1]),
   Ask([Zero EXCEPT !["sort"] = "end-time", !["limit"] = 2]),
   Ask([Zero EXCEPT !["gid"] = 1, !["limit"] = 1]),
   Ask([Zero EXCEPT !["limit"] = 1]),
   Ask([Zero EXCEPT !["order"] = "desc"]),
   Ask([Zero EXCEPT !["order"] = "desc", !["limit"] = 1]),
   Ask([Zero EXCEPT !["max-id"] = 1, !["sort"] = "id"]),
   [Ask(Zero) EXCEPT !.format = "csv"],
   [Ask(Zero) EXCEPT !.bad = {"limit"}],
   [Sql(None, 0, 0) EXCEPT !.params = "sql" :> "SELECT" @@ "gid" :> 1],
   [Sql(None, 0, 0) EXCEPT !.sql.valid = FALSE],
   [Sql({0}, 0, 0) EXCEPT !.sql.wrong = TRUE],
   Sql({0, 1}, 0, 0),
   Sql({1, 2}, 1, 1),
   Sql(None, 1, 0),
   Sql(None, 2, 3)}

TheGoroutines == 0 :> [start |-> 0, end |-> 0] @@ 1 :> [start |-> 1, end |-> 9] @@ 2 :> [start |-> 2, end |-> 5]
TheRanges == {[min |-> -1, max |-> -1], [min |-> 1, max |-> -1], [min |-> -1, max |-> 5]}
=============================================================================
