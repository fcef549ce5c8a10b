----------------------------- MODULE MCLogViewer -----------------------------
EXTENDS LogViewer

call(gid, start, end) == [GID |-> gid, StartTime |-> start, EndTime |-> end]

\* A call within a call, and a second goroutine that begins later, when the symbols
\* have come too; a log in which a goroutine is masked; and one that is looked at
\* when its last event is the beginning of a call. The modules of the last two have no
\* name.
SmallScenarios == {
  [calls |-> <<call(1, 1, 6), call(1, 2, 3), call(2, 4, 5)>>, symbols |-> 5, named |-> TRUE,
   masked |-> {}, times |-> {3, 5}],
  [calls |-> <<call(1, 1, 2), call(2, 3, 4)>>, symbols |-> 1, named |-> FALSE, masked |-> {2}, times |-> {4}],
  [calls |-> <<call(1, 1, 2)>>, symbols |-> 1, named |-> FALSE, masked |-> {}, times |-> {1}]}
=============================================================================
