------------------------------ MODULE CallGraph ------------------------------
(***************************************************************************)
(* The graph of the terminal viewer (logviewer/graphview.go): the lines    *)
(* that buildLines makes from the calls and goroutines it has fetched, and *)
(* the cells that GraphWidget.Draw gives to each line.                     *)
(*                                                                         *)
(* A call is [ID, GID, StartTime, EndTime], the calls are in a sequence;   *)
(* goroutines are a map from GIDs. A line is [x, y, length, call], where   *)
(* call = NoCall for the line that fills the gaps between the calls of a   *)
(* goroutine; its style follows from the call.                             *)
(***************************************************************************)
EXTENDS Integers, Sequences, SequencesExt, FiniteSets, FiniteSetsExt

NotEnded == -1
NoCall == -1

IsEnded(fc) == fc.EndTime # NotEnded

-----------------------------------------------------------------------------
(* The X axis *)

\* How many calls have ended, and how many run, at time t.
EndedFuncLogs(R, t) == Quantify(DOMAIN R, LAMBDA i : IsEnded(R[i]) /\ R[i].EndTime < t)

RunningFuncLogs(R, t) ==
  Quantify(DOMAIN R, LAMBDA i : R[i].StartTime < t /\ (IsEnded(R[i]) => R[i].EndTime >= t))

calcXPos(R, t) == EndedFuncLogs(R, t) * 2 + RunningFuncLogs(R, t)

\* The last time at which something happened.
MaxTime(R) == Max({0} \cup {R[i].StartTime : i \in DOMAIN R} \cup {R[i].EndTime : i \in DOMAIN R})

Left(R, fc) == calcXPos(R, fc.StartTime)
Right(R, fc) == calcXPos(R, IF IsEnded(fc) THEN fc.EndTime ELSE MaxTime(R))
Length(R, fc) == Right(R, fc) - Left(R, fc) + 1

\* The two assertions on what was fetched.
Asserted(R, G) ==
  /\ \A i \in DOMAIN R : Left(R, R[i]) < Right(R, R[i])
  /\ \A gid \in DOMAIN G : \E i \in DOMAIN R : R[i].GID = gid

\* The ends of a goroutine's line. R is in descending order of the start times;
\* the line is longer by one where the goroutine is seen to outlast the call.
FirstX(R, G, gid) ==
  LET step(first, fc) ==
        IF fc.GID # gid \/ first <= Left(R, fc) THEN first
        ELSE Left(R, fc) - (IF G[gid].StartTime < fc.StartTime THEN 1 ELSE 0)
  IN FoldLeft(step, 2 * Len(R) + 1, R)

LastX(R, G, gid) ==
  LET end(fc) == Left(R, fc) + Length(R, fc)
      step(last, fc) ==
        IF fc.GID # gid \/ last >= end(fc) THEN last
        ELSE end(fc) + (IF fc.EndTime < G[gid].EndTime THEN 1 ELSE 0)
  IN FoldLeft(step, -1, R)

-----------------------------------------------------------------------------
(* The lines *)

\* The row of a goroutine; 0 when it was not among the goroutines that were fetched.
RowOf(G, gid) == IF gid \in DOMAIN G THEN Quantify(DOMAIN G, LAMBDA h : h < gid) ELSE 0


\* A caller must not cover what it calls: the calls are drawn from the first to the last.
CallOrder(R) == Reverse(R)

\* buildLines sorts the records, the latest first.
SortRecords(S) == SetToSortSeq(S, LAMBDA a, b : a.StartTime > b.StartTime)

\* The lines in the order in which they are drawn.
buildLines(S, G) ==
  LET R == SortRecords(S)
      gap(gid) == [x |-> FirstX(R, G, gid), y |-> RowOf(G, gid),
                   length |-> LastX(R, G, gid) - FirstX(R, G, gid), call |-> NoCall]
      line(fc) == [x |-> Left(R, fc), y |-> RowOf(G, fc.GID), length |-> Length(R, fc), call |-> fc.ID]
      calls == CallOrder(R)
  IN SetToSeq({gap(gid) : gid \in DOMAIN G}) \o [i \in DOMAIN calls |-> line(calls[i])]

-----------------------------------------------------------------------------
(* The widget *)

\* drawLine: at least one cell, then one more for each unit of length.
Cells(line) == {<<x, line.y>> : x \in line.x .. Max({line.x, line.x + line.length - 1})}

\* Draw: what a cell shows is the line that was drawn on it last.
Shown(lines, cell) ==
  lines[Max({i \in DOMAIN lines : cell \in Cells(lines[i])})].call

-----------------------------------------------------------------------------
(* What the picture of the calls S and the goroutines G must show *)

\* Calls that follow each other have cells that follow each other.
KeepsOrder(S, lines) ==
  \A a \in S : \A b \in S : \A i \in DOMAIN lines : \A j \in DOMAIN lines :
    (lines[i].call = a.ID /\ lines[j].call = b.ID /\ IsEnded(a) /\ a.EndTime < b.StartTime)
      => lines[i].x + lines[i].length <= lines[j].x

\* A call begins and ends under the line of its goroutine. One whose goroutine was not
\* fetched is on the first row, whose goroutine it does not belong to.
IsCovered(S, G, lines) ==
  \A a \in S : \A j \in DOMAIN lines : lines[j].call = a.ID =>
    IF a.GID \in DOMAIN G
      THEN \E i \in DOMAIN lines : lines[i].call = NoCall /\ lines[i].y = RowOf(G, a.GID) /\ Cells(lines[j]) \subseteq Cells(lines[i])
      ELSE lines[j].y = 0

\* A cell of a call that shows another call shows one that began later, of the same
\* goroutine: what is called is on top of what calls it. Only where a call of a
\* goroutine that was not fetched is on the first row do calls of two goroutines meet.
InnermostOnTop(S, G, lines) ==
  \A j \in DOMAIN lines : \A a \in {a \in S : a.ID = lines[j].call} : \A cell \in Cells(lines[j]) :
    \E b \in S : /\ b.ID = Shown(lines, cell) /\ b.StartTime >= a.StartTime
                 /\ a.GID = b.GID \/ (cell[2] = 0 /\ {a.GID, b.GID} \ DOMAIN G # {})

\* The assertions of buildLines fail on a call that began last and still runs, because
\* nothing gives it a length, and on a goroutine without a call; on nothing else.
CannotDraw(S, G) ==
  \/ \E a \in S : ~IsEnded(a) /\ \A b \in S : b.StartTime <= a.StartTime /\ b.EndTime <= a.StartTime
  \/ \E gid \in DOMAIN G : \A a \in S : a.GID # gid
=============================================================================
