----------------------------- MODULE CallSearch -----------------------------
(***************************************************************************)
(* GET /log/{log-id}/func-call/search: the pipeline of goroutines that     *)
(* answers a query for calls.  A reader takes the records from the store   *)
(* and then from the simulator, a filter, a limiter or a sorter pass them  *)
(* on, a sender writes them to the client; bounded channels lie between    *)
(* them.  Reader and filter stop when readCtx is done, limiter, sorter and *)
(* sender when the group's context is, which an error of any of them does. *)
(* A record travels as an object of FuncLogPool, named here by its call.   *)
(***************************************************************************)
EXTENDS Integers, Sequences, FiniteSets, SequencesExt, FiniteSetsExt, TLC

CONSTANTS Recs,         \* the calls of the log, by ID: [gid, start, end]
          Requests,     \* what clients ask for: [params, bad, sql, format]
          BufferSize,   \* capacity of a channel
          Goroutines,   \* the goroutine records of the log, by GID: [start, end]
          TimeRanges,   \* the ranges of time that goroutines are asked for: [min, max]
          GBufferSize,  \* capacity of the channel of goroutineSearch
          None

VARIABLES stored,    \* number of records in the store
          live,      \* the calls the simulator holds
          plan,      \* what the request was found to mean
          status,    \* of the request
          chans,     \* the channels behind reader, filter and sorter
          reader, filter, sorter, sender,   \* the goroutines
          readDone,  \* readCtx is done
          ctxDone,   \* the group's context is done
          gone,      \* the client has gone away
          sent,      \* the records written to the client
          pooled,    \* how often every record was put back into the pool
          gsearch    \* a request for goroutines

callVars == <<stored, live, plan, status, chans, reader, filter, sorter, sender, readDone, ctxDone, gone, sent, pooled>>
vars == <<callVars, gsearch>>

Ids == DOMAIN Recs
Gids == DOMAIN Goroutines
Chans == {"read", "filtered", "sorted"}
NewChan == [buf |-> <<>>, closed |-> FALSE]

-----------------------------------------------------------------------------
(* The parameters.  A request is a map of the parameters that it names;    *)
(* bad is the set of those whose text does not parse.                      *)

Numbers == {"gid", "min-id", "max-id", "min-timestamp", "max-timestamp", "limit"}
NoSortKey == ""
SortKeys == {NoSortKey, "id", "start-time", "end-time"}
Orders == [key : {"nil", "id", "start-time", "end-time"}, desc : BOOLEAN]

\* Records and goroutines are the elements of a file, numbered from 0. A parameter
\* is an int64 or a sort key, a statement has an offset that is not negative.
ASSUME SearchAssumption ==
  /\ BufferSize \in Nat \ {0}
  /\ IsFiniteSet(Ids) /\ Ids = 0..(Cardinality(Ids) - 1)
  /\ \A id \in Ids : Recs[id].start \in Int /\ Recs[id].end \in Int
  /\ IsFiniteSet(Gids) /\ Gids = 0..(Cardinality(Gids) - 1)
  /\ GBufferSize \in Nat \ {0}
  /\ None \notin Ids /\ (\A s \in SUBSET Ids : s # None) /\ None \notin Orders
  /\ \A r \in Requests :
       /\ \A n \in DOMAIN r.params \cap Numbers : r.params[n] \in Int
       /\ "sort" \in DOMAIN r.params => r.params["sort"] \in SortKeys
       /\ r.sql # None =>
            /\ r.sql.where \in {None} \cup SUBSET Ids /\ r.sql.wrong \in BOOLEAN
            /\ r.sql.offset \in Nat /\ r.sql.rows \in Int

\* SearchFuncLogParams.ToParamMap: the client leaves out what has the zero value.
ToParamMap(p) ==
  LET given == {n \in DOMAIN p : p[n] # (IF n \in Numbers THEN 0 ELSE "")} IN [n \in given |-> p[n]]

Defaults ==
  [n \in Numbers \cup {"sort", "order"} |-> IF n \in Numbers THEN -1 ELSE IF n = "sort" THEN NoSortKey ELSE "asc"]

\* SearchFuncLogParams.FromString
FromString(m) == [n \in DOMAIN Defaults |-> IF n \in DOMAIN m THEN m[n] ELSE Defaults[n]]

Bounded(p) == \E n \in {"min-id", "max-id", "min-timestamp", "max-timestamp"} : p[n] >= 0

\* isFiltered of the simple parameters.  A request with bounds on IDs or times
\* ends before it is used: they are looked up in the log's index, to which nothing is
\* ever appended.
Filtered(p, id) == p["gid"] >= 0 /\ Recs[id].gid # p["gid"]

Key(key, id) ==
  CASE key = "id"         -> id
    [] key = "start-time" -> Recs[id].start
    [] key = "end-time"   -> Recs[id].end

\* sortFn: key "nil" is the descending order of no key, whose function calls nil.
SortFn(p) ==
  IF p["sort"] = NoSortKey THEN IF p["order"] = "asc" THEN None ELSE [key |-> "nil", desc |-> TRUE]
  ELSE [key |-> p["sort"], desc |-> p["order"] = "desc"]

Less(fn, a, b) == IF fn.desc THEN Key(fn.key, b) < Key(fn.key, a) ELSE Key(fn.key, a) < Key(fn.key, b)

\* The plan: isFiltered as the set of the records that pass (None: no filter), the
\* order (None: no sorting), offset and rows; wrong: evaluating the condition panics.
SimplePlan(p) ==
  [keep |-> IF p["gid"] >= 0 THEN {id \in Ids : ~Filtered(p, id)} ELSE None, wrong |-> FALSE,
   less |-> SortFn(p), offset |-> 0, rows |-> p["limit"]]

SqlPlan(sql) == [keep |-> sql.where, wrong |-> sql.wrong, less |-> None, offset |-> sql.offset, rows |-> sql.rows]

NoPlan == [keep |-> None, wrong |-> FALSE, less |-> None, offset |-> 0, rows |-> 0]

\* The channels of a plan: a stage that has nothing to do is not started.
HasFilter == plan.keep # None
HasSorter == plan.less # None \/ plan.rows > 0
SorterIn  == IF HasFilter THEN "filtered" ELSE "read"
SenderIn  == IF HasSorter THEN "sorted" ELSE SorterIn

-----------------------------------------------------------------------------
Init ==
  /\ stored \in 0..Cardinality(Ids)
  /\ live \in {s \in SUBSET Ids : \A id \in Ids : id >= stored => id \in s}
  /\ plan = NoPlan /\ status = "idle"
  /\ chans = [c \in Chans |-> NewChan]
  /\ reader = [pc |-> "off", id |-> 0, sim |-> {}]
  /\ filter = [pc |-> "off", has |-> None]
  /\ sorter = [pc |-> "off", has |-> None, n |-> 0, items |-> <<>>]
  /\ sender = [pc |-> "off", failed |-> FALSE]
  /\ readDone = FALSE /\ ctxDone = FALSE /\ gone = FALSE
  /\ sent = <<>> /\ pooled = [id \in Ids |-> 0]
  /\ gsearch = [pc |-> "idle", range |-> None, gid |-> 0, buf |-> <<>>, writer |-> "off", sent |-> <<>>]

Conflicts(r) == r.sql # None /\ \E n \in DOMAIN r.params : n # "sql"

\* funcCallSearch and the two handlers behind it, up to the start of the pipeline.
Handle(r) ==
  LET p    == FromString(r.params)
      next == IF r.sql # None THEN SqlPlan(r.sql) ELSE SimplePlan(p)
      answer == CASE r.bad # {} \/ Conflicts(r)       -> "rejected"
                  [] r.sql # None /\ ~r.sql.valid     -> "rejected"
                  [] r.sql = None /\ Bounded(p)       -> "answered"
                  [] r.sql = None /\ r.format # "json" -> "rejected"
                  [] OTHER                            -> "running"
      Start(has) == IF answer = "running" /\ has THEN "start" ELSE "off"
  IN  /\ status = "idle"
      /\ status' = answer
      /\ plan' = next
      /\ reader' = [reader EXCEPT !.pc = Start(TRUE)]
      /\ filter' = [filter EXCEPT !.pc = Start(next.keep # None)]
      /\ sorter' = [sorter EXCEPT !.pc = Start(next.less # None \/ next.rows > 0)]
      /\ sender' = [sender EXCEPT !.pc = Start(TRUE)]
      /\ UNCHANGED <<stored, live, chans, readDone, ctxDone, gone, sent, pooled>>

\* The client goes away: from now on a send may fail.
Leave ==
  /\ status = "running" /\ ~gone
  /\ gone' = TRUE
  /\ UNCHANGED <<stored, live, plan, status, chans, reader, filter, sorter, sender, readDone, ctxDone, sent, pooled>>

-----------------------------------------------------------------------------
(* Channels *)

Room(c)     == Len(chans[c].buf) < BufferSize
Ready(c)    == chans[c].buf # <<>>
Drained(c)  == chans[c].closed /\ chans[c].buf = <<>>
Put(c, id)  == [chans EXCEPT ![c].buf = Append(@, id)]
Take(c)     == [chans EXCEPT ![c].buf = Tail(@)]
Close(c)    == [chans EXCEPT ![c].closed = TRUE]
Return(id)  == pooled' = [pooled EXCEPT ![id] = @ + 1]

Running == status = "running"

-----------------------------------------------------------------------------
(* readFuncLog.  The range is the whole log, since a request with bounds   *)
(* never gets here.                                                        *)

ReadStore ==
  /\ reader.pc \in {"start", "store"} /\ reader.id < stored /\ Room("read")
  /\ chans' = Put("read", reader.id)
  /\ reader' = [reader EXCEPT !.pc = "store", !.id = @ + 1]
  /\ UNCHANGED <<readDone, ctxDone>>

\* GetNolock fails: the error ends the group.
ReadFails ==
  /\ reader.pc \in {"start", "store"} /\ reader.id < stored
  /\ reader' = [reader EXCEPT !.pc = "done"]
  /\ chans' = Close("read")
  /\ ctxDone' = TRUE /\ readDone' = TRUE

\* The end of the range, or readCtx: both go on with the simulator.
EndStore ==
  /\ reader.pc \in {"start", "store"} /\ (reader.id >= stored \/ readDone)
  /\ reader' = [reader EXCEPT !.pc = "sim", !.sim = {id \in live : id >= stored}]
  /\ UNCHANGED <<chans, readDone, ctxDone>>

\* The simulator's calls come in no particular order.
ReadSim ==
  /\ reader.pc = "sim" /\ Room("read")
  /\ \E id \in reader.sim : /\ chans' = Put("read", id)
                            /\ reader' = [reader EXCEPT !.sim = @ \ {id}]
  /\ UNCHANGED <<readDone, ctxDone>>

EndReader ==
  /\ reader.pc = "sim" /\ (reader.sim = {} \/ readDone)
  /\ reader' = [reader EXCEPT !.pc = "done"]
  /\ chans' = Close("read")
  /\ UNCHANGED <<readDone, ctxDone>>

ReaderStep(steps) == /\ Running /\ steps
                     /\ UNCHANGED <<stored, live, plan, status, filter, sorter, sender, gone, sent, pooled>>

ReaderGoesOn == ReaderStep(ReadStore \/ EndStore \/ ReadSim \/ EndReader)
Reader       == ReaderGoesOn \/ ReaderStep(ReadFails)

-----------------------------------------------------------------------------
(* filterFuncLog *)

\* isFiltered
IsFiltered(id)          == id \notin plan.keep

FilterTake ==
  /\ filter.pc = "start" /\ filter.has = None /\ Ready("read") /\ ~plan.wrong
  /\ chans' = Take("read")
  /\ \E id \in {Head(chans["read"].buf)} :
       IF IsFiltered(id) THEN Return(id) /\ UNCHANGED filter
                         ELSE filter' = [filter EXCEPT !.has = id] /\ UNCHANGED pooled

FilterSend ==
  /\ filter.pc = "start" /\ filter.has # None /\ Room("filtered")
  /\ chans' = Put("filtered", filter.has)
  /\ filter' = [filter EXCEPT !.has = None]
  /\ UNCHANGED pooled

EndFilter ==
  /\ filter.pc = "start" /\ (readDone \/ (filter.has = None /\ Drained("read")))
  /\ filter' = [filter EXCEPT !.pc = "done", !.has = None]
  /\ chans' = Close("filtered")
  /\ UNCHANGED pooled

Filter == /\ Running /\ (FilterTake \/ FilterSend \/ EndFilter)
          /\ UNCHANGED <<stored, live, plan, status, reader, sorter, sender, readDone, ctxDone, gone, sent>>

-----------------------------------------------------------------------------
(* sortAndLimit without an order: drop offset records, pass on rows.       *)

Limits == sorter.pc = "start" /\ plan.less = None

Dropping == sorter.n < plan.offset

LimitTake ==
  /\ Limits /\ sorter.has = None /\ sorter.n < plan.offset + plan.rows /\ Ready(SorterIn)
  /\ chans' = Take(SorterIn)
  /\ sorter' = [sorter EXCEPT !.n = @ + 1, !.has = IF Dropping THEN None ELSE Head(chans[SorterIn].buf)]
  /\ UNCHANGED readDone

\* This send waits for room whatever becomes of the contexts.
LimitSend ==
  /\ Limits /\ sorter.has # None /\ Room("sorted")
  /\ chans' = Put("sorted", sorter.has)
  /\ sorter' = [sorter EXCEPT !.has = None]
  /\ UNCHANGED readDone

\* The deferred close(ch) and stopReader().  Seeded bug: the reader is not stopped.
EndSorter_ReaderGoesOn ==
  /\ sorter' = [sorter EXCEPT !.pc = "done", !.items = <<>>]
  /\ chans' = Close("sorted")
  /\ UNCHANGED readDone
EndSorter ==
  /\ sorter' = [sorter EXCEPT !.pc = "done", !.items = <<>>]
  /\ chans' = Close("sorted") /\ readDone' = TRUE

EndLimit ==
  /\ Limits /\ sorter.has = None
  /\ sorter.n = plan.offset + plan.rows \/ Drained(SorterIn) \/ ctxDone
  /\ EndSorter

-----------------------------------------------------------------------------
(* sortAndLimit with an order: collect all records, or the offset + rows   *)
(* smallest in a heap, sort them, drop offset of them and send the rest.   *)

Sorts == sorter.pc = "start" /\ plan.less # None

SortPanics == plan.less # None /\ plan.less.key = "nil"

\* The heap's first item is a largest one.  Seeded bug: it is a smallest one.
Largest_Smallest(items) == {i \in DOMAIN items : \A j \in DOMAIN items : ~Less(plan.less, items[j], items[i])}
Largest(items) == {i \in DOMAIN items : \A j \in DOMAIN items : ~Less(plan.less, items[i], items[j])}

SortTake ==
  /\ Sorts /\ Ready(SorterIn)
  /\ chans' = Take(SorterIn)
  /\ \E id \in {Head(chans[SorterIn].buf)} :
       \/ /\ plan.rows <= 0 \/ Len(sorter.items) < plan.offset + plan.rows
          /\ sorter' = [sorter EXCEPT !.items = Append(@, id)]
       \/ /\ plan.rows > 0 /\ Len(sorter.items) = plan.offset + plan.rows /\ ~SortPanics
          /\ \E i \in Largest(sorter.items) :
               sorter' = IF Less(plan.less, id, sorter.items[i]) THEN [sorter EXCEPT !.items[i] = id] ELSE sorter
  /\ UNCHANGED readDone

Ordered(s, fn) == \A i, j \in DOMAIN s : i < j => ~Less(fn, s[j], s[i])

\* sort.Slice is not stable: any order of equal items may come out.
SortAll ==
  /\ Sorts /\ Drained(SorterIn) /\ ~(SortPanics /\ Len(sorter.items) > 1)
  /\ \E s \in SetToSeqs(Range(sorter.items)) :
       /\ SortPanics \/ Ordered(s, plan.less)
       /\ sorter' = [sorter EXCEPT !.pc = "out", !.items = SubSeq(s, plan.offset + 1, Len(s))]
  /\ UNCHANGED <<chans, readDone>>

SortSend ==
  /\ sorter.pc = "out" /\ sorter.items # <<>> /\ Room("sorted")
  /\ chans' = Put("sorted", Head(sorter.items))
  /\ sorter' = [sorter EXCEPT !.items = Tail(@)]
  /\ UNCHANGED readDone

EndSort ==
  /\ (sorter.pc = "out" /\ sorter.items = <<>>) \/ ((Sorts \/ sorter.pc = "out") /\ ctxDone)
  /\ EndSorter

Sorter == /\ Running /\ (LimitTake \/ LimitSend \/ EndLimit \/ SortTake \/ SortAll \/ SortSend \/ EndSort)
          /\ UNCHANGED <<stored, live, plan, status, reader, filter, sender, ctxDone, gone, sent, pooled>>

\* Two items are compared by the function that is nil, or the condition of a
\* statement is evaluated that does not have the types it needs.
GoroutinePanics ==
  \/ filter.pc = "start" /\ filter.has = None /\ Ready("read") /\ plan.wrong
  \/ Sorts /\ SortPanics /\ Len(sorter.items) > 1 /\ Drained(SorterIn)
  \/ Sorts /\ SortPanics /\ plan.rows > 0 /\ Len(sorter.items) = plan.rows /\ Ready(SorterIn)
  \/ Sorts /\ SortPanics /\ plan.rows > 1 /\ Len(sorter.items) = plan.rows

\* Nothing recovers the panic: the server ends.
Crash ==
  /\ Running /\ GoroutinePanics
  /\ status' = "crashed"
  /\ UNCHANGED <<stored, live, plan, chans, reader, filter, sorter, sender, readDone, ctxDone, gone, sent, pooled>>

-----------------------------------------------------------------------------
(* sendTo *)

SendRecord ==
  /\ sender.pc = "start" /\ Ready(SenderIn)
  /\ chans' = Take(SenderIn)
  /\ sent' = Append(sent, Head(chans[SenderIn].buf))
  /\ Return(Head(chans[SenderIn].buf))
  /\ UNCHANGED <<sender, readDone, ctxDone>>

\* send() fails: the reader is stopped, the panic is recovered, and the deferred
\* function returns what is still under way to the pool.  Seeded bug: the record
\* that failed is returned too.
SendFails_Returns ==
  /\ sender.pc = "start" /\ Ready(SenderIn) /\ gone
  /\ sender' = [pc |-> "drain", failed |-> TRUE]
  /\ readDone' = TRUE
  /\ Return(Head(chans[SenderIn].buf))
  /\ UNCHANGED <<chans, sent, ctxDone>>
SendFails ==
  /\ sender.pc = "start" /\ Ready(SenderIn) /\ gone
  /\ chans' = Take(SenderIn)
  /\ sender' = [pc |-> "drain", failed |-> TRUE]
  /\ readDone' = TRUE
  /\ UNCHANGED <<sent, pooled, ctxDone>>

StopSending ==
  /\ sender.pc = "start" /\ (ctxDone \/ Drained(SenderIn))
  /\ sender' = [sender EXCEPT !.pc = "drain"]
  /\ UNCHANGED <<chans, sent, pooled, readDone, ctxDone>>

Drain ==
  /\ sender.pc = "drain" /\ Ready(SenderIn)
  /\ chans' = Take(SenderIn)
  /\ Return(Head(chans[SenderIn].buf))
  /\ UNCHANGED <<sender, sent, readDone, ctxDone>>

EndSender ==
  /\ sender.pc = "drain" /\ Drained(SenderIn)
  /\ sender' = [sender EXCEPT !.pc = "done"]
  /\ ctxDone' = (ctxDone \/ sender.failed) /\ readDone' = (readDone \/ sender.failed)
  /\ UNCHANGED <<chans, sent, pooled>>

Sender == /\ Running /\ (SendRecord \/ SendFails \/ StopSending \/ Drain \/ EndSender)
          /\ UNCHANGED <<stored, live, plan, status, reader, filter, sorter, gone>>

\* wait()
Wait ==
  /\ Running /\ \A g \in {reader, filter, sorter, sender} : g.pc \in {"off", "done"}
  /\ status' = "answered"
  /\ UNCHANGED <<stored, live, plan, chans, reader, filter, sorter, sender, readDone, ctxDone, gone, sent, pooled>>

-----------------------------------------------------------------------------
(* goroutineSearch: a goroutine reads the store of goroutines, with its    *)
(* lock held, into a channel, and the handler writes them to the client.   *)

\* The timestamps that the request does not name are -1.
InRange(range, g) ==
  /\ range.min = -1 \/ range.min <= g.start
  /\ range.max = -1 \/ g.end <= range.max

SearchGoroutines(range) ==
  /\ gsearch.pc = "idle" /\ status = "idle"
  /\ gsearch' = [gsearch EXCEPT !.pc = "reading", !.range = range, !.writer = "writing"]

\* ch <- g: nothing but room in the channel lets the reader go on.
GRoom      == Len(gsearch.buf) < GBufferSize

ReadGoroutine ==
  /\ gsearch.pc = "reading" /\ gsearch.gid \in DOMAIN Goroutines
  /\ \/ /\ InRange(gsearch.range, Goroutines[gsearch.gid]) /\ GRoom
        /\ gsearch' = [gsearch EXCEPT !.gid = @ + 1, !.buf = Append(@, gsearch.gid)]
     \/ /\ ~InRange(gsearch.range, Goroutines[gsearch.gid])
        /\ gsearch' = [gsearch EXCEPT !.gid = @ + 1]

\* The last record, or one that cannot be read: the channel is closed, the lock
\* released.
EndGoroutines ==
  /\ gsearch.pc = "reading" /\ gsearch.gid \notin DOMAIN Goroutines
  /\ gsearch' = [gsearch EXCEPT !.pc = "done"]

GoroutineFails ==
  /\ gsearch.pc = "reading" /\ gsearch.gid \in DOMAIN Goroutines
  /\ gsearch' = [gsearch EXCEPT !.pc = "failed"]

\* Encode fails: the handler returns, and nobody reads the channel any more.
WriteGoroutine ==
  /\ gsearch.writer = "writing" /\ gsearch.buf # <<>>
  /\ \/ gsearch' = [gsearch EXCEPT !.buf = Tail(@), !.sent = Append(@, Head(gsearch.buf))]
     \/ gsearch' = [gsearch EXCEPT !.buf = Tail(@), !.writer = "failed"]

EndWriter ==
  /\ gsearch.writer = "writing" /\ gsearch.buf = <<>> /\ gsearch.pc \in {"done", "failed"}
  /\ gsearch' = [gsearch EXCEPT !.writer = "done"]

GoroutineReader == (ReadGoroutine \/ EndGoroutines) /\ UNCHANGED callVars
GoroutineWriter == (WriteGoroutine \/ EndWriter) /\ UNCHANGED callVars

-----------------------------------------------------------------------------
\* One request is followed at a time.
Calls ==
  /\ gsearch.pc = "idle"
  /\ \/ \E r \in Requests : Handle(r)
     \/ Leave
     \/ Reader \/ Filter \/ Sorter \/ Sender
     \/ Crash
     \/ Wait
  /\ UNCHANGED gsearch

Next ==
  \/ Calls
  \/ \E range \in TimeRanges : SearchGoroutines(range) /\ UNCHANGED callVars
  \/ GoroutineReader \/ GoroutineWriter \/ (GoroutineFails /\ UNCHANGED callVars)

\* Every goroutine goes on when it can: channels, contexts and writes to a
\* connection that is read or lost do not block for ever.
Fairness ==
  /\ WF_callVars(ReaderGoesOn) /\ WF_callVars(Filter) /\ WF_callVars(Sorter) /\ WF_callVars(Sender)
  /\ WF_callVars(Crash) /\ WF_callVars(Wait)
  /\ WF_vars(GoroutineReader) /\ WF_vars(GoroutineWriter)

Spec == Init /\ [][Next]_vars /\ Fairness
-----------------------------------------------------------------------------
(* Properties *)

InFlight ==
  (UNION {Range(chans[c].buf) : c \in Chans}) \cup Range(sorter.items) \cup ({filter.has, sorter.has} \ {None})

Plans == [keep : {None} \cup SUBSET Ids, wrong : BOOLEAN, less : {None} \cup Orders, offset : Nat, rows : Int]

Readers == [pc : {"off", "start", "store", "sim", "done"}, id : Nat, sim : SUBSET Ids]
Filters == [pc : {"off", "start", "done"}, has : Ids \cup {None}]
Sorters == [pc : {"off", "start", "out", "done"}, has : Ids \cup {None}, n : Nat, items : Seq(Ids)]
Senders == [pc : {"off", "start", "drain", "done"}, failed : BOOLEAN]

ChanTypes ==
  /\ chans \in [Chans -> [buf : Seq(Ids), closed : BOOLEAN]]
  /\ \A c \in Chans : Len(chans[c].buf) <= BufferSize

CallTypes ==
  /\ stored \in 0..Cardinality(Ids) /\ live \in SUBSET Ids /\ plan \in Plans
  /\ status \in {"idle", "rejected", "running", "answered", "crashed"}
  /\ ChanTypes
  /\ reader \in Readers /\ reader.id <= stored
  /\ filter \in Filters
  /\ sorter \in Sorters /\ sorter.n <= plan.offset + Max({plan.rows, 0})
  /\ sender \in Senders
  /\ readDone \in BOOLEAN /\ ctxDone \in BOOLEAN /\ gone \in BOOLEAN
  /\ sent \in Seq(Ids) /\ pooled \in [Ids -> Nat]

GTypes ==
  gsearch \in [pc : {"idle", "reading", "done", "failed"}, range : TimeRanges \cup {None}, gid : Nat,
              buf : Seq(Gids), writer : {"off", "writing", "failed", "done"}, sent : Seq(Gids)]

TypeOK == CallTypes /\ GTypes

\* A record that is back in the pool is not on its way in the pipeline any more,
\* and none is put back twice: whoever takes it from the pool owns it (the Put calls
\* of filterFuncLog and sendTo).
PoolIsSafe == TypeOK /\ \A id \in Ids : pooled[id] <= 1 /\ (pooled[id] = 1 => id \notin InFlight)

Passes == IF plan.keep = None THEN Ids ELSE plan.keep

\* What is sent, complete or cut short, holds no record twice and none that the
\* filter excludes, and is in the order asked for.
AnswerIsSound ==
  /\ IsInjective(sent) /\ Range(sent) \subseteq Passes
  /\ plan.less # None /\ plan.less.key # "nil" => Ordered(sent, plan.less)

Rising(s) == \A i, j \in DOMAIN s : i < j => s[i] < s[j]
Wanted == {g \in Gids : gsearch.pc # "idle" /\ InRange(gsearch.range, Goroutines[g])}

\* The goroutines of the range are sent once each and in their order, whoever fails.
GoroutinesInOrder ==
  /\ Rising(gsearch.sent)
  /\ \A g \in Range(gsearch.sent) : g \in Wanted /\ \A h \in Wanted : h < g => h \in Range(gsearch.sent)
  /\ gsearch.writer = "done" /\ gsearch.pc = "done" => Wanted \subseteq Range(gsearch.sent)

Smaller(s, t, fn) == \A i \in DOMAIN s : ~Less(fn, t, s[i])

\* A limit that is not positive is none, and its offset is not looked at either.
WindowSize ==
  IF plan.rows > 0 THEN Min({Max({Cardinality(Passes) - plan.offset, 0}), plan.rows}) ELSE Cardinality(Passes)

\* When nothing fails the client gets exactly the rows it asked for: all that
\* pass, or as many as limit allows after offset, and with an order the smallest ones
\* (sortAndLimit's heap and its early end stop nobody too soon); and when something
\* fails, no row is wrong, repeated or out of order.
AnswerIsTheWindow ==
  /\ AnswerIsSound /\ GoroutinesInOrder
  /\ status = "answered" /\ reader.pc = "done" /\ ~ctxDone /\ ~sender.failed =>
       /\ Len(sent) = WindowSize
       /\ plan.less # None /\ plan.less.key # "nil" =>
            \A id \in Passes \ Range(sent) : Smaller(sent, id, plan.less)

\* Nothing stops the goroutine that reads the goroutine records when the client has
\* left: its channel is full, the next record is for it, and nobody receives.
GReaderIsLeft ==
  /\ gsearch.pc = "reading" /\ gsearch.writer = "failed" /\ ~GRoom
  /\ gsearch.gid \in Gids /\ InRange(gsearch.range, Goroutines[gsearch.gid])

\* A request that starts its pipeline ends it: every goroutine returns, also when
\* the client leaves, the store fails or the limit is reached with records under way,
\* and the reader gives up the store's lock. So does the goroutine that reads the
\* goroutine records, with one exception: a handler that returned because it could
\* not write (handlers.go:766-769) leaves it at its send (:753) for ever, with the
\* store's lock held, when more records are wanted than the channel has room for.
RequestsEnd ==
  /\ (status = "running") ~> (status \in {"answered", "crashed"})
  /\ (gsearch.pc = "reading") ~> (gsearch.pc \in {"done", "failed"} \/ GReaderIsLeft)
-----------------------------------------------------------------------------
(* Why they hold: the inductive invariant of the proofs.                   *)

\* What the reader has still to read.
Unread == CASE reader.pc \in {"off", "start", "store"} -> {id \in Ids : id >= reader.id}
            [] reader.pc = "sim"  -> reader.sim
            [] reader.pc = "done" -> {}

Places == {"unread", "read", "tested", "filtered", "limited", "items", "sorted", "pooled"}

\* The places that a record goes through.  One that the limiter, the heap or a
\* failure drops is in none of them.
Place == [p \in Places |->
  CASE p = "unread"   -> Unread
    [] p = "read"     -> Range(chans["read"].buf)
    [] p = "tested"   -> {filter.has} \ {None}
    [] p = "filtered" -> Range(chans["filtered"].buf)
    [] p = "limited"  -> {sorter.has} \ {None}
    [] p = "items"    -> Range(sorter.items)
    [] p = "sorted"   -> Range(chans["sorted"].buf)
    [] p = "pooled"   -> {id \in Ids : pooled[id] > 0}]

Apart(P) == \A p, q \in Places : p # q => P[p] \cap P[q] = {}

\* A record is in one place, there once, and sent only when it goes back to the pool.
OnePlace ==
  /\ Apart(Place)
  /\ \A c \in Chans : IsInjective(chans[c].buf)
  /\ IsInjective(sorter.items) /\ IsInjective(sent)
  /\ \A id \in Ids : pooled[id] <= 1
  /\ \A id \in Range(sent) : pooled[id] = 1

\* Behind the filter there are only records that pass it.
OnlyPasses ==
  /\ \A p \in {"tested", "filtered", "limited", "items", "sorted"} : Place[p] \subseteq Passes
  /\ Range(sent) \subseteq Passes

\* Before the goroutines start nothing has happened.
Untouched ==
  /\ reader = [pc |-> "off", id |-> 0, sim |-> {}] /\ filter = [pc |-> "off", has |-> None]
  /\ sorter = [pc |-> "off", has |-> None, n |-> 0, items |-> <<>>] /\ sender = [pc |-> "off", failed |-> FALSE]
  /\ chans = [c \in Chans |-> NewChan] /\ ~readDone /\ ~ctxDone /\ sent = <<>> /\ pooled = [id \in Ids |-> 0]

Undisturbed == ~ctxDone /\ ~sender.failed

\* Which goroutines there are, what they have closed, and who stops the reader.
Stages ==
  /\ stored..(Cardinality(Ids) - 1) \subseteq live
  /\ status = "idle" \/ reader.pc = "off" => Untouched
  /\ status = "running" => reader.pc # "off"
  /\ status = "answered" /\ reader.pc # "off" => filter.pc # "start" /\ sorter.pc \in {"off", "done"} /\ sender.pc = "done"
  /\ reader.pc # "off" => (HasFilter <=> filter.pc # "off") /\ (HasSorter <=> sorter.pc # "off") /\ sender.pc # "off"
  /\ reader.pc = "done" <=> chans["read"].closed
  /\ filter.pc = "done" <=> chans["filtered"].closed
  /\ sorter.pc = "done" <=> chans["sorted"].closed
  /\ filter.pc = "off" => filter.has = None /\ chans["filtered"].buf = <<>>
  /\ filter.pc = "done" => filter.has = None
  /\ filter.pc = "done" /\ ~readDone => Drained("read")
  /\ sorter.pc = "off" => chans["sorted"].buf = <<>>
  /\ sorter.pc # "start" => sorter.has = None
  /\ sorter.pc \in {"off", "done"} \/ plan.less = None => sorter.items = <<>>
  /\ IF plan.less = None THEN sorter.pc # "out" ELSE plan.offset = 0 /\ sorter.has = None
  /\ plan.less # None /\ sorter.pc \in {"off", "start"} => chans["sorted"].buf = <<>> /\ sent = <<>>
  /\ readDone <=> ~Undisturbed \/ sorter.pc = "done"
  /\ sender.pc \in {"drain", "done"} /\ Undisturbed => Drained(SenderIn)

\* What the sorter sends is in order, wherever it is on its way.
Sorting == plan.less # None /\ plan.less.key # "nil"
Outgoing == IF sorter.pc = "out" THEN sorter.items ELSE <<>>
AllBefore(s, t) == \A x \in Range(s), y \in Range(t) : ~Less(plan.less, y, x)
InOrder ==
  Sorting =>
    /\ Ordered(sent, plan.less) /\ Ordered(chans["sorted"].buf, plan.less) /\ Ordered(Outgoing, plan.less)
    /\ AllBefore(sent, chans["sorted"].buf) /\ AllBefore(sent, Outgoing) /\ AllBefore(chans["sorted"].buf, Outgoing)

\* The records that went through the filter, and through the channel behind it.
Upstream == Place["unread"] \cup Place["read"] \cup Place["tested"] \cup Place["filtered"]
Arrived  == Passes \ Upstream
OutRange == Range(sent) \cup Range(chans["sorted"].buf) \cup Range(sorter.items)

Heap ==
  /\ Len(sorter.items) = IF plan.rows > 0 /\ Cardinality(Arrived) > plan.rows THEN plan.rows ELSE Cardinality(Arrived)
  /\ plan.rows <= 0 \/ Cardinality(Arrived) <= plan.rows => Arrived \subseteq Range(sorter.items)
  /\ Sorting => \A id \in Arrived \ Range(sorter.items) : Smaller(sorter.items, id, plan.less)

\* As long as nothing stops the reader no record is lost, and the sorter's count or
\* its heap stands for all that have arrived.
Counted ==
  /\ ~readDone /\ ~HasSorter => Len(sent) = Cardinality(Arrived)
  /\ ~readDone /\ HasSorter /\ plan.less = None =>
       /\ sorter.n = Cardinality(Arrived)
       /\ Len(sent) + Len(chans["sorted"].buf) + (IF sorter.has = None THEN 0 ELSE 1) = Max({sorter.n - plan.offset, 0})
  /\ ~readDone /\ plan.less # None /\ sorter.pc \in {"off", "start"} => Heap
  /\ Undisturbed /\ sorter.pc \in {"out", "done"} =>
       /\ Len(sent) + Len(chans["sorted"].buf) + Len(sorter.items) = WindowSize
       /\ Sorting => \A x \in Passes \ OutRange, y \in OutRange : ~Less(plan.less, x, y)

\* The goroutines before the reader's are sent or wait in the channel, as long as
\* somebody writes them.
GInOrder ==
  LET s == gsearch.sent
      b == gsearch.buf
  IN  /\ gsearch.pc = "idle" => gsearch.gid = 0 /\ s = <<>> /\ b = <<>>
      /\ Rising(s) /\ Rising(b) /\ \A x \in Range(s), y \in Range(b) : x < y
      /\ \A x \in Range(s) \cup Range(b) : x \in Wanted /\ x < gsearch.gid
      /\ \A x \in Range(s), h \in Wanted : h < x => h \in Range(s)
      /\ gsearch.writer # "failed" => \A h \in Wanted : h < gsearch.gid => h \in Range(s) \cup Range(b)
      /\ gsearch.pc = "done" => Wanted \subseteq 0..(gsearch.gid - 1)
      /\ gsearch.writer = "done" => b = <<>> /\ gsearch.pc \in {"done", "failed"}

CallInv == CallTypes /\ Stages /\ OnePlace /\ OnlyPasses /\ InOrder /\ Counted
GInv    == GTypes /\ GInOrder
IInv    == CallInv /\ GInv
=============================================================================
