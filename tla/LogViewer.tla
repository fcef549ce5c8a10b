------------------------------ MODULE LogViewer ------------------------------
(***************************************************************************)
(* The terminal viewer (logviewer) and the API client it reads with        *)
(* (restapi/client.go). UICoordinator has one current view model; a view   *)
(* model has an updateWorker that runs its Update() again and again, a     *)
(* first Update() beside it, and a context that is cancelled when the next *)
(* view model is set. Update() fetches, stores what it got under the view  *)
(* model's lock and notifies the coordinator, which hands a view of the    *)
(* current view model to the UI thread, in a goroutine of its own. Keys    *)
(* act on the view that is on the screen.                                  *)
(*                                                                         *)
(* One log is looked at while its program runs: now counts the events that *)
(* the server has processed, and what was fetched is named by the time of  *)
(* the fetch. A view is a snapshot of the state of its view model. The     *)
(* tui library is external: UI.Update runs a function on the UI thread,    *)
(* key handlers run there as well.                                         *)
(***************************************************************************)
EXTENDS CallGraph, Bags, BagsExt

CONSTANTS
  Scenarios,   \* what the program does: its calls, the time its symbols come, whether its
               \* modules have names, masked goroutines, and the times at which the viewer
               \* may look (bound)
  MaxPending,  \* goroutines that wait for the UI thread (bound)
  MaxInputs    \* keys pressed and requests that fail (bound)

ASSUME ViewerAssumption ==
  /\ MaxInputs \in Nat /\ MaxPending \in Nat \ {0, 1}
  /\ \A s \in Scenarios : \A i \in DOMAIN s.calls : s.calls[i].EndTime > s.calls[i].StartTime

VARIABLES
  scenario, now,  \* the program, and the time up to which the server knows it
  inputs,         \* the keys and failures so far
  ui,             \* "run", "quit", or "panic"
  vms,            \* the view models that were set; the last one is UICoordinator.vm
  cache,          \* the symbols in the cache of each view model's client
  upd,            \* for each view model, its first Update() and the one in its updateWorker
  pending,        \* views in goroutines that wait for the UI thread
  screen

vars == <<scenario, now, inputs, ui, vms, cache, upd, pending, screen>>

None == -1
Workers == {"first", "tick"}

\* The log of scenario s as the server tells it at time t. The graph leaves out the
\* calls of goroutines that are masked.
CallsAt(s, t) ==
  {[ID |-> i - 1, GID |-> s.calls[i].GID, StartTime |-> s.calls[i].StartTime,
    EndTime |-> IF s.calls[i].EndTime <= t THEN s.calls[i].EndTime ELSE NotEnded] :
      i \in {i \in DOMAIN s.calls : s.calls[i].StartTime <= t}}

Unmasked(s, t) == {fc \in CallsAt(s, t) : fc.GID \notin s.masked}

GoroutinesAt(s, t) ==
  LET calls(gid) == {fc \in CallsAt(s, t) : fc.GID = gid}
  IN [gid \in {fc.GID : fc \in CallsAt(s, t)} |->
        [StartTime |-> Min({fc.StartTime : fc \in calls(gid)}),
         EndTime |-> IF \A fc \in calls(gid) : IsEnded(fc) THEN Max({fc.EndTime : fc \in calls(gid)})
                     ELSE NotEnded]]

\* Whether buildLines panics on the calls of time r and the goroutines of time g.
BuildPanics ==
  [s \in Scenarios |-> [r \in s.times, g \in s.times |->
     ~Asserted(SortRecords(Unmasked(s, r)), GoroutinesAt(s, g))]]

SymbolsAt(t) == IF t >= scenario.symbols THEN "full" ELSE "empty"

-----------------------------------------------------------------------------
(* View models and views *)

Loading == [loaded |-> FALSE, err |-> "none", recs |-> None,
            sel |-> None, mode |-> "manual", offsetX |-> 0, offsetY |-> 0]

NoView == [gen |-> 0, state |-> Loading]

\* The IDs of records start at 0, which is also the ID that is selected at first.
NewVM(kind, rec) ==
  [kind |-> kind, rec |-> rec, view |-> NoView,
   state |-> [Loading EXCEPT !.sel = IF kind = "record" THEN 0 ELSE None]]

cur == Len(vms)
Canceled(g) == g # cur

\* View(): the snapshot that was made last, or a new one.
View(g, vm) == IF vm.view = NoView THEN [gen |-> g, state |-> vm.state] ELSE vm.view

\* What Update() still has to fetch. The goroutines of the graph, and its calls with the
\* log's information before them, are two requests; every other view model shows the
\* answer of one, beside the symbols.
Parts(kind) == IF kind = "graph" THEN {"records", "goroutines"} ELSE {"records"}

Idle == [pc |-> "idle", todo |-> {}, err |-> "none", recs |-> None, gos |-> None]
Fetching(kind) == [Idle EXCEPT !.pc = "fetch", !.todo = Parts(kind)]

(***************************************************************************)
(* A view model is left: its context is cancelled and its requests fail.   *)
(* Nobody calls its View() any more, so what its Update()s store is not    *)
(* looked at again, and the model takes it to be the error at once; they   *)
(* still notify the coordinator.                                           *)
(***************************************************************************)
LeftVM(vm) == [vm EXCEPT !.state = [Loading EXCEPT !.loaded = TRUE, !.err = "canceled"], !.view = NoView]

LeftUpdate(u) == IF u.pc \in {"fetch", "store"} THEN [Idle EXCEPT !.pc = "notify"] ELSE u

\* setView: a goroutine is started that will show the view.
setView(p, view) == BagAdd(p, view)
Room(n) == BagCardinality(pending) + n <= MaxPending

Running == ui = "run"
Input == inputs < MaxInputs /\ inputs' = inputs + 1

\* The process is gone.
End(how) ==
  /\ ui' = how
  /\ vms' = <<>> /\ cache' = <<>> /\ upd' = <<>> /\ pending' = EmptyBag /\ screen' = NoView

-----------------------------------------------------------------------------
(* UICoordinator *)

\* setVM: the context of the old view model is cancelled, the new one is shown
\* while it loads, and its first Update() and its updateWorker are started.
setVM(kind, rec) ==
  LET vm == NewVM(kind, rec)
      view == View(cur + 1, vm)
  IN /\ Room(1)
     /\ vms' = Append([g \in DOMAIN vms |-> LeftVM(vms[g])], [vm EXCEPT !.view = view])
     /\ cache' = Append([g \in DOMAIN vms |-> "none"], "none")
     /\ upd' = Append([g \in DOMAIN vms |-> [w \in Workers |-> LeftUpdate(upd[g][w])]],
                      [w \in Workers |-> IF w = "first" THEN Fetching(kind) ELSE [Idle EXCEPT !.pc = "wait"]])
     /\ pending' = setView(pending, view)

\* SetState: which view model a state asks for.
SetState(s) ==
  IF s.log = None THEN setVM("list", None)
  ELSE IF s.record # 0 THEN setVM("detail", s.record)
  ELSE IF s.graph THEN setVM("graph", None)
  ELSE setVM("record", None)

UIState(log, record, graph) == [log |-> log, record |-> record, graph |-> graph]

Init ==
  /\ scenario \in Scenarios
  /\ now = Min(scenario.times)
  /\ inputs = 0 /\ ui = "run"
  /\ vms = <<>> /\ cache = <<>> /\ upd = <<>>
  /\ pending = EmptyBag /\ screen = NoView

\* Run: the list comes first. A viewer that was led on from there, where the
\* goroutines of the other view models have ended, is in the same state as one that
\* begins with another view model.
Run ==
  /\ Running /\ vms = <<>>
  /\ \/ SetState(UIState(None, 0, FALSE))
     \/ \E rec \in {fc.ID : fc \in CallsAt(scenario, now)}, graph \in BOOLEAN : SetState(UIState(1, rec, graph))
  /\ UNCHANGED <<scenario, now, inputs, ui, screen>>

\* Seeded bug: the view of the view model that was updated is shown.
Notified_Own(g, models, p) ==
  /\ vms' = [models EXCEPT ![g].view = View(g, models[g])]
  /\ pending' = setView(p, View(g, models[g]))

\* NotifyVMUpdated, called by view model g, whose change has made the view models
\* what they are in models: the current one is shown.
Notified(g, models, p) ==
  /\ vms' = [models EXCEPT ![cur].view = View(cur, models[cur])]
  /\ pending' = setView(p, View(cur, models[cur]))

\* A goroutine of setView gets the UI thread: widget, key bindings and focus are
\* those of the view.
Show ==
  /\ Running
  /\ \E view \in BagToSet(pending) : screen' = view /\ pending' = BagRemove(pending, view)
  /\ UNCHANGED <<scenario, now, inputs, ui, vms, cache, upd>>

-----------------------------------------------------------------------------
(* Update() of view model g: w is "first", or "tick" in the updateWorker *)

\* The ticker's select may choose the timer although the context is done. The
\* record list calls View() for its size. FuncLogDetailVM updates only once (updateOnce).
Tick(g) ==
  /\ Running /\ upd[g].tick.pc = "wait" /\ vms[g].kind # "detail"
  /\ upd' = [upd EXCEPT ![g].tick = IF Canceled(g) THEN [Idle EXCEPT !.pc = "notify"] ELSE Fetching(vms[g].kind)]
  /\ vms' = IF vms[g].kind = "record" /\ ~Canceled(g) THEN [vms EXCEPT ![g].view = View(g, vms[g])] ELSE vms
  /\ UNCHANGED <<scenario, now, inputs, ui, cache, pending, screen>>

StopTicking(g) ==
  /\ Running /\ upd[g].tick.pc = "wait" /\ Canceled(g)
  /\ upd' = [upd EXCEPT ![g].tick = Idle]
  /\ UNCHANGED <<scenario, now, inputs, ui, vms, cache, pending, screen>>

\* Symbols() of the client asks the server only while the cache has no table. The
\* record list keeps the table for its names; the graph's client is a new one each time.
Symbols(g) ==
  CASE vms[g].kind \in {"list", "graph"} -> "none"
    [] cache[g] # "none" -> cache[g]
    [] OTHER -> SymbolsAt(now)

\* GoModule, GoFunc and GoLine of each frame: without symbols they find nothing.
Looked(g, u) ==
  IF vms[g].kind = "detail" /\ Symbols(g) = "empty" THEN [u EXCEPT !.err = "not found"] ELSE u

\* validateGoModule panics on a module that was found and has no name.
IsNameless(g) == vms[g].kind = "detail" /\ Symbols(g) = "full" /\ ~scenario.named

LookupPanics(g, w) ==
  /\ Running /\ upd[g][w].pc = "fetch" /\ IsNameless(g)
  /\ End("panic")
  /\ UNCHANGED <<scenario, now, inputs>>

\* One of the goroutines of a fetch ends.
Fetch(g, w) ==
  LET u == upd[g][w]
      rest(part) == [u EXCEPT !.todo = @ \ {part}, !.pc = IF u.todo = {part} THEN "store" ELSE @]
  IN
  /\ Running /\ u.pc = "fetch"
  /\ \E part \in u.todo :
       \/ /\ ~IsNameless(g)
          /\ upd' = [upd EXCEPT ![g][w] =
                       IF part = "goroutines" THEN [rest(part) EXCEPT !.gos = now]
                       ELSE Looked(g, [rest(part) EXCEPT !.recs = now])]
          /\ cache' = [cache EXCEPT ![g] = Symbols(g)]
          /\ UNCHANGED inputs
       \/ /\ Input
          /\ upd' = [upd EXCEPT ![g][w] = [rest(part) EXCEPT !.err = "failed"]]
          /\ UNCHANGED cache
  /\ UNCHANGED <<scenario, now, ui, vms, pending, screen>>

\* GoModule, GoFunc and GoLine have value receivers: each call locks a copy of the
\* cache's mutex, but the map is shared. The lookups of a detail view that find no table
\* write it at once, which the runtime may notice and end the process.
MapRace(g) ==
  /\ Running /\ vms[g].kind = "detail" /\ cache[g] = "none" /\ upd[g].first.pc = "fetch"
  /\ End("panic")
  /\ UNCHANGED <<scenario, now, inputs>>

\* Seeded bug: the view that was made before is kept.
Stored_KeepsView(vm, u) ==
  LET data == IF u.err = "none" THEN u ELSE Idle
  IN [vm EXCEPT !.state.loaded = TRUE, !.state.err = u.err, !.state.recs = data.recs]

\* The state after an Update(): what was fetched, which no view shows after an error.
\* What the user has chosen stays.
Stored(vm, u) ==
  LET data == IF u.err = "none" THEN u ELSE Idle
  IN [vm EXCEPT !.view = NoView, !.state.loaded = TRUE, !.state.err = u.err,
                !.state.recs = data.recs]

\* GraphVM builds its lines before it takes the lock; buildLines may panic.
Store(g, w) ==
  LET u == upd[g][w] IN
  /\ Running /\ u.pc = "store"
  /\ IF vms[g].kind = "graph" /\ u.err = "none" /\ BuildPanics[scenario][u.recs, u.gos]
     THEN End("panic")
     ELSE /\ vms' = [vms EXCEPT ![g] = Stored(@, u)]
          /\ upd' = [upd EXCEPT ![g][w] = [Idle EXCEPT !.pc = "notify"]]
          /\ UNCHANGED <<ui, cache, pending, screen>>
  /\ UNCHANGED <<scenario, now, inputs>>

Notify(g, w) ==
  /\ Running /\ upd[g][w].pc = "notify" /\ Room(1)
  /\ Notified(g, vms, pending)
  /\ upd' = [upd EXCEPT ![g][w] = [Idle EXCEPT !.pc = IF w = "tick" THEN "wait" ELSE "idle"]]
  /\ UNCHANGED <<scenario, now, inputs, ui, cache, screen>>

-----------------------------------------------------------------------------
(* Keys. They are bound to the view on the screen, which may be an old one.  *)

Pressed == Running /\ screen # NoView /\ Input

kindOf(v) == vms[v.gen].kind

\* init() makes a table only for data.
HasTable(v) == v.state.loaded /\ v.state.err = "none"

\* The rows of a table: the log of the list, or the calls.
Rows(v) == IF kindOf(v) = "list" THEN {1} ELSE {fc.ID : fc \in CallsAt(scenario, v.state.recs)}

\* onActivatedLog and onActivatedRecord ask the table for the selected row; the
\* loading and the error view have none.
Activate ==
  /\ Pressed /\ kindOf(screen) \in {"list", "record"}
  /\ IF ~HasTable(screen)
     THEN End("panic")
     ELSE /\ screen.state.sel \in Rows(screen)
          /\ SetState(UIState(1, IF kindOf(screen) = "list" THEN 0 ELSE screen.state.sel, FALSE))
          /\ UNCHANGED <<ui, screen>>
  /\ UNCHANGED <<scenario, now>>

\* onSelectionChanged of the table, the view and the view model.
Select ==
  /\ Pressed /\ kindOf(screen) \in {"list", "record"} /\ HasTable(screen)
  /\ Room(1)
  /\ \E id \in Rows(screen) \ {screen.state.sel} :
       Notified(screen.gen, [vms EXCEPT ![screen.gen].state.sel = id, ![screen.gen].view = NoView], pending)
  /\ UNCHANGED <<scenario, now, ui, cache, upd, screen>>

\* onUnselectedLog, onUnselectedRecord, onGoback.
Back ==
  /\ Pressed /\ kindOf(screen) # "list"
  /\ SetState(UIState(IF kindOf(screen) = "record" THEN None ELSE 1, 0, FALSE))
  /\ UNCHANGED <<scenario, now, ui, screen>>

UseGraph ==
  /\ Pressed /\ kindOf(screen) = "record"
  /\ SetState(UIState(1, 0, TRUE))
  /\ UNCHANGED <<scenario, now, ui, screen>>

\* onChangedScrollMode
AutoScroll ==
  /\ Pressed /\ kindOf(screen) = "graph" /\ Room(1)
  /\ Notified(screen.gen, [vms EXCEPT ![screen.gen].state.mode = "auto", ![screen.gen].view = NoView], pending)
  /\ UNCHANGED <<scenario, now, ui, cache, upd, screen>>

\* onChangedOffset: UpdateOffset never makes an offset positive.
ChangeOffset(vm, dx, dy) ==
  [vm EXCEPT !.view = NoView, !.state.offsetX = Min({0, @ + dx}), !.state.offsetY = Min({0, @ + dy})]

\* Left and right: onChangedScrollMode, then onChangedOffset.
ScrollX(dx) ==
  LET g == screen.gen
      manual == [vms EXCEPT ![g].state.mode = "manual", ![g].view = NoView]
      shown == [manual EXCEPT ![cur].view = View(cur, manual[cur])]
  IN /\ Pressed /\ kindOf(screen) = "graph" /\ Room(2)
     /\ Notified(g, [shown EXCEPT ![g] = ChangeOffset(@, dx, 0)], setView(pending, shown[cur].view))
     /\ UNCHANGED <<scenario, now, ui, cache, upd, screen>>

\* Up and down keep the mode.
ScrollY(dy) ==
  /\ Pressed /\ kindOf(screen) = "graph" /\ Room(1)
  /\ Notified(screen.gen, [vms EXCEPT ![screen.gen] = ChangeOffset(@, 0, dy)], pending)
  /\ UNCHANGED <<scenario, now, ui, cache, upd, screen>>

\* Run() returns and the command ends.
Quit ==
  /\ Pressed
  /\ End("quit")
  /\ UNCHANGED <<scenario, now>>

Key == Activate \/ Select \/ Back \/ UseGraph \/ AutoScroll \/ (\E d \in {-1, 1} : ScrollX(d) \/ ScrollY(d)) \/ Quit

-----------------------------------------------------------------------------
\* The program that is traced goes on.
Event ==
  /\ Running /\ now # Max(scenario.times)
  /\ now' = Min({t \in scenario.times : t > now})
  /\ UNCHANGED <<scenario, inputs, ui, vms, cache, upd, pending, screen>>

Step(g, w) == Fetch(g, w) \/ LookupPanics(g, w) \/ Store(g, w) \/ Notify(g, w)

FirstUpdate == cur > 0 /\ Step(cur, "first")
Worker == cur > 0 /\ (Tick(cur) \/ Step(cur, "tick"))
OldUpdates == \E g \in 1 .. cur - 1 : \E w \in Workers : Step(g, w)
OldWorkerStops == \E g \in 1 .. cur - 1 : StopTicking(g)

Next ==
  \/ Run
  \/ Show
  \/ \E g \in DOMAIN vms : Tick(g) \/ StopTicking(g) \/ MapRace(g) \/ \E w \in Workers : Step(g, w)
  \/ Key
  \/ Event

(***************************************************************************)
(* Goroutines that can run do run, and requests are answered or fail. A    *)
(* goroutine waiting for the UI thread gets it. An updateWorker that is    *)
(* asked to stop again and again does (Go's select is random). Nothing     *)
(* forces keys, events or failures.                                        *)
(***************************************************************************)
Fairness ==
  /\ WF_vars(Run) /\ WF_vars(Show)
  /\ SF_vars(FirstUpdate) /\ SF_vars(Worker)
  /\ SF_vars(OldUpdates) /\ SF_vars(OldWorkerStops)

Spec == Init /\ [][Next]_vars /\ Fairness

-----------------------------------------------------------------------------
Views == BagToSet(pending) \cup {screen}

TypeOK ==
  /\ scenario \in Scenarios /\ now \in scenario.times /\ ui \in {"run", "quit", "panic"}
  /\ inputs \in 0 .. MaxInputs
  /\ Len(vms) = Len(cache) /\ Len(vms) = Len(upd) /\ Len(vms) <= MaxInputs + 1
  /\ \A v \in Views : v.gen \in 0 .. Len(vms) /\ v.state.offsetX <= 0 /\ v.state.offsetY <= 0

\* The end of a view model's context is never shown as an error: the Update() of a
\* view model that was left sees its requests fail, stores that and notifies, and the
\* coordinator shows the current view model all the same (SetState, setVM,
\* NotifyVMUpdated). The details of a call are shown only with all their names,
\* although each lookup is a request of its own (FuncLogDetailVM.Update).
NoForeignErrors ==
  /\ TypeOK
  /\ \A v \in Views : v.state.err # "canceled"
  /\ \A v \in Views \ {NoView} :
       (kindOf(v) = "detail" /\ HasTable(v)) => Canceled(v.gen) \/ cache[v.gen] = "full"


\* The screen follows: in the end it shows the view model that was asked for last,
\* with what the server knows and what the user has chosen, although views reach the UI
\* thread in any order and Update()s overlap; and no updateWorker of a view model that
\* was left is still running. (The details of a call are fetched only once.)
ScreenFollows ==
  <>[](Running =>
         /\ vms # <<>>
         /\ vms[cur].kind # "detail" =>
              /\ screen.gen = cur /\ screen.state = vms[cur].state
              /\ screen.state.recs = now /\ screen.state.err = "none"
         /\ \A g \in 1 .. cur - 1 : upd[g].tick.pc = "idle")
=============================================================================
