----------------------------- MODULE LogServer ------------------------------
(***************************************************************************)
(* One established connection of the log server: the connection handler    *)
(* puts what it receives into the worker's channel (cmd/server_run.go),    *)
(* the worker drains it, and API requests read the log while it grows      *)
(* (readFuncLog of tracer/restapi/handlers.go): first the FuncLog store,   *)
(* under its lock, then the simulator, for the calls not stored yet.       *)
(*                                                                         *)
(* The store's mutex has no owner, as in Go. Log.Open() replaces the whole *)
(* store, mutex included, so a request that locked the old one unlocks the *)
(* new one; unlocking a mutex that is not locked, and using a store that   *)
(* is not open yet, end the process.                                       *)
(***************************************************************************)
EXTENDS TracedApp, LogWriteWorker, FiniteSets

CONSTANTS
  Reader,  \* API requests
  ChanCap  \* capacity of the worker's channel (128 in the code)

ASSUME ChanCapAssumption == ChanCap \in Nat \ {0}

VARIABLES
  connected,    \* the connection is up and its channel open
  ch,           \* the worker's channel
  seen,         \* history: the traced process as the simulator has seen it, and
                \* as it will after each of the objects in the channel
  symbols,      \* the log has its symbols
  storeStatus,  \* of the FuncLog store: "open", "closed", or "blank"
  storeLocked,  \* its mutex is locked
  rpc,          \* rpc[r]: where request r is
  rNext,        \* the next record it reads
  rMax,         \* the number of records it found in the store
  rSent,        \* FuncLogID |-> FuncLog that it has passed on
  rFloor,       \* the number of calls recorded when it started
  rCut,         \* it has found its context done (client gone, enough records)
  crashed       \* a fatal error ended the server process

readVars == <<rpc, rNext, rMax, rSent, rFloor, rCut>>
srvVars == <<connected, ch, seen, symbols, storeStatus, storeLocked, readVars, crashed>>
vars == <<appVars, simVars, workerVars, srvVars>>

Symbols == [Tag |-> "Symbols"]

\* The traced process
App == [callStack |-> callStack, usedTx |-> usedTx, lastTime |-> lastTime]

RPC == {"idle", "reading", "simulator", "snapshot", "done", "error"}

Init ==
  /\ AppInit
  /\ WorkerInit
  /\ connected = TRUE
  /\ ch = <<Symbols>>  \* init() of the logger sends the symbols first
  /\ seen = <<App, App>>
  /\ symbols = FALSE
  /\ storeStatus = "open"
  /\ storeLocked = FALSE
  /\ rpc = [r \in Reader |-> "idle"]
  /\ rNext = [r \in Reader |-> 0]
  /\ rMax = [r \in Reader |-> 0]
  /\ rSent = [r \in Reader |-> EmptyMap]
  /\ rFloor = [r \in Reader |-> 0]
  /\ rCut = [r \in Reader |-> FALSE]
  /\ crashed = FALSE

-----------------------------------------------------------------------------
(* Connection handler. A full channel blocks it. *)

\* Seeded bug: an event that finds the channel full is lost.
Deliver_Drops(raw) ==
  /\ connected
  /\ ch' = IF Len(ch) < ChanCap THEN Append(ch, raw) ELSE ch
  /\ seen' = IF Len(ch) < ChanCap THEN Append(seen, App') ELSE seen
  /\ UNCHANGED <<simVars, workerVars, connected, symbols, storeStatus, storeLocked, readVars,
                 crashed>>

Deliver(raw) ==
  /\ connected
  /\ Len(ch) < ChanCap
  /\ ch' = Append(ch, raw)
  /\ seen' = Append(seen, App')
  /\ UNCHANGED <<simVars, workerVars, connected, symbols, storeStatus, storeLocked, readVars,
                 crashed>>

Start(g, tx, ts) == EnterCall(g, tx, ts) /\ Deliver(StartEvent(g, tx, ts))

End(g, ts) == LeaveCall(g, ts) /\ Deliver(EndEvent(g, ts))

Disconnected ==
  /\ connected
  /\ connected' = FALSE
  /\ UNCHANGED <<appVars, simVars, workerVars, ch, seen, symbols, storeStatus, storeLocked, readVars,
                 crashed>>

-----------------------------------------------------------------------------
(* Worker *)

RecvRaw ==
  /\ ch # <<>>
  /\ Head(ch).Tag # "Symbols"
  /\ ProcessRaw(Head(ch))
  /\ ch' = Tail(ch)
  /\ seen' = Tail(seen)
  /\ UNCHANGED <<appVars, connected, symbols, storeStatus, storeLocked, readVars, crashed>>

RecvSymbols ==
  /\ ch # <<>>
  /\ Head(ch).Tag = "Symbols"
  /\ TakeSymbols
  /\ symbols' = TRUE
  /\ ch' = Tail(ch)
  /\ seen' = Tail(seen)
  /\ UNCHANGED <<appVars, connected, storeStatus, storeLocked, readVars, crashed>>

FindEmpty == ch = <<>> /\ Idle /\ UNCHANGED <<appVars, srvVars>>

RecvTick == Tick /\ UNCHANGED <<appVars, srvVars>>

\* Seeded bug: the worker stops although its channel holds events.
RecvClosed_NoDrain == ~connected /\ Stop /\ UNCHANGED <<appVars, srvVars>>

RecvClosed == ~connected /\ ch = <<>> /\ Stop /\ UNCHANGED <<appVars, srvVars>>

\* The steps that do not touch the FuncLog store.
Proceed ==
  /\ NewSimulator \/ WriteGoroutines \/ ClearSimulator \/ DeleteSimulator
  /\ UNCHANGED <<appVars, srvVars>>

SaveFuncLogs == ~storeLocked /\ WriteFuncLogs /\ UNCHANGED <<appVars, srvVars>>

CloseStore ==
  /\ ~storeLocked
  /\ CloseLog
  /\ storeStatus' = "closed"
  /\ UNCHANGED <<appVars, connected, ch, seen, symbols, storeLocked, readVars, crashed>>

\* l.funcLog = FuncLogStore{...}
ReplaceStore ==
  /\ pc = "reopen"
  /\ storeStatus = "closed"
  /\ storeStatus' = "blank"
  /\ storeLocked' = FALSE
  /\ UNCHANGED <<appVars, simVars, workerVars, connected, ch, seen, symbols, readVars, crashed>>

\* l.funcLog.Open(), which locks the new mutex
OpenStore ==
  /\ storeStatus = "blank"
  /\ ~storeLocked
  /\ ReopenLog
  /\ storeStatus' = "open"
  /\ UNCHANGED <<appVars, connected, ch, seen, symbols, storeLocked, readVars, crashed>>

WorkerNext ==
  \/ RecvRaw \/ RecvSymbols \/ FindEmpty \/ RecvTick \/ RecvClosed
  \/ Proceed \/ SaveFuncLogs \/ CloseStore \/ ReplaceStore \/ OpenStore

-----------------------------------------------------------------------------
(* API request r: readFuncLog with minId and maxId negative *)

\* The number of records of the store: the largest index written, plus one.
Records == IF storeStatus = "blank" THEN 0 ELSE Cardinality(DOMAIN funcStore)

LockStore(r) ==
  /\ rpc[r] = "idle"
  /\ ~storeLocked
  /\ storeLocked' = TRUE
  /\ rpc' = [rpc EXCEPT ![r] = "reading"]
  /\ rMax' = [rMax EXCEPT ![r] = Records]
  /\ rFloor' = [rFloor EXCEPT ![r] = nextID]
  /\ UNCHANGED <<appVars, simVars, workerVars, connected, ch, seen, symbols, storeStatus, rNext, rSent,
                 rCut, crashed>>

\* The deferred Unlock().
UnlockStore(r, next, cut) ==
  /\ rpc' = [rpc EXCEPT ![r] = next]
  /\ rCut' = [rCut EXCEPT ![r] = cut]
  /\ storeLocked' = FALSE
  /\ crashed' = ~storeLocked
  /\ UNCHANGED <<appVars, simVars, workerVars, connected, ch, seen, symbols, storeStatus, rNext, rMax,
                 rSent, rFloor>>

\* A closed store still answers from its read buffer.
ReadRecord(r) ==
  /\ rpc[r] = "reading"
  /\ rNext[r] < rMax[r]
  /\ storeStatus # "blank"
  /\ rSent' = [rSent EXCEPT ![r] = With(@, rNext[r], funcStore[rNext[r]])]
  /\ rNext' = [rNext EXCEPT ![r] = @ + 1]
  /\ UNCHANGED <<appVars, simVars, workerVars, connected, ch, seen, symbols, storeStatus, storeLocked,
                 rpc, rMax, rFloor, rCut, crashed>>

ReadFails(r) ==
  /\ rpc[r] = "reading"
  /\ rNext[r] < rMax[r]
  /\ storeStatus = "closed"
  /\ UnlockStore(r, "error", FALSE)

\* ReadBuffer.Read() of a store that has no buffer yet panics.
ReadPanics(r) ==
  /\ rpc[r] = "reading"
  /\ rNext[r] < rMax[r]
  /\ storeStatus = "blank"
  /\ crashed' = TRUE
  /\ UNCHANGED <<appVars, simVars, workerVars, connected, ch, seen, symbols, storeStatus, storeLocked,
                 readVars>>

\* Seeded bugs: the early return, or the normal one, does not unlock the store.
GiveUp_KeepsLock(r) ==
  /\ rpc[r] = "reading"
  /\ rNext[r] < rMax[r]
  /\ rpc' = [rpc EXCEPT ![r] = "simulator"]
  /\ rCut' = [rCut EXCEPT ![r] = TRUE]
  /\ UNCHANGED <<appVars, simVars, workerVars, connected, ch, seen, symbols, storeStatus, storeLocked,
                 rNext, rMax, rSent, rFloor, crashed>>

FinishStore_KeepsLock(r) ==
  /\ rpc[r] = "reading"
  /\ rNext[r] >= rMax[r]
  /\ rpc' = [rpc EXCEPT ![r] = "simulator"]
  /\ UNCHANGED <<appVars, simVars, workerVars, connected, ch, seen, symbols, storeStatus, storeLocked,
                 rNext, rMax, rSent, rFloor, rCut, crashed>>

\* readCtx is done, and the record is not passed on. The closure returns
\* without an error, so the request goes on to the simulator all the same.
GiveUp(r) ==
  /\ rpc[r] = "reading"
  /\ rNext[r] < rMax[r]
  /\ storeStatus # "blank"
  /\ UnlockStore(r, "simulator", TRUE)

FinishStore(r) ==
  /\ rpc[r] = "reading"
  /\ rNext[r] >= rMax[r]
  /\ UnlockStore(r, "simulator", FALSE)

GetSimulator(r) ==
  /\ rpc[r] = "simulator"
  /\ rpc' = [rpc EXCEPT ![r] = IF registered THEN "snapshot" ELSE "done"]
  /\ UNCHANGED <<appVars, simVars, workerVars, connected, ch, seen, symbols, storeStatus, storeLocked,
                 rNext, rMax, rSent, rFloor, rCut, crashed>>

\* Seeded bug: the call whose ID is the number of stored records is skipped.
ReadSimulator_SkipsOne(r) ==
  /\ rpc[r] = "snapshot"
  /\ rpc' = [rpc EXCEPT ![r] = "done"]
  /\ rSent' = [rSent EXCEPT ![r] =
       Merge(@, Restrict(funcLogs, {id \in DOMAIN funcLogs : id > rMax[r]}))]
  /\ UNCHANGED <<appVars, simVars, workerVars, connected, ch, seen, symbols, storeStatus, storeLocked,
                 rNext, rMax, rFloor, rCut, crashed>>

\* The calls below rMax are skipped: they are believed to be sent already.
\* Each of the others is sent unless the context is found done.
ReadSimulator(r) ==
  LET rest == {id \in DOMAIN funcLogs : id >= rMax[r]} IN
  /\ rpc[r] = "snapshot"
  /\ rpc' = [rpc EXCEPT ![r] = "done"]
  /\ \E sent \in SUBSET rest :
       /\ rSent' = [rSent EXCEPT ![r] = Merge(@, Restrict(funcLogs, sent))]
       /\ rCut' = [rCut EXCEPT ![r] = @ \/ sent # rest]
  /\ UNCHANGED <<appVars, simVars, workerVars, connected, ch, seen, symbols, storeStatus, storeLocked,
                 rNext, rMax, rFloor, crashed>>

ReaderNext(r) ==
  \/ LockStore(r) \/ ReadRecord(r) \/ ReadFails(r) \/ ReadPanics(r) \/ GiveUp(r)
  \/ FinishStore(r) \/ GetSimulator(r) \/ ReadSimulator(r)

-----------------------------------------------------------------------------
Next ==
  /\ ~crashed
  /\ \/ \E g \in GID, tx \in TxID, ts \in Time : Start(g, tx, ts)
     \/ \E g \in GID, ts \in Time : End(g, ts)
     \/ Disconnected
     \/ WorkerNext
     \/ \E r \in Reader : ReaderNext(r)

(***************************************************************************)
(* Every goroutine of the server that can run is eventually run, and a     *)
(* request that holds the store has a client that reads its answer or goes *)
(* away. The select statement of the worker chooses at random among the    *)
(* cases that are ready, so it takes the closed channel at last although   *)
(* the ticker fires again and again. Nothing forces a process to call, to  *)
(* return or to disconnect, nor a client to send a request.                *)
(***************************************************************************)
Fairness ==
  /\ WF_vars(~crashed /\ WorkerNext)
  /\ SF_vars(~crashed /\ RecvClosed)
  /\ \A r \in Reader : WF_vars(~crashed /\ rpc[r] # "idle" /\ ReaderNext(r))

Spec == Init /\ [][Next]_vars /\ Fairness

-----------------------------------------------------------------------------
Recording == INSTANCE TraceRecording

TypeOK ==
  /\ Recording!TypeOK
  /\ connected \in BOOLEAN
  /\ ch \in Seq(RawFuncLog \cup {Symbols}) /\ Len(ch) <= ChanCap
  /\ symbols \in BOOLEAN
  /\ storeStatus \in {"open", "closed", "blank"}
  /\ storeLocked \in BOOLEAN
  /\ rpc \in [Reader -> RPC]
  /\ rNext \in [Reader -> Nat] /\ rMax \in [Reader -> Nat] /\ rFloor \in [Reader -> Nat]
  /\ DOMAIN rSent = Reader /\ \A r \in Reader : IsMap(rSent[r], Nat, FuncLog)
  /\ rCut \in [Reader -> BOOLEAN]
  /\ crashed \in BOOLEAN

\* The channel holds exactly what the simulator has yet to see: when it is
\* empty the simulator mirrors the traced process, and the next event in it
\* never makes the simulator panic.
ChannelKeepsSimulatorInStep ==
  /\ TypeOK
  /\ ch = <<>> => Recording!StackMirrorsApp
  /\ (ch # <<>> /\ Head(ch).Tag # "Symbols") => ~NextPanics(Head(ch))

\* Once Run() has returned the log holds every call whose event was received:
\* closing the channel loses nothing that was queued in it.
ClosedLogIsComplete ==
  pc = "done" => ch = <<>> /\ Recording!StackMirrorsApp /\ Recording!ClosedLogIsComplete

\* What a request passes on was recorded: the call is in the ledger, with the
\* same start, parent and goroutine, and it is not reported as ended unless it
\* has ended, at that time. A request that ends normally without an error has
\* passed on every stored record it counted, and every call that was running when
\* the request began and is running still; unless it ran into the reopening of the
\* log. What it can miss are calls that ended: they may be written and cleared
\* between its reading of the store and of the simulator.
ReadersTellTheTruth ==
  \A r \in Reader :
    /\ \A id \in DOMAIN rSent[r] :
         /\ id < nextID
         /\ rSent[r][id] \in {Recording!Ledger[id], [Recording!Ledger[id] EXCEPT !.EndTime = NotEnded]}
    /\ rpc[r] = "done" /\ ~rCut[r] =>
         /\ 0 .. rMax[r] - 1 \subseteq DOMAIN rSent[r]
         /\ registered =>
              \A id \in DOMAIN funcLogs : id < rFloor[r] /\ ~IsEnded(funcLogs[id]) => id \in DOMAIN rSent[r]

\* "close()されたら、workerは終了するべき" (server_run.go): after a disconnect
\* the worker drains its channel, saves, closes and reopens the log.
WorkerTerminates == ~connected ~> (pc = "done" \/ crashed)

\* A call that has ended reaches the FuncLog store, however the ticks, the
\* events and the requests interleave.
EndedCallsGetSaved ==
  \A id \in 0 .. Cardinality(TxID) - 1 :
    (id \in DOMAIN funcLogs /\ IsEnded(funcLogs[id]))
      ~> ((id \in DOMAIN funcStore /\ IsEnded(funcStore[id])) \/ crashed)

-----------------------------------------------------------------------------
(***************************************************************************)
(* The inductive invariant. The simulator and the stores are in step with  *)
(* the process as seen[1] shows it: the channel in between can be left out *)
(* of the recording (Seen), and what was proved of it there holds here.    *)
(***************************************************************************)
Seen == INSTANCE TraceRecording WITH callStack <- seen[1].callStack, usedTx <- seen[1].usedTx, lastTime <- seen[1].lastTime

\* The server with its channel and its requests records as TraceRecording does.
ImplementsRecording == Seen!Spec

AppState == [callStack : [GID -> Seq(TxID)], usedTx : SUBSET TxID, lastTime : [GID -> Nat]]

\* Goroutine g enters call tx: from process state a to b, with event e.
Entered(g, tx, ts, a, e, b) ==
  /\ tx \notin a.usedTx /\ ts >= a.lastTime[g]
  /\ e = [Tag |-> FuncStart, Timestamp |-> ts, Frames |-> Append(a.callStack[g], tx), GID |-> g, TxID |-> tx]
  /\ b = [callStack |-> [a.callStack EXCEPT ![g] = Append(@, tx)], usedTx |-> a.usedTx \cup {tx},
          lastTime |-> [a.lastTime EXCEPT ![g] = ts]]

\* Goroutine g leaves its innermost call.
Left(g, ts, a, e, b) ==
  /\ a.callStack[g] # <<>> /\ ts >= a.lastTime[g]
  /\ e = [Tag |-> FuncEnd, Timestamp |-> ts, Frames |-> a.callStack[g], GID |-> g,
          TxID |-> a.callStack[g][Len(a.callStack[g])]]
  /\ b = [callStack |-> [a.callStack EXCEPT ![g] = SubSeq(@, 1, Len(@) - 1)], usedTx |-> a.usedTx,
          lastTime |-> [a.lastTime EXCEPT ![g] = ts]]

Happened(a, e, b) ==
  \/ e = Symbols /\ b = a
  \/ \E g \in GID, tx \in TxID, ts \in Time : Entered(g, tx, ts, a, e, b)
  \/ \E g \in GID, ts \in Time : Left(g, ts, a, e, b)

\* What is in the channel leads from what the simulator has seen to the process
\* as it is now.
ChannelIsTheDifference ==
  /\ seen \in Seq(AppState) /\ Len(seen) = Len(ch) + 1
  /\ seen[Len(ch) + 1] = App
  /\ \A i \in 1 .. Len(ch) : Happened(seen[i], ch[i], seen[i + 1])

\* The worker leaves its loop for good when the channel is closed and empty, and
\* the simulator can be found in the store from the first event to the last write.
WorkerLife ==
  /\ closing => ~connected /\ ch = <<>>
  /\ pc \in {"delete", "close", "reopen", "done"} => closing
  /\ registered <=> pc \notin {"new", "close", "reopen", "done"}
  /\ pc = "new" => nextID = 0

\* The store holds the first calls, each as it is in the ledger or as it was before
\* it ended.
Versions(fl) == {fl, [fl EXCEPT !.EndTime = NotEnded]}
StoreIsPast ==
  /\ \E n \in 0 .. nextID : DOMAIN funcStore = 0 .. n - 1
  /\ \A id \in DOMAIN funcStore : funcStore[id] \in Versions(Recording!Ledger[id])

\* How far a request is, and what it owes to its client.
RequestInv(r) ==
  /\ 0 .. rNext[r] - 1 \subseteq DOMAIN rSent[r]
  /\ rMax[r] > 0 => rMax[r] - 1 \in DOMAIN funcStore
  /\ rFloor[r] <= nextID
  /\ rpc[r] \in {"simulator", "snapshot", "done"} /\ ~rCut[r] => rMax[r] <= rNext[r]
  /\ rpc[r] = "snapshot" => pc # "new"

IInv ==
  /\ TypeOK /\ Seen!IInv
  /\ ChannelIsTheDifference /\ WorkerLife /\ StoreIsPast
  /\ (\A r \in Reader : RequestInv(r)) /\ ReadersTellTheTruth
=============================================================================
