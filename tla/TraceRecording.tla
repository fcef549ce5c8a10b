--------------------------- MODULE TraceRecording ---------------------------
(***************************************************************************)
(* The traced process and the log write worker, with the events handed     *)
(* over directly. What lies between them in the program (the connection    *)
(* and the worker's channel) keeps their order; module LogServer adds the  *)
(* channel and the other goroutines that use the simulator and the stores. *)
(***************************************************************************)
EXTENDS TracedApp, LogWriteWorker, FiniteSets

vars == <<appVars, simVars, workerVars>>

Init == AppInit /\ WorkerInit

Start(g, tx, ts) == EnterCall(g, tx, ts) /\ ProcessRaw(StartEvent(g, tx, ts))

End(g, ts) == LeaveCall(g, ts) /\ ProcessRaw(EndEvent(g, ts))

Internal == (WorkerStep \/ TakeSymbols \/ Idle \/ Tick \/ Stop) /\ UNCHANGED appVars

Next ==
  \/ \E g \in GID, tx \in TxID, ts \in Time : Start(g, tx, ts)
  \/ \E g \in GID, ts \in Time : End(g, ts)
  \/ Internal

Spec == Init /\ [][Next]_vars

-----------------------------------------------------------------------------
TypeOK == AppTypeOK /\ SimTypeOK /\ WorkerTypeOK

\* The calls recorded so far: the simulator's version of a call, or the
\* stored one once the simulator has cleared it.
Ledger ==
  [id \in 0 .. nextID - 1 |-> IF id \in DOMAIN funcLogs THEN funcLogs[id] ELSE funcStore[id]]

\* The FuncLogID of the i-th call on g's stack.
CallID(g, i) == txids[callStack[g][i]]

\* The simulator's stacks, transactions and parent links describe exactly the
\* calls that are running in the traced process, in their nesting order
\* (StateSimulator.Next, both tags).
StackMirrorsApp ==
  /\ \A g \in GID :
       /\ g \in DOMAIN goroutines <=> g \in DOMAIN stacks
       /\ g \notin DOMAIN stacks => callStack[g] = <<>>
       /\ \A i \in 1 .. Len(callStack[g]) :
            /\ callStack[g][i] \in DOMAIN txids
            /\ CallID(g, i) \in DOMAIN funcLogs
            /\ funcLogs[CallID(g, i)].GID = g
            /\ funcLogs[CallID(g, i)].EndTime = NotEnded
            /\ funcLogs[CallID(g, i)].ParentID =
                 IF i = 1 THEN NotFoundParent ELSE CallID(g, i - 1)
       /\ g \in DOMAIN stacks =>
            stacks[g] = IF callStack[g] = <<>> THEN NotFoundParent
                        ELSE CallID(g, Len(callStack[g]))
  /\ \A tx \in DOMAIN txids : \E g \in GID : \E i \in 1 .. Len(callStack[g]) : callStack[g][i] = tx

\* No event that the traced process can emit makes StateSimulator.Next panic
\* ("not found goroutine", "not found FuncLog", nil FuncLog).
NoPanic ==
  \A g \in GID : callStack[g] # <<>> => ~NextPanics(EndEvent(g, lastTime[g]))

\* Every call ever recorded is in the simulator or, ended, in the FuncLog
\* store: writeSS followed by Clear forgets nothing that is not saved.
NothingForgotten ==
  \A id \in 0 .. nextID - 1 :
    id \notin DOMAIN funcLogs => id \in DOMAIN funcStore /\ IsEnded(funcStore[id])

\* The parent link that the simulator reconstructs agrees with the stack trace
\* that the traced process captured, for running, ended and stored calls.
ParentMatchesFrames ==
  NothingForgotten =>
    \A id \in 0 .. nextID - 1 :
      LET fl == Ledger[id] IN
      IF fl.ParentID = NotFoundParent
      THEN Len(fl.Frames) = 1
      ELSE /\ fl.ParentID \in 0 .. id - 1
           /\ Ledger[fl.ParentID].GID = fl.GID
           /\ Ledger[fl.ParentID].Frames = SubSeq(fl.Frames, 1, Len(fl.Frames) - 1)

\* A goroutine is shown as running exactly while it has a traced call running,
\* also when it was believed to have ended before.
GoroutineRunsWithItsCalls ==
  \A g \in DOMAIN goroutines : goroutines[g].EndTime = NotEnded <=> callStack[g] # <<>>

\* Once Run() has closed the log, its FuncLog store holds the whole ledger and
\* its Goroutine store every goroutine, up to date.
ClosedLogIsComplete ==
  pc \in {"close", "reopen", "done"} =>
    /\ funcStore = Ledger
    /\ goroutineStore = goroutines

\* The calls that have ended and still take memory are at most the events of
\* the current flush period, so fewer than FlCountMax wait in the main loop.
EndedCallsAreBounded ==
  LET ended == {id \in DOMAIN funcLogs : IsEnded(funcLogs[id])} IN
  /\ Cardinality(ended) <= flCount
  /\ CanReceive => flCount < FlCountMax

\* "関数の実行終了後は、フィールドの値は変更されない" (types/log.go): a
\* stored call that has ended is never changed or removed by later writes.
StoredCallsAreFinal ==
  [][\A id \in DOMAIN funcStore :
       /\ id \in DOMAIN funcStore'
       /\ IsEnded(funcStore[id]) => funcStore'[id] = funcStore[id]]_vars

\* Recording implements the ledger.
Abstract == INSTANCE CallLedger WITH ledger <- Ledger
ImplementsLedger == Abstract!Spec

-----------------------------------------------------------------------------
(***************************************************************************)
(* The inductive invariant: what ties the simulator, the stores and the    *)
(* worker's control state together between two steps.                      *)
(***************************************************************************)

\* A transaction is on one stack, at one place, and names one call.
TransactionsAreUnique ==
  /\ DOMAIN txids \subseteq usedTx
  /\ \A a, b \in DOMAIN txids : txids[a] = txids[b] => a = b
  /\ \A g, h \in GID : \A i \in 1 .. Len(callStack[g]), j \in 1 .. Len(callStack[h]) :
       callStack[g][i] = callStack[h][j] => g = h /\ i = j

\* The records of the running calls: numbered in nesting order, with the stack
\* trace and a start time of the past; no other record is open.
RunningCallsAreDescribed ==
  /\ \A g \in GID : \A i \in 1 .. Len(callStack[g]) :
       /\ funcLogs[CallID(g, i)].Frames = SubSeq(callStack[g], 1, i)
       /\ funcLogs[CallID(g, i)].StartTime <= lastTime[g]
       /\ \A j \in 1 .. i - 1 : CallID(g, j) < CallID(g, i)
  /\ \A id \in DOMAIN funcLogs : ~IsEnded(funcLogs[id]) => \E tx \in DOMAIN txids : txids[tx] = id

\* The stores hold no more than the simulator has seen, never contradict it
\* about a call that has ended, and agree with it once writeSS has written.
StoresAreInStep ==
  /\ DOMAIN funcLogs \subseteq 0 .. nextID - 1
  /\ DOMAIN funcStore \subseteq 0 .. nextID - 1
  /\ DOMAIN goroutineStore \subseteq DOMAIN goroutines
  /\ \A id \in DOMAIN funcLogs \cap DOMAIN funcStore :
       IsEnded(funcStore[id]) => funcStore[id] = funcLogs[id]
  /\ pc \in {"goroutine", "clear", "delete", "close", "reopen", "done"} =>
       \A id \in DOMAIN funcLogs : id \in DOMAIN funcStore /\ funcStore[id] = funcLogs[id]
  /\ pc \in {"clear", "delete", "close", "reopen", "done"} => goroutineStore = goroutines

FlushPeriod == pc \in {"new", "select", "drain"} => flCount < FlCountMax

IInv ==
  /\ TypeOK
  /\ StackMirrorsApp
  /\ NothingForgotten
  /\ TransactionsAreUnique
  /\ RunningCallsAreDescribed
  /\ StoresAreInStep
  /\ FlushPeriod
=============================================================================
