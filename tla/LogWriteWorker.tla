--------------------------- MODULE LogWriteWorker ---------------------------
(***************************************************************************)
(* logWriteWorker of cmd/server_run.go: the goroutine that feeds the       *)
(* simulator of one log with the raw events of its connection and writes   *)
(* the simulator's state to the log's FuncLog and Goroutine stores         *)
(* (writeSS): on a tick when it is idle, after FlCountMax events, and      *)
(* before it closes the log.                                               *)
(*                                                                         *)
(* A store is the map of the records that can be read back from it         *)
(* (module RecordStore models how). A write that fails panics and is not   *)
(* modelled.                                                               *)
(***************************************************************************)
EXTENDS StateSimulator

CONSTANT FlCountMax  \* events between two forced writes (1000000 in the code)

ASSUME FlCountMaxAssumption == FlCountMax \in Nat \ {0}

VARIABLES
  pc,              \* where Run() is
  closing,         \* the loop is left: the deferred functions run
  flCount,         \* events since the last write
  registered,      \* the simulator is in the StateSimulatorStore
  funcStore,       \* FuncLogID |-> FuncLog
  goroutineStore   \* GID |-> Goroutine

workerVars == <<pc, closing, flCount, registered, funcStore, goroutineStore>>

(***************************************************************************)
(* "new"       before SSStore.New                                          *)
(* "select"    waiting for the channel or the ticker                       *)
(* "drain"     an object is done: the channel is looked at before waiting  *)
(* "funcLog", "goroutine", "clear"   the three parts of writeSS            *)
(* "delete", "close", "reopen"       the deferred functions                *)
(* "done"      Run() has returned                                          *)
(***************************************************************************)
PC == {"new", "select", "drain", "funcLog", "goroutine", "clear",
       "delete", "close", "reopen", "done"}

WorkerTypeOK ==
  /\ pc \in PC
  /\ closing \in BOOLEAN
  /\ flCount \in 0 .. FlCountMax
  /\ registered \in BOOLEAN
  /\ IsMap(funcStore, Nat, FuncLog)
  /\ IsMap(goroutineStore, GID, Goroutine)

WorkerInit ==
  /\ SimInit
  /\ pc = "new"
  /\ closing = FALSE
  /\ flCount = 0
  /\ registered = FALSE
  /\ funcStore = EmptyMap
  /\ goroutineStore = EmptyMap

-----------------------------------------------------------------------------
(* The main loop *)

NewSimulator ==
  /\ pc = "new"
  /\ pc' = "select"
  /\ registered' = TRUE
  /\ UNCHANGED <<closing, flCount, funcStore, goroutineStore, simVars>>

CanReceive == pc \in {"select", "drain"}

\* Seeded bug: the flush comes one event late.
ProcessRaw_LateFlush(raw) ==
  /\ CanReceive
  /\ SimNext(raw)
  /\ flCount' = flCount + 1
  /\ pc' = IF flCount + 1 > FlCountMax THEN "funcLog" ELSE "drain"
  /\ UNCHANGED <<closing, registered, funcStore, goroutineStore>>

\* A raw event taken from the channel. When it is the last of FlCountMax
\* events, writeSS follows before anything else.
ProcessRaw(raw) ==
  /\ CanReceive
  /\ SimNext(raw)
  /\ flCount' = flCount + 1
  /\ pc' = IF flCount + 1 >= FlCountMax THEN "funcLog" ELSE "drain"
  /\ UNCHANGED <<closing, registered, funcStore, goroutineStore>>

\* Symbols taken from the channel: the simulator has no part in it.
TakeSymbols ==
  /\ CanReceive
  /\ pc' = "drain"
  /\ UNCHANGED <<closing, flCount, registered, funcStore, goroutineStore, simVars>>

\* The channel was found empty: wait for it or for the ticker.
Idle ==
  /\ pc = "drain"
  /\ pc' = "select"
  /\ UNCHANGED <<closing, flCount, registered, funcStore, goroutineStore, simVars>>

\* Seeded bug: the simulator is cleared without a write.
Tick_ClearsFirst ==
  /\ pc = "select"
  /\ pc' = "clear"
  /\ UNCHANGED <<closing, flCount, registered, funcStore, goroutineStore, simVars>>

Tick ==
  /\ pc = "select"
  /\ pc' = "funcLog"
  /\ UNCHANGED <<closing, flCount, registered, funcStore, goroutineStore, simVars>>

\* Seeded bug: the state is not written before the log is closed.
Stop_NoWrite ==
  /\ pc = "select"
  /\ closing' = TRUE
  /\ pc' = "delete"
  /\ UNCHANGED <<flCount, registered, funcStore, goroutineStore, simVars>>

\* The channel is closed and empty: leave the loop.
Stop ==
  /\ pc = "select"
  /\ closing' = TRUE
  /\ pc' = "funcLog"
  /\ UNCHANGED <<flCount, registered, funcStore, goroutineStore, simVars>>

-----------------------------------------------------------------------------
(* writeSS *)

\* Seeded bug: a record that is in the store already is not overwritten.
WriteFuncLogs_KeepsOld ==
  /\ pc = "funcLog"
  /\ funcStore' = Merge(funcLogs, funcStore)
  /\ pc' = "goroutine"
  /\ UNCHANGED <<closing, flCount, registered, goroutineStore, simVars>>

\* Under the FuncLog store's lock, every call in the simulator is written at
\* the index given by its ID.
WriteFuncLogs ==
  /\ pc = "funcLog"
  /\ funcStore' = Merge(funcStore, funcLogs)
  /\ pc' = "goroutine"
  /\ UNCHANGED <<closing, flCount, registered, goroutineStore, simVars>>

WriteGoroutines ==
  /\ pc = "goroutine"
  /\ goroutineStore' = Merge(goroutineStore, goroutines)
  /\ pc' = "clear"
  /\ UNCHANGED <<closing, flCount, registered, funcStore, simVars>>

\* ss.Clear(), and back to the caller, which resets its event counter.
ClearSimulator ==
  /\ pc = "clear"
  /\ Clear
  /\ flCount' = IF closing THEN flCount ELSE 0
  /\ pc' = IF closing THEN "delete" ELSE "drain"
  /\ UNCHANGED <<closing, registered, funcStore, goroutineStore>>

-----------------------------------------------------------------------------
(* The deferred functions *)

DeleteSimulator ==
  /\ pc = "delete"
  /\ registered' = FALSE
  /\ pc' = "close"
  /\ UNCHANGED <<closing, flCount, funcStore, goroutineStore, simVars>>

CloseLog ==
  /\ pc = "close"
  /\ pc' = "reopen"
  /\ UNCHANGED <<closing, flCount, registered, funcStore, goroutineStore, simVars>>

ReopenLog ==
  /\ pc = "reopen"
  /\ pc' = "done"
  /\ UNCHANGED <<closing, flCount, registered, funcStore, goroutineStore, simVars>>

\* What the worker does on its own, whatever its channel holds.
WorkerStep ==
  \/ NewSimulator
  \/ WriteFuncLogs
  \/ WriteGoroutines
  \/ ClearSimulator
  \/ DeleteSimulator
  \/ CloseLog
  \/ ReopenLog
=============================================================================
