--------------------------- MODULE StateSimulator ---------------------------
(***************************************************************************)
(* tracer/simulator: rebuilds calls and goroutines from raw events.        *)
(* Every method holds the simulator's lock, so each is one step.           *)
(***************************************************************************)
EXTENDS TraceTypes

VARIABLES
  nextID,     \* ID of the next FuncLog
  funcLogs,   \* calls that run, or have ended and are not cleared yet
  txids,      \* TxID of a running call |-> its FuncLogID
  stacks,     \* GID |-> FuncLogID at the top of the goroutine's stack
  goroutines  \* every goroutine seen so far

simVars == <<nextID, funcLogs, txids, stacks, goroutines>>

SimTypeOK ==
  /\ nextID \in Nat
  /\ IsMap(funcLogs, Nat, FuncLog)
  /\ IsMap(txids, TxID, Nat)
  /\ IsMap(stacks, GID, Nat \cup {NotFoundParent})
  /\ IsMap(goroutines, GID, Goroutine)

SimInit ==
  /\ nextID = 0
  /\ funcLogs = EmptyMap
  /\ txids = EmptyMap
  /\ stacks = EmptyMap
  /\ goroutines = EmptyMap

\* Seeded bugs: the parent is the latest call of any goroutine; a goroutine
\* believed to have ended is not revived.
NextFuncStart_GlobalParent(raw) ==
  LET fl == [StartTime |-> raw.Timestamp, EndTime |-> NotEnded, ParentID |-> nextID - 1,
             Frames |-> raw.Frames, GID |-> raw.GID]
  IN
  /\ nextID' = nextID + 1
  /\ funcLogs' = With(funcLogs, nextID, fl)
  /\ txids' = With(txids, raw.TxID, nextID)
  /\ stacks' = With(stacks, raw.GID, nextID)
  /\ goroutines' = With(goroutines, raw.GID, [StartTime |-> raw.Timestamp, EndTime |-> NotEnded])

NextFuncStart_NoRevival(raw) ==
  LET known == raw.GID \in DOMAIN goroutines
      fl == [StartTime |-> raw.Timestamp, EndTime |-> NotEnded,
             ParentID |-> IF known THEN stacks[raw.GID] ELSE NotFoundParent,
             Frames |-> raw.Frames, GID |-> raw.GID]
  IN
  /\ nextID' = nextID + 1
  /\ funcLogs' = With(funcLogs, nextID, fl)
  /\ txids' = With(txids, raw.TxID, nextID)
  /\ stacks' = With(stacks, raw.GID, nextID)
  /\ goroutines' = IF known THEN goroutines
                   ELSE With(goroutines, raw.GID, [StartTime |-> raw.Timestamp, EndTime |-> NotEnded])

\* A goroutine that was believed to have ended and calls a traced function
\* again is made running again; its StartTime stays.
NextFuncStart(raw) ==
  LET known == raw.GID \in DOMAIN goroutines
      parentID == IF known THEN stacks[raw.GID] ELSE NotFoundParent
      fl == [StartTime |-> raw.Timestamp, EndTime |-> NotEnded, ParentID |-> parentID,
             Frames |-> raw.Frames, GID |-> raw.GID]
  IN
  /\ nextID' = nextID + 1
  /\ funcLogs' = With(funcLogs, nextID, fl)
  /\ txids' = With(txids, raw.TxID, nextID)
  /\ stacks' = With(stacks, raw.GID, nextID)
  /\ goroutines' =
       IF ~known
       THEN With(goroutines, raw.GID, [StartTime |-> raw.Timestamp, EndTime |-> NotEnded])
       ELSE IF parentID = NotFoundParent
            THEN [goroutines EXCEPT ![raw.GID].EndTime = NotEnded]
            ELSE goroutines

\* FuncEnd of an unknown goroutine, of an unknown transaction or of a call
\* whose record is gone panics (the last one by a nil dereference).
NextPanics(raw) ==
  /\ raw.Tag = FuncEnd
  /\ \/ raw.GID \notin DOMAIN goroutines
     \/ raw.TxID \notin DOMAIN txids
     \/ txids[raw.TxID] \notin DOMAIN funcLogs

\* Seeded bug: the stack is not popped.
NextFuncEnd_NoPop(raw) ==
  LET id == txids[raw.TxID] IN
  /\ ~NextPanics(raw)
  /\ funcLogs' = [funcLogs EXCEPT ![id].EndTime = raw.Timestamp]
  /\ txids' = Without(txids, {raw.TxID})
  /\ UNCHANGED <<nextID, stacks, goroutines>>

NextFuncEnd(raw) ==
  LET id == txids[raw.TxID]
      parentID == funcLogs[id].ParentID
  IN
  /\ ~NextPanics(raw)
  /\ funcLogs' = [funcLogs EXCEPT ![id].EndTime = raw.Timestamp]
  /\ txids' = Without(txids, {raw.TxID})
  /\ stacks' = With(stacks, raw.GID, parentID)
  /\ goroutines' = IF parentID = NotFoundParent
                   THEN [goroutines EXCEPT ![raw.GID].EndTime = raw.Timestamp]
                   ELSE goroutines
  /\ UNCHANGED nextID

SimNext(raw) ==
  \/ raw.Tag = FuncStart /\ NextFuncStart(raw)
  \/ raw.Tag = FuncEnd /\ NextFuncEnd(raw)

\* Seeded bugs: running calls are cleared too; the IDs start again from 0.
Clear_Everything ==
  /\ funcLogs' = EmptyMap
  /\ UNCHANGED <<nextID, txids, stacks, goroutines>>

Clear_ResetsID ==
  /\ funcLogs' = Without(funcLogs, {id \in DOMAIN funcLogs : IsEnded(funcLogs[id])})
  /\ nextID' = 0
  /\ UNCHANGED <<txids, stacks, goroutines>>

\* Forgets the calls that have ended.
Clear ==
  /\ funcLogs' = Without(funcLogs, {id \in DOMAIN funcLogs : IsEnded(funcLogs[id])})
  /\ UNCHANGED <<nextID, txids, stacks, goroutines>>
=============================================================================
