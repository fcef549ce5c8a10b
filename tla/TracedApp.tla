----------------------------- MODULE TracedApp ------------------------------
(***************************************************************************)
(* The traced process, as the code inserted by srceditor and the logger    *)
(* package make it behave: a traced function calls FuncStart() on entry    *)
(* and defers FuncEnd(txid), so the calls of one goroutine nest, and       *)
(* sendLog() emits one RawFuncLog for each.                                *)
(*                                                                         *)
(* TxIDs are unique (an atomic counter) but the goroutine that drew the    *)
(* smaller one may reach the logger's lock later, so a call may carry any  *)
(* unused one. For the same reason timestamps are ordered inside a         *)
(* goroutine and not across goroutines.                                    *)
(***************************************************************************)
EXTENDS TraceTypes

VARIABLES
  callStack,  \* callStack[g]: the running traced calls of g, innermost last
  usedTx,     \* the TxIDs that NewTxID() has returned
  lastTime    \* lastTime[g]: timestamp of g's latest event

appVars == <<callStack, usedTx, lastTime>>

AppTypeOK ==
  /\ callStack \in [GID -> Seq(TxID)]
  /\ usedTx \in SUBSET TxID
  /\ lastTime \in [GID -> Nat]

AppInit ==
  /\ callStack = [g \in GID |-> <<>>]
  /\ usedTx = {}
  /\ lastTime = [g \in GID |-> 0]

\* The event that goroutine g emits on entering call tx, on leaving its
\* innermost call: sendLog() takes the stack trace inside the function.
StartEvent(g, tx, ts) ==
  [Tag |-> FuncStart, Timestamp |-> ts, Frames |-> Append(callStack[g], tx), GID |-> g, TxID |-> tx]

EndEvent(g, ts) ==
  [Tag |-> FuncEnd, Timestamp |-> ts, Frames |-> callStack[g], GID |-> g,
   TxID |-> callStack[g][Len(callStack[g])]]

EnterCall(g, tx, ts) ==
  /\ tx \notin usedTx
  /\ ts >= lastTime[g]
  /\ usedTx' = usedTx \cup {tx}
  /\ callStack' = [callStack EXCEPT ![g] = Append(@, tx)]
  /\ lastTime' = [lastTime EXCEPT ![g] = ts]

LeaveCall(g, ts) ==
  /\ callStack[g] # <<>>
  /\ ts >= lastTime[g]
  /\ callStack' = [callStack EXCEPT ![g] = SubSeq(@, 1, Len(@) - 1)]
  /\ lastTime' = [lastTime EXCEPT ![g] = ts]
  /\ UNCHANGED usedTx
=============================================================================
