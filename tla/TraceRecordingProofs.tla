------------------------ MODULE TraceRecordingProofs ------------------------
(***************************************************************************)
(* What holds of recording for every set of goroutines, transactions and   *)
(* timestamps and every flush period: its invariant, that it implements    *)
(* the ledger of calls, and what follows for the recorded parent links,    *)
(* the goroutines and the memory that ended calls take.                    *)
(***************************************************************************)
EXTENDS TraceRecording, FiniteSetTheorems, TLAPS

(***************************************************************************)
(* Facts about maps                                                        *)
(***************************************************************************)

\* Storing an entry keeps a map well typed.
LEMMA WithType ==
  ASSUME NEW K, NEW V, NEW m, IsMap(m, K, V), NEW k \in K, NEW v \in V
  PROVE  IsMap(With(m, k, v), K, V)
BY DEF IsMap, With

\* Deleting entries keeps a map well typed.
LEMMA WithoutType ==
  ASSUME NEW K, NEW V, NEW m, IsMap(m, K, V), NEW S
  PROVE  IsMap(Without(m, S), K, V)
BY DEF IsMap, Without, Restrict

\* Storing all entries of a map into another keeps it well typed.
LEMMA MergeType ==
  ASSUME NEW K, NEW V, NEW m, IsMap(m, K, V), NEW n, IsMap(n, K, V)
  PROVE  IsMap(Merge(m, n), K, V)
BY DEF IsMap, Merge

\* Two sequences with the same first elements have the same prefix.
LEMMA SamePrefix ==
  ASSUME NEW S, NEW s \in Seq(S), NEW t \in Seq(S), NEW i \in Nat, i <= Len(s), i <= Len(t), \A j \in 1 .. i : s[j] = t[j]
  PROVE  SubSeq(s, 1, i) = SubSeq(t, 1, i)
<1>1. SubSeq(s, 1, i) = [j \in 1 .. i |-> s[j]]
  OBVIOUS
<1>2. SubSeq(t, 1, i) = [j \in 1 .. i |-> t[j]]
  OBVIOUS
<1> QED
  BY <1>1, <1>2

\* The empty map is well typed.
LEMMA EmptyType ==
  ASSUME NEW K, NEW V
  PROVE  IsMap(EmptyMap, K, V)
BY DEF IsMap, EmptyMap

\* Only the empty sequence has length 0.
LEMMA EmptySequence ==
  ASSUME NEW S, NEW s \in Seq(S)
  PROVE  s = <<>> <=> Len(s) = 0
OBVIOUS

-----------------------------------------------------------------------------
(***************************************************************************)
(* Type correctness                                                        *)
(***************************************************************************)

\* The event of a call's start, and of a call's end, is a raw event.
LEMMA EventType ==
  ASSUME TypeOK, NEW g \in GID, NEW ts \in Time
  PROVE  /\ \A tx \in TxID : StartEvent(g, tx, ts) \in RawFuncLog
         /\ callStack[g] # <<>> => EndEvent(g, ts) \in RawFuncLog
BY DEF TypeOK, AppTypeOK, StartEvent, EndEvent, RawFuncLog, FuncStart, FuncEnd

\* StateSimulator.Next keeps the simulator well typed.
LEMMA SimNextType ==
  ASSUME SimTypeOK, NEW raw \in RawFuncLog, SimNext(raw),
         raw.GID \in DOMAIN goroutines <=> raw.GID \in DOMAIN stacks
  PROVE  SimTypeOK'
<1> USE DEF SimTypeOK
<1>1. CASE raw.Tag = FuncStart /\ NextFuncStart(raw)
  <2> DEFINE known == raw.GID \in DOMAIN goroutines
             parentID == IF known THEN stacks[raw.GID] ELSE NotFoundParent
             fl == [StartTime |-> raw.Timestamp, EndTime |-> NotEnded, ParentID |-> parentID,
                    Frames |-> raw.Frames, GID |-> raw.GID]
             gr == [StartTime |-> raw.Timestamp, EndTime |-> NotEnded]
  <2>1. parentID \in Nat \cup {NotFoundParent}
    BY DEF IsMap
  <2>2. fl \in FuncLog
    BY <2>1 DEF FuncLog, RawFuncLog
  <2>3. gr \in Goroutine
    BY DEF Goroutine, RawFuncLog
  <2>4. IsMap(funcLogs', Nat, FuncLog)
    <3>1. funcLogs' = With(funcLogs, nextID, fl)
      BY <1>1 DEF NextFuncStart
    <3> HIDE DEF fl
    <3> QED BY <3>1, <2>2, WithType
  <2>5. IsMap(txids', TxID, Nat)
    BY <1>1, WithType DEF NextFuncStart, RawFuncLog
  <2>6. IsMap(stacks', GID, Nat \cup {NotFoundParent})
    BY <1>1, WithType DEF NextFuncStart, RawFuncLog
  <2>7. IsMap(goroutines', GID, Goroutine)
    <3>1. CASE ~known
      <4>1. goroutines' = With(goroutines, raw.GID, gr)
        BY <1>1, <3>1 DEF NextFuncStart
      <4> HIDE DEF gr
      <4> QED BY <4>1, <2>3, WithType DEF RawFuncLog
    <3>2. CASE known
      BY <1>1, <3>2 DEF NextFuncStart, IsMap, Goroutine
    <3> QED BY <3>1, <3>2
  <2> QED BY <1>1, <2>4, <2>5, <2>6, <2>7 DEF NextFuncStart
<1>2. CASE raw.Tag = FuncEnd /\ NextFuncEnd(raw)
  <2> DEFINE id == txids[raw.TxID]
             parentID == funcLogs[id].ParentID
  <2>1. id \in DOMAIN funcLogs /\ raw.GID \in DOMAIN goroutines
    BY <1>2 DEF NextFuncEnd, NextPanics
  <2>2. funcLogs[id] \in FuncLog
    BY <2>1 DEF IsMap
  <2>3. IsMap(funcLogs', Nat, FuncLog)
    BY <1>2, <2>1, <2>2 DEF NextFuncEnd, IsMap, FuncLog, RawFuncLog
  <2>4. IsMap(txids', TxID, Nat)
    BY <1>2, WithoutType DEF NextFuncEnd
  <2>5. IsMap(stacks', GID, Nat \cup {NotFoundParent})
    BY <1>2, <2>2, WithType DEF NextFuncEnd, FuncLog, RawFuncLog
  <2>6. IsMap(goroutines', GID, Goroutine)
    BY <1>2, <2>1 DEF NextFuncEnd, IsMap, Goroutine, RawFuncLog
  <2> QED BY <1>2, <2>3, <2>4, <2>5, <2>6 DEF NextFuncEnd
<1> QED BY <1>1, <1>2 DEF SimNext

-----------------------------------------------------------------------------
(***************************************************************************)
(* The inductive invariant                                                 *)
(***************************************************************************)

\* Initially nothing runs and nothing is recorded.
LEMMA InitIInv == Init => IInv
<1> SUFFICES ASSUME Init PROVE IInv
  OBVIOUS
<1> USE DEF Init, AppInit, WorkerInit, SimInit
<1>1. TypeOK
  <2>1. AppTypeOK
    BY DEF AppTypeOK
  <2>2. SimTypeOK
    BY EmptyType DEF SimTypeOK
  <2>3. WorkerTypeOK
    <3>1. pc \in PC /\ closing \in BOOLEAN /\ registered \in BOOLEAN
      BY DEF PC
    <3>2. flCount \in 0 .. FlCountMax
      BY FlCountMaxAssumption
    <3>3. IsMap(funcStore, Nat, FuncLog) /\ IsMap(goroutineStore, GID, Goroutine)
      BY EmptyType
    <3> QED BY <3>1, <3>2, <3>3 DEF WorkerTypeOK
  <2> QED BY <2>1, <2>2, <2>3 DEF TypeOK
<1>2. StackMirrorsApp
  BY DEF StackMirrorsApp, EmptyMap
<1>3. NothingForgotten
  BY DEF NothingForgotten
<1>4. TransactionsAreUnique
  BY DEF TransactionsAreUnique, EmptyMap
<1>5. RunningCallsAreDescribed
  BY DEF RunningCallsAreDescribed, EmptyMap
<1>6. StoresAreInStep
  BY DEF StoresAreInStep, EmptyMap
<1>7. FlushPeriod
  BY FlCountMaxAssumption DEF FlushPeriod
<1> QED BY <1>1, <1>2, <1>3, <1>4, <1>5, <1>6, <1>7 DEF IInv

\* Steps of the worker that only move its control state.
LEMMA QuietIInv ==
  ASSUME IInv, UNCHANGED appVars,
         NewSimulator \/ TakeSymbols \/ Idle \/ Tick \/ Stop \/ DeleteSimulator \/ CloseLog \/ ReopenLog
  PROVE  IInv'
<1> USE DEF IInv, appVars, simVars, NewSimulator, TakeSymbols, CanReceive, Idle, Tick, Stop, DeleteSimulator, CloseLog,
            ReopenLog
<1>1. TypeOK'
  BY DEF TypeOK, AppTypeOK, SimTypeOK, WorkerTypeOK, PC
<1>2. StackMirrorsApp'
  BY DEF StackMirrorsApp, CallID
<1>3. NothingForgotten'
  BY DEF NothingForgotten
<1>4. TransactionsAreUnique'
  BY DEF TransactionsAreUnique
<1>5. RunningCallsAreDescribed'
  BY DEF RunningCallsAreDescribed, CallID
<1>6. StoresAreInStep'
  BY DEF StoresAreInStep
<1>7. FlushPeriod'
  BY DEF FlushPeriod
<1> QED BY <1>1, <1>2, <1>3, <1>4, <1>5, <1>6, <1>7

\* writeSS, first part: the store takes the simulator's version of a call. By
\* StoresAreInStep this changes no stored call that has ended.
LEMMA WriteFuncLogsIInv ==
  ASSUME IInv, UNCHANGED appVars, WriteFuncLogs
  PROVE  IInv'
<1> USE DEF IInv, appVars, simVars, WriteFuncLogs
<1>1. TypeOK'
  BY MergeType DEF TypeOK, AppTypeOK, SimTypeOK, WorkerTypeOK, PC
<1>2. StackMirrorsApp'
  BY DEF StackMirrorsApp, CallID
<1>3. NothingForgotten'
  BY DEF NothingForgotten, Merge
<1>4. TransactionsAreUnique'
  BY DEF TransactionsAreUnique
<1>5. RunningCallsAreDescribed'
  BY DEF RunningCallsAreDescribed, CallID
<1>6. StoresAreInStep'
  BY DEF StoresAreInStep, Merge
<1>7. FlushPeriod'
  BY DEF FlushPeriod
<1> QED BY <1>1, <1>2, <1>3, <1>4, <1>5, <1>6, <1>7

\* writeSS, second part.
LEMMA WriteGoroutinesIInv ==
  ASSUME IInv, UNCHANGED appVars, WriteGoroutines
  PROVE  IInv'
<1> USE DEF IInv, appVars, simVars, WriteGoroutines
<1>1. TypeOK'
  BY MergeType DEF TypeOK, AppTypeOK, SimTypeOK, WorkerTypeOK, PC
<1>2. StackMirrorsApp'
  BY DEF StackMirrorsApp, CallID
<1>3. NothingForgotten'
  BY DEF NothingForgotten
<1>4. TransactionsAreUnique'
  BY DEF TransactionsAreUnique
<1>5. RunningCallsAreDescribed'
  BY DEF RunningCallsAreDescribed, CallID
<1>6. StoresAreInStep'
  <2>1. goroutineStore' = goroutines
    BY DEF StoresAreInStep, Merge, TypeOK, SimTypeOK, IsMap
  <2> QED BY <2>1 DEF StoresAreInStep
<1>7. FlushPeriod'
  BY DEF FlushPeriod
<1> QED BY <1>1, <1>2, <1>3, <1>4, <1>5, <1>6, <1>7

\* writeSS, third part: what is cleared has ended, and is in the store since the
\* first part; the records of running calls stay.
LEMMA ClearIInv ==
  ASSUME IInv, UNCHANGED appVars, ClearSimulator
  PROVE  IInv'
<1> USE DEF IInv, appVars, ClearSimulator, Clear
<1>a. /\ \A id : id \in DOMAIN funcLogs' <=> id \in DOMAIN funcLogs /\ ~IsEnded(funcLogs[id])
      /\ \A id \in DOMAIN funcLogs' : funcLogs'[id] = funcLogs[id]
  BY DEF Without, Restrict
<1>b. \A g \in GID : \A i \in 1 .. Len(callStack[g]) : CallID(g, i) \in DOMAIN funcLogs'
  BY <1>a DEF StackMirrorsApp, IsEnded
<1>c. \A g \in GID : \A i \in 1 .. Len(callStack[g]) :
        funcLogs'[CallID(g, i)] = funcLogs[CallID(g, i)]
  BY <1>a, <1>b
<1>d. UNCHANGED <<callStack, usedTx, lastTime, stacks, txids, goroutines>>
  OBVIOUS
<1>1. TypeOK'
  <2>1. SimTypeOK'
    BY WithoutType DEF TypeOK, SimTypeOK
  <2>2. WorkerTypeOK'
    BY FlCountMaxAssumption DEF TypeOK, WorkerTypeOK, PC
  <2> QED BY <2>1, <2>2 DEF TypeOK, AppTypeOK
<1>2. StackMirrorsApp'
  <2> HIDE DEF IInv, appVars, ClearSimulator, Clear
  <2>1. StackMirrorsApp
    BY DEF IInv
  <2> QED BY <1>b, <1>c, <1>d, <2>1 DEF StackMirrorsApp, CallID
<1>3. NothingForgotten'
  BY <1>a DEF NothingForgotten, StoresAreInStep
<1>4. TransactionsAreUnique'
  BY DEF TransactionsAreUnique
<1>5. RunningCallsAreDescribed'
  <2> HIDE DEF IInv, appVars, ClearSimulator, Clear
  <2>1. RunningCallsAreDescribed
    BY DEF IInv
  <2> QED BY <1>a, <1>b, <1>c, <1>d, <2>1 DEF RunningCallsAreDescribed, CallID
<1>6. StoresAreInStep'
  BY <1>a DEF StoresAreInStep
<1>7. FlushPeriod'
  BY FlCountMaxAssumption DEF FlushPeriod
<1> QED BY <1>1, <1>2, <1>3, <1>4, <1>5, <1>6, <1>7

\* CallID in the state after a step.
CallIDAfter(g, i) == txids'[callStack'[g][i]]

\* What the start of a call does to the stacks, in terms of positions: the new
\* call is on top of g's stack and every other position keeps its call and the
\* record of that call.
LEMMA StartFacts ==
  ASSUME IInv, NEW g \in GID, NEW tx \in TxID, NEW ts \in Time, Start(g, tx, ts)
  PROVE  LET n == Len(callStack[g]) IN
         /\ n \in Nat
         /\ tx \notin DOMAIN txids
         /\ nextID \notin DOMAIN funcLogs
         /\ callStack'[g] = Append(callStack[g], tx)
         /\ Len(callStack'[g]) = n + 1
         /\ callStack'[g][n + 1] = tx
         /\ txids'[tx] = nextID
         /\ \A i \in 1 .. n : callStack'[g][i] = callStack[g][i]
         /\ \A h \in GID : h # g => callStack'[h] = callStack[h]
         /\ \A h \in GID : \A i \in 1 .. Len(callStack[h]) :
              /\ callStack[h][i] # tx
              /\ CallIDAfter(h, i) = CallID(h, i)
              /\ CallID(h, i) # nextID
              /\ funcLogs'[CallID(h, i)] = funcLogs[CallID(h, i)]
<1> DEFINE n == Len(callStack[g])
<1>1. n \in Nat /\ callStack[g] \in Seq(TxID)
  BY DEF IInv, TypeOK, AppTypeOK
<1>2. tx \notin DOMAIN txids
  BY DEF IInv, TransactionsAreUnique, Start, EnterCall
<1>3. nextID \in Nat /\ nextID \notin DOMAIN funcLogs
  BY DEF IInv, StoresAreInStep, TypeOK, SimTypeOK
<1>4. /\ callStack'[g] = Append(callStack[g], tx)
      /\ \A h \in GID : h # g => callStack'[h] = callStack[h]
  BY DEF IInv, TypeOK, AppTypeOK, Start, EnterCall
<1>5. /\ Len(callStack'[g]) = n + 1
      /\ callStack'[g][n + 1] = tx
      /\ \A i \in 1 .. n : callStack'[g][i] = callStack[g][i]
  BY <1>1, <1>4
<1>6. /\ txids' = With(txids, tx, nextID)
      /\ DOMAIN funcLogs' = DOMAIN funcLogs \cup {nextID}
      /\ \A id \in DOMAIN funcLogs : id # nextID => funcLogs'[id] = funcLogs[id]
  BY DEF Start, ProcessRaw, SimNext, StartEvent, NextFuncStart, NextFuncEnd, With, FuncStart,
         FuncEnd
<1>7. ASSUME NEW h \in GID, NEW i \in 1 .. Len(callStack[h])
      PROVE  /\ callStack[h][i] # tx
             /\ callStack'[h][i] = callStack[h][i]
             /\ CallID(h, i) \in DOMAIN funcLogs
             /\ txids'[callStack[h][i]] = CallID(h, i)
  <2>1. callStack[h][i] \in DOMAIN txids /\ CallID(h, i) \in DOMAIN funcLogs
    BY DEF IInv, StackMirrorsApp
  <2>2. callStack'[h][i] = callStack[h][i]
    BY <1>4, <1>5
  <2> QED BY <1>2, <1>6, <2>1, <2>2 DEF With, CallID
<1>8. txids'[tx] = nextID
  BY <1>6 DEF With
<1>9. ASSUME NEW h \in GID, NEW i \in 1 .. Len(callStack[h])
      PROVE  /\ callStack[h][i] # tx
             /\ CallIDAfter(h, i) = CallID(h, i)
             /\ CallID(h, i) # nextID
             /\ funcLogs'[CallID(h, i)] = funcLogs[CallID(h, i)]
  <2>1. CallIDAfter(h, i) = CallID(h, i)
    BY <1>7 DEF CallID, CallIDAfter
  <2> QED BY <2>1, <1>3, <1>6, <1>7
<1> QED BY <1>1, <1>2, <1>3, <1>4, <1>5, <1>8, <1>9

\* The call that StateSimulator.Next takes for the parent is the one below on
\* the stack.
LEMMA StartParent ==
  ASSUME IInv, NEW g \in GID, NEW tx \in TxID, NEW ts \in Time, Start(g, tx, ts)
  PROVE  /\ funcLogs'[nextID] =
              [StartTime |-> ts, EndTime |-> NotEnded,
               ParentID |-> IF callStack[g] = <<>> THEN NotFoundParent
                            ELSE CallID(g, Len(callStack[g])),
               Frames |-> Append(callStack[g], tx), GID |-> g]
         /\ nextID' = nextID + 1
         /\ funcLogs' = With(funcLogs, nextID, funcLogs'[nextID])
         /\ txids' = With(txids, tx, nextID)
         /\ stacks' = With(stacks, g, nextID)
         /\ DOMAIN goroutines' = DOMAIN goroutines \cup {g}
         /\ usedTx' = usedTx \cup {tx}
         /\ lastTime' = [lastTime EXCEPT ![g] = ts]
         /\ ts >= lastTime[g]
         /\ UNCHANGED <<funcStore, goroutineStore>>
         /\ pc \in {"select", "drain"} /\ pc' \in {"funcLog", "drain"}
         /\ pc' = "drain" => flCount' < FlCountMax
<1> DEFINE raw == StartEvent(g, tx, ts)
<1>1. /\ raw.Tag = FuncStart /\ raw.GID = g /\ raw.TxID = tx
      /\ raw.Timestamp = ts /\ raw.Frames = Append(callStack[g], tx)
  BY DEF StartEvent
<1>2. NextFuncStart(raw)
  BY <1>1 DEF Start, ProcessRaw, SimNext, FuncStart, FuncEnd
<1>3. (IF g \in DOMAIN goroutines THEN stacks[g] ELSE NotFoundParent)
        = (IF callStack[g] = <<>> THEN NotFoundParent ELSE CallID(g, Len(callStack[g])))
  BY DEF IInv, StackMirrorsApp
<1>4. flCount \in Nat /\ FlCountMax \in Nat
  BY FlCountMaxAssumption DEF IInv, TypeOK, WorkerTypeOK
<1> HIDE DEF raw
<1>5. funcLogs' = With(funcLogs, nextID,
              [StartTime |-> ts, EndTime |-> NotEnded,
               ParentID |-> IF callStack[g] = <<>> THEN NotFoundParent
                            ELSE CallID(g, Len(callStack[g])),
               Frames |-> Append(callStack[g], tx), GID |-> g])
  BY <1>1, <1>2, <1>3 DEF NextFuncStart
<1>6. /\ nextID' = nextID + 1
      /\ txids' = With(txids, tx, nextID)
      /\ stacks' = With(stacks, g, nextID)
      /\ DOMAIN goroutines' = DOMAIN goroutines \cup {g}
  BY <1>1, <1>2 DEF NextFuncStart, With
<1>7. /\ usedTx' = usedTx \cup {tx}
      /\ lastTime' = [lastTime EXCEPT ![g] = ts]
      /\ ts >= lastTime[g]
      /\ UNCHANGED <<funcStore, goroutineStore>>
      /\ pc \in {"select", "drain"} /\ pc' \in {"funcLog", "drain"}
      /\ pc' = "drain" => flCount' < FlCountMax
  BY <1>4 DEF Start, EnterCall, ProcessRaw, CanReceive
<1>8. funcLogs'[nextID] =
              [StartTime |-> ts, EndTime |-> NotEnded,
               ParentID |-> IF callStack[g] = <<>> THEN NotFoundParent
                            ELSE CallID(g, Len(callStack[g])),
               Frames |-> Append(callStack[g], tx), GID |-> g]
  BY <1>5 DEF With
<1> QED BY <1>5, <1>6, <1>7, <1>8

\* The start of a call preserves the invariant.
LEMMA StartIInv ==
  ASSUME IInv, NEW g \in GID, NEW tx \in TxID, NEW ts \in Time, Start(g, tx, ts)
  PROVE  IInv'
<1> DEFINE n == Len(callStack[g])
           fl == funcLogs'[nextID]
<1>a. /\ n \in Nat
      /\ tx \notin DOMAIN txids
      /\ nextID \notin DOMAIN funcLogs
      /\ callStack'[g] = Append(callStack[g], tx)
      /\ Len(callStack'[g]) = n + 1
      /\ callStack'[g][n + 1] = tx
      /\ txids'[tx] = nextID
      /\ \A i \in 1 .. n : callStack'[g][i] = callStack[g][i]
      /\ \A h \in GID : h # g => callStack'[h] = callStack[h]
  BY StartFacts
<1>b. \A h \in GID : \A i \in 1 .. Len(callStack[h]) :
        /\ callStack[h][i] # tx
        /\ CallIDAfter(h, i) = CallID(h, i)
        /\ CallID(h, i) # nextID
        /\ funcLogs'[CallID(h, i)] = funcLogs[CallID(h, i)]
  BY StartFacts
<1>c. /\ fl = [StartTime |-> ts, EndTime |-> NotEnded,
               ParentID |-> IF callStack[g] = <<>> THEN NotFoundParent ELSE CallID(g, n),
               Frames |-> Append(callStack[g], tx), GID |-> g]
      /\ nextID' = nextID + 1
      /\ funcLogs' = With(funcLogs, nextID, fl)
      /\ txids' = With(txids, tx, nextID)
      /\ stacks' = With(stacks, g, nextID)
      /\ DOMAIN goroutines' = DOMAIN goroutines \cup {g}
      /\ usedTx' = usedTx \cup {tx}
      /\ lastTime' = [lastTime EXCEPT ![g] = ts]
      /\ ts >= lastTime[g]
      /\ UNCHANGED <<funcStore, goroutineStore>>
      /\ pc \in {"select", "drain"} /\ pc' \in {"funcLog", "drain"}
      /\ pc' = "drain" => flCount' < FlCountMax
  BY StartParent
<1>d. CallIDAfter(g, n + 1) = nextID
  BY <1>a DEF CallID, CallIDAfter
<1>e. nextID \in Nat /\ lastTime \in [GID -> Nat] /\ ts \in Nat /\ callStack[g] \in Seq(TxID)
  BY TimeAssumption DEF IInv, TypeOK, SimTypeOK, AppTypeOK
<1>f. \A h \in GID : \A i \in 1 .. Len(callStack'[h]) :
        \/ h = g /\ i = n + 1
        \/ i \in 1 .. Len(callStack[h]) /\ callStack'[h][i] = callStack[h][i]
  <2>1. ASSUME NEW i \in 1 .. Len(callStack'[g]) PROVE i = n + 1 \/ (i \in 1 .. n /\ callStack'[g][i] = callStack[g][i])
    <3>1. PICK k \in Nat : k = n
      BY <1>a
    <3>2. i \in 1 .. (k + 1)
      BY <1>a, <2>1, <3>1
    <3>3. i = k + 1 \/ i \in 1 .. k
      BY <3>1, <3>2
    <3> QED BY <1>a, <3>1, <3>3
  <2>2. ASSUME NEW h \in GID, h # g, NEW i \in 1 .. Len(callStack'[h])
        PROVE  i \in 1 .. Len(callStack[h]) /\ callStack'[h][i] = callStack[h][i]
    <3>1. callStack'[h] = callStack[h]
      BY <1>a, <2>2
    <3> QED BY <2>2, <3>1
  <2> QED BY <2>1, <2>2
<1>1. TypeOK'
  <2>1. AppTypeOK'
    <3>1. callStack' \in [GID -> Seq(TxID)]
      BY DEF IInv, TypeOK, AppTypeOK, Start, EnterCall
    <3> QED BY <1>c, <1>e, <3>1 DEF IInv, TypeOK, AppTypeOK
  <2>2. SimTypeOK'
    <3>1. StartEvent(g, tx, ts) \in RawFuncLog /\ StartEvent(g, tx, ts).GID = g
      BY EventType DEF IInv, StartEvent
    <3>2. SimNext(StartEvent(g, tx, ts))
      BY DEF Start, ProcessRaw
    <3> QED BY <3>1, <3>2, SimNextType DEF IInv, TypeOK, StackMirrorsApp
  <2>3. WorkerTypeOK'
    <3>1. flCount' \in 0 .. FlCountMax
      BY FlCountMaxAssumption
      DEF IInv, TypeOK, WorkerTypeOK, FlushPeriod, Start, ProcessRaw, CanReceive
    <3>2. closing' \in BOOLEAN /\ registered' \in BOOLEAN
      BY DEF IInv, TypeOK, WorkerTypeOK, Start, ProcessRaw
    <3> QED BY <1>c, <3>1, <3>2 DEF IInv, TypeOK, WorkerTypeOK, PC
  <2> QED BY <2>1, <2>2, <2>3 DEF TypeOK
<1>2. StackMirrorsApp'
  <2>1. \A h \in GID : h \in DOMAIN goroutines' <=> h \in DOMAIN stacks'
    BY <1>c DEF IInv, StackMirrorsApp, With
  <2>2. \A h \in GID : h \notin DOMAIN stacks' => callStack'[h] = <<>>
    BY <1>a, <1>c DEF IInv, StackMirrorsApp, With
  <2>3. ASSUME NEW h \in GID, h \in DOMAIN stacks'
        PROVE  stacks'[h] = IF callStack'[h] = <<>> THEN NotFoundParent
                            ELSE CallIDAfter(h, Len(callStack'[h]))
    <3>1. CASE h = g
      BY <1>a, <1>c, <1>d, <1>e, <3>1 DEF With
    <3>2. CASE h # g
      <4>1. h \in DOMAIN stacks /\ stacks'[h] = stacks[h] /\ callStack'[h] = callStack[h]
        BY <1>a, <1>c, <2>3, <3>2 DEF With
      <4>2. callStack[h] # <<>> => Len(callStack[h]) \in 1 .. Len(callStack[h])
        BY DEF IInv, TypeOK, AppTypeOK
      <4> QED BY <1>b, <4>1, <4>2 DEF IInv, StackMirrorsApp, CallID, CallIDAfter
    <3> QED BY <3>1, <3>2
  <2>4. ASSUME NEW h \in GID, NEW i \in 1 .. Len(callStack'[h])
        PROVE  /\ callStack'[h][i] \in DOMAIN txids'
               /\ CallIDAfter(h, i) \in DOMAIN funcLogs'
               /\ funcLogs'[CallIDAfter(h, i)].GID = h
               /\ funcLogs'[CallIDAfter(h, i)].EndTime = NotEnded
               /\ funcLogs'[CallIDAfter(h, i)].ParentID =
                    IF i = 1 THEN NotFoundParent ELSE CallIDAfter(h, i - 1)
    <3>1. CASE h = g /\ i = n + 1
      <4>1. /\ callStack'[h][i] \in DOMAIN txids'
            /\ CallIDAfter(h, i) \in DOMAIN funcLogs'
            /\ funcLogs'[CallIDAfter(h, i)].GID = h
            /\ funcLogs'[CallIDAfter(h, i)].EndTime = NotEnded
        BY <1>a, <1>c, <1>d, <3>1 DEF With
      <4>2. fl.ParentID = IF i = 1 THEN NotFoundParent ELSE CallIDAfter(h, i - 1)
        <5>1. callStack[g] = <<>> <=> i = 1
          BY <1>a, <1>e, <3>1
        <5>2. i # 1 => CallIDAfter(g, n) = CallID(g, n) /\ i - 1 = n
          BY <1>a, <1>b, <3>1
        <5> QED BY <1>c, <3>1, <5>1, <5>2
      <4> QED BY <1>d, <3>1, <4>1, <4>2
    <3>2. CASE i \in 1 .. Len(callStack[h]) /\ callStack'[h][i] = callStack[h][i]
      <4>1. /\ callStack[h][i] \in DOMAIN txids
            /\ CallID(h, i) \in DOMAIN funcLogs
            /\ funcLogs[CallID(h, i)].GID = h
            /\ funcLogs[CallID(h, i)].EndTime = NotEnded
            /\ funcLogs[CallID(h, i)].ParentID =
                 IF i = 1 THEN NotFoundParent ELSE CallID(h, i - 1)
        BY <3>2 DEF IInv, StackMirrorsApp
      <4>2. i # 1 => CallIDAfter(h, i - 1) = CallID(h, i - 1)
        <5> SUFFICES ASSUME i # 1 PROVE CallIDAfter(h, i - 1) = CallID(h, i - 1)
          OBVIOUS
        <5>1. Len(callStack[h]) \in Nat
          BY DEF IInv, TypeOK, AppTypeOK
        <5>2. i - 1 \in 1 .. Len(callStack[h])
          BY <3>2, <5>1
        <5> QED BY <1>b, <5>2
      <4> QED BY <1>b, <1>c, <3>2, <4>1, <4>2 DEF With
    <3> QED BY <1>f, <3>1, <3>2
  <2>5. ASSUME NEW t \in DOMAIN txids'
        PROVE  \E h \in GID : \E i \in 1 .. Len(callStack'[h]) : callStack'[h][i] = t
    <3>1. CASE t = tx
      <4>1. n + 1 \in 1 .. Len(callStack'[g])
        BY <1>a
      <4> QED BY <1>a, <3>1, <4>1
    <3>2. CASE t # tx
      <4>1. t \in DOMAIN txids
        BY <1>c, <3>2 DEF With
      <4>2. PICK h \in GID : \E i \in 1 .. Len(callStack[h]) : callStack[h][i] = t
        BY <4>1 DEF IInv, StackMirrorsApp
      <4>3. PICK i \in 1 .. Len(callStack[h]) : callStack[h][i] = t
        BY <4>2
      <4>4. i \in 1 .. Len(callStack'[h]) /\ callStack'[h][i] = t
        BY <1>a, <4>3
      <4> QED BY <4>4
    <3> QED BY <3>1, <3>2
  <2> QED BY <2>1, <2>2, <2>3, <2>4, <2>5 DEF StackMirrorsApp, CallID, CallIDAfter
<1>3. NothingForgotten'
  BY <1>c, <1>e DEF IInv, NothingForgotten, With
<1>4. TransactionsAreUnique'
  <2>1. DOMAIN txids' \subseteq usedTx'
    BY <1>c DEF IInv, TransactionsAreUnique, With
  <2>2. \A t \in DOMAIN txids : txids[t] # nextID
    BY <1>b DEF IInv, StackMirrorsApp, CallID
  <2>3. \A a, b \in DOMAIN txids' : txids'[a] = txids'[b] => a = b
    BY <1>a, <1>c, <2>2 DEF IInv, TransactionsAreUnique, With
  <2>4. ASSUME NEW h \in GID, NEW k \in GID, NEW i \in 1 .. Len(callStack'[h]),
               NEW j \in 1 .. Len(callStack'[k]), callStack'[h][i] = callStack'[k][j]
        PROVE  h = k /\ i = j
    <3>1. CASE i \in 1 .. Len(callStack[h]) /\ j \in 1 .. Len(callStack[k])
      <4>1. callStack'[h][i] = callStack[h][i] /\ callStack'[k][j] = callStack[k][j]
        BY <1>a, <3>1
      <4>2. callStack[h][i] = callStack[k][j]
        BY <2>4, <4>1
      <4>3. TransactionsAreUnique
        BY DEF IInv
      <4> QED BY <3>1, <4>2, <4>3 DEF TransactionsAreUnique
    <3>2. CASE h = g /\ i = n + 1 /\ j \in 1 .. Len(callStack[k])
      <4>1. callStack'[k][j] = callStack[k][j] /\ callStack[k][j] # tx
        BY <1>a, <1>b, <3>2
      <4> QED BY <1>a, <2>4, <3>2, <4>1
    <3>3. CASE i \in 1 .. Len(callStack[h]) /\ k = g /\ j = n + 1
      <4>1. callStack'[h][i] = callStack[h][i] /\ callStack[h][i] # tx
        BY <1>a, <1>b, <3>3
      <4> QED BY <1>a, <2>4, <3>3, <4>1
    <3> QED BY <1>f, <3>1, <3>2, <3>3
  <2> QED BY <2>1, <2>3, <2>4 DEF TransactionsAreUnique
<1>5. RunningCallsAreDescribed'
  <2>1. ASSUME NEW h \in GID, NEW i \in 1 .. Len(callStack'[h])
        PROVE  /\ funcLogs'[CallIDAfter(h, i)].Frames = SubSeq(callStack'[h], 1, i)
               /\ funcLogs'[CallIDAfter(h, i)].StartTime <= lastTime'[h]
               /\ \A j \in 1 .. i - 1 : CallIDAfter(h, j) < CallIDAfter(h, i)
    <3>1. CASE h = g /\ i = n + 1
      <4>1. Append(callStack[g], tx) = SubSeq(callStack'[g], 1, n + 1)
        BY <1>a, <1>e
      <4>2. \A j \in 1 .. n : CallID(g, j) \in DOMAIN funcLogs
        BY DEF IInv, StackMirrorsApp
      <4>3. \A j \in 1 .. n : CallIDAfter(g, j) < nextID
        BY <1>b, <1>e, <4>2 DEF IInv, StoresAreInStep
      <4>4. fl.Frames = SubSeq(callStack'[g], 1, n + 1) /\ fl.StartTime <= lastTime'[g]
        BY <1>c, <1>e, <4>1
      <4>5. CallIDAfter(h, i) = nextID /\ i - 1 = n
        BY <1>a, <1>d, <3>1
      <4> QED BY <3>1, <4>3, <4>4, <4>5
    <3>2. CASE i \in 1 .. Len(callStack[h]) /\ callStack'[h][i] = callStack[h][i]
      <4>1. /\ funcLogs[CallID(h, i)].Frames = SubSeq(callStack[h], 1, i)
            /\ funcLogs[CallID(h, i)].StartTime <= lastTime[h]
            /\ \A j \in 1 .. i - 1 : CallID(h, j) < CallID(h, i)
        BY <3>2 DEF IInv, RunningCallsAreDescribed
      <4>2. SubSeq(callStack'[h], 1, i) = SubSeq(callStack[h], 1, i)
        <5>1. CASE h = g
          <6>1. callStack[g] \in Seq(TxID) /\ callStack'[g] = Append(callStack[g], tx) /\ tx \in TxID
            BY <1>a, <1>e
          <6>2. PICK s, t : s = callStack[g] /\ t = callStack'[g]
            OBVIOUS
          <6>3. s \in Seq(TxID) /\ t \in Seq(TxID)
            BY <6>1, <6>2
          <6>4. i \in Nat /\ i <= Len(s) /\ i <= Len(t) /\ \A j \in 1 .. i : t[j] = s[j]
            BY <1>a, <3>2, <5>1, <6>2
          <6>5. SubSeq(t, 1, i) = SubSeq(s, 1, i)
            BY <6>3, <6>4, SamePrefix
          <6> QED BY <5>1, <6>2, <6>5
        <5>2. CASE h # g
          BY <1>a, <5>2
        <5> QED BY <5>1, <5>2
      <4>3. \A j \in 1 .. i - 1 : CallIDAfter(h, j) = CallID(h, j)
        <5>1. Len(callStack[h]) \in Nat
          BY DEF IInv, TypeOK, AppTypeOK
        <5> QED BY <1>b, <3>2, <5>1
      <4>4. funcLogs[CallID(h, i)].StartTime \in Nat
        BY <3>2, TimeAssumption DEF IInv, StackMirrorsApp, TypeOK, SimTypeOK, IsMap, FuncLog
      <4>5. funcLogs[CallID(h, i)].StartTime <= lastTime'[h]
        BY <1>c, <1>e, <4>1, <4>4
      <4> QED BY <1>b, <3>2, <4>1, <4>2, <4>3, <4>5
    <3> QED BY <1>f, <3>1, <3>2
  <2>2. ASSUME NEW id \in DOMAIN funcLogs', ~IsEnded(funcLogs'[id])
        PROVE  \E t \in DOMAIN txids' : txids'[t] = id
    <3>1. CASE id = nextID
      BY <1>a, <1>c, <3>1 DEF With
    <3>2. CASE id # nextID
      <4>1. id \in DOMAIN funcLogs /\ funcLogs'[id] = funcLogs[id]
        BY <1>c, <3>2 DEF With
      <4>2. PICK t \in DOMAIN txids : txids[t] = id
        BY <2>2, <4>1 DEF IInv, RunningCallsAreDescribed
      <4> QED BY <1>a, <1>c, <4>2 DEF With
    <3> QED BY <3>1, <3>2
  <2> QED BY <2>1, <2>2 DEF RunningCallsAreDescribed, CallID, CallIDAfter
<1>6. StoresAreInStep'
  BY <1>a, <1>c, <1>e DEF IInv, StoresAreInStep, With
<1>7. FlushPeriod'
  BY <1>c DEF FlushPeriod
<1> QED BY <1>1, <1>2, <1>3, <1>4, <1>5, <1>6, <1>7 DEF IInv

-----------------------------------------------------------------------------
(***************************************************************************)
(* The end of a call                                                       *)
(***************************************************************************)

\* The end of a call changes the record of the innermost call of its
\* goroutine, takes it off the stack and leaves every other running call.
LEMMA EndFacts ==
  ASSUME IInv, NEW g \in GID, NEW ts \in Time, End(g, ts)
  PROVE  LET n == Len(callStack[g])
             tx == callStack[g][n]
             id == CallID(g, n)
         IN
         /\ n \in Nat \ {0}
         /\ tx \in DOMAIN txids
         /\ id \in DOMAIN funcLogs
         /\ callStack' \in [GID -> Seq(TxID)]
         /\ callStack'[g] = SubSeq(callStack[g], 1, n - 1)
         /\ Len(callStack'[g]) = n - 1
         /\ \A h \in GID : h # g => callStack'[h] = callStack[h]
         /\ txids' = Without(txids, {tx})
         /\ funcLogs' = [funcLogs EXCEPT ![id].EndTime = ts]
         /\ stacks' = With(stacks, g, IF n = 1 THEN NotFoundParent ELSE CallID(g, n - 1))
         /\ DOMAIN goroutines' = DOMAIN goroutines
         /\ g \in DOMAIN goroutines
<1> DEFINE n == Len(callStack[g])
           tx == callStack[g][n]
           id == CallID(g, n)
           raw == EndEvent(g, ts)
<1>1. callStack[g] \in Seq(TxID) /\ callStack[g] # <<>>
  BY DEF IInv, TypeOK, AppTypeOK, End, LeaveCall
<1>2. n \in Nat \ {0} /\ n \in 1 .. Len(callStack[g])
  BY <1>1
<1>3. /\ tx \in DOMAIN txids
      /\ id \in DOMAIN funcLogs
      /\ funcLogs[id].ParentID = IF n = 1 THEN NotFoundParent ELSE CallID(g, n - 1)
  BY <1>2 DEF IInv, StackMirrorsApp
<1>4. /\ callStack' \in [GID -> Seq(TxID)]
      /\ callStack'[g] = SubSeq(callStack[g], 1, n - 1)
      /\ \A h \in GID : h # g => callStack'[h] = callStack[h]
  BY <1>1, <1>2 DEF IInv, TypeOK, AppTypeOK, End, LeaveCall
<1>5. Len(callStack'[g]) = n - 1
  BY <1>1, <1>2, <1>4
<1>6. raw.GID = g /\ raw.TxID = tx /\ raw.Timestamp = ts /\ raw.Tag = FuncEnd
  BY DEF EndEvent
<1>7. NextFuncEnd(raw)
  BY <1>6 DEF End, ProcessRaw, SimNext, FuncStart, FuncEnd
<1>8. txids[raw.TxID] = id
  BY <1>6 DEF CallID
<1> HIDE DEF raw, id
<1>9. /\ txids' = Without(txids, {tx})
      /\ funcLogs' = [funcLogs EXCEPT ![id].EndTime = ts]
      /\ stacks' = With(stacks, g, IF n = 1 THEN NotFoundParent ELSE CallID(g, n - 1))
  BY <1>3, <1>6, <1>7, <1>8 DEF NextFuncEnd
<1>10. DOMAIN goroutines' = DOMAIN goroutines /\ g \in DOMAIN goroutines
  BY <1>6, <1>7 DEF NextFuncEnd, NextPanics
<1> QED BY <1>2, <1>3, <1>4, <1>5, <1>9, <1>10 DEF id

\* The other running calls: they are those that stay on a stack, at the same
\* place, with the same record.
LEMMA EndOthers ==
  ASSUME IInv, NEW g \in GID, NEW ts \in Time, End(g, ts)
  PROVE  LET n == Len(callStack[g])
             tx == callStack[g][n]
         IN
         /\ \A h \in GID : \A i \in 1 .. Len(callStack[h]) :
              (h # g \/ i # n) =>
                /\ i \in 1 .. Len(callStack'[h])
                /\ callStack'[h][i] = callStack[h][i]
                /\ callStack[h][i] # tx
                /\ CallIDAfter(h, i) = CallID(h, i)
                /\ CallID(h, i) # CallID(g, n)
                /\ funcLogs'[CallID(h, i)] = funcLogs[CallID(h, i)]
         /\ \A h \in GID : \A i \in 1 .. Len(callStack'[h]) :
              i \in 1 .. Len(callStack[h]) /\ (h # g \/ i # n)
<1> DEFINE n == Len(callStack[g])
           tx == callStack[g][n]
           id == CallID(g, n)
<1>1. /\ n \in Nat \ {0}
      /\ tx \in DOMAIN txids
      /\ id \in DOMAIN funcLogs
      /\ callStack'[g] = SubSeq(callStack[g], 1, n - 1)
      /\ Len(callStack'[g]) = n - 1
      /\ \A h \in GID : h # g => callStack'[h] = callStack[h]
      /\ txids' = Without(txids, {tx})
      /\ funcLogs' = [funcLogs EXCEPT ![id].EndTime = ts]
  BY EndFacts
<1>2. callStack \in [GID -> Seq(TxID)]
  BY DEF IInv, TypeOK, AppTypeOK
<1>3. ASSUME NEW h \in GID, NEW i \in 1 .. Len(callStack[h]), h # g \/ i # n
      PROVE  /\ i \in 1 .. Len(callStack'[h])
             /\ callStack'[h][i] = callStack[h][i]
             /\ callStack[h][i] # tx
             /\ CallIDAfter(h, i) = CallID(h, i)
             /\ CallID(h, i) # CallID(g, n)
             /\ funcLogs'[CallID(h, i)] = funcLogs[CallID(h, i)]
  <2>1. i \in 1 .. Len(callStack'[h]) /\ callStack'[h][i] = callStack[h][i]
    <3>1. CASE h = g
      BY <1>1, <1>2, <1>3, <3>1
    <3>2. CASE h # g
      BY <1>1, <3>2
    <3> QED BY <3>1, <3>2
  <2>2. n \in 1 .. Len(callStack[g])
    BY <1>1
  <2>3. callStack[h][i] # tx
    <3>1. TransactionsAreUnique
      BY DEF IInv
    <3> QED BY <1>3, <2>2, <3>1 DEF TransactionsAreUnique
  <2>4. callStack[h][i] \in DOMAIN txids /\ CallID(h, i) \in DOMAIN funcLogs
    BY DEF IInv, StackMirrorsApp
  <2>5. CallIDAfter(h, i) = CallID(h, i)
    BY <1>1, <2>1, <2>3, <2>4 DEF CallID, CallIDAfter, Without, Restrict
  <2>6. CallID(h, i) # id
    BY <1>1, <2>3, <2>4 DEF IInv, TransactionsAreUnique, CallID
  <2>7. funcLogs'[CallID(h, i)] = funcLogs[CallID(h, i)]
    BY <1>1, <2>4, <2>6
  <2> QED BY <2>1, <2>3, <2>5, <2>6, <2>7
<1>4. ASSUME NEW h \in GID, NEW i \in 1 .. Len(callStack'[h])
      PROVE  i \in 1 .. Len(callStack[h]) /\ (h # g \/ i # n)
  BY <1>1
<1> QED BY <1>3, <1>4
\* The end of a call preserves the invariant.
LEMMA EndIInv ==
  ASSUME IInv, NEW g \in GID, NEW ts \in Time, End(g, ts)
  PROVE  IInv'
<1> DEFINE n == Len(callStack[g])
           tx == callStack[g][n]
           id == CallID(g, n)
<1>a. /\ n \in Nat \ {0}
      /\ tx \in DOMAIN txids
      /\ id \in DOMAIN funcLogs
      /\ callStack' \in [GID -> Seq(TxID)]
      /\ callStack'[g] = SubSeq(callStack[g], 1, n - 1)
      /\ Len(callStack'[g]) = n - 1
      /\ \A h \in GID : h # g => callStack'[h] = callStack[h]
      /\ txids' = Without(txids, {tx})
      /\ funcLogs' = [funcLogs EXCEPT ![id].EndTime = ts]
      /\ stacks' = With(stacks, g, IF n = 1 THEN NotFoundParent ELSE CallID(g, n - 1))
      /\ DOMAIN goroutines' = DOMAIN goroutines
      /\ g \in DOMAIN goroutines
  BY EndFacts
<1>b. \A h \in GID : \A i \in 1 .. Len(callStack[h]) :
        (h # g \/ i # n) =>
          /\ i \in 1 .. Len(callStack'[h])
          /\ callStack'[h][i] = callStack[h][i]
          /\ callStack[h][i] # tx
          /\ CallIDAfter(h, i) = CallID(h, i)
          /\ CallID(h, i) # id
          /\ funcLogs'[CallID(h, i)] = funcLogs[CallID(h, i)]
  BY EndOthers
<1>c. \A h \in GID : \A i \in 1 .. Len(callStack'[h]) :
        i \in 1 .. Len(callStack[h]) /\ (h # g \/ i # n)
  BY EndOthers
<1>d. /\ lastTime' = [lastTime EXCEPT ![g] = ts]
      /\ ts >= lastTime[g]
      /\ UNCHANGED <<usedTx, nextID, funcStore, goroutineStore, closing, registered>>
      /\ pc \in {"select", "drain"} /\ pc' \in {"funcLog", "drain"}
  BY DEF End, LeaveCall, ProcessRaw, CanReceive, SimNext, EndEvent, NextFuncEnd, FuncStart, FuncEnd
<1>e. /\ flCount' \in 0 .. FlCountMax
      /\ pc' = "drain" => flCount' < FlCountMax
  BY FlCountMaxAssumption
  DEF IInv, TypeOK, WorkerTypeOK, FlushPeriod, End, ProcessRaw, CanReceive
<1>f. /\ lastTime \in [GID -> Nat] /\ ts \in Nat
      /\ callStack \in [GID -> Seq(TxID)]
      /\ nextID \in Nat
  BY TimeAssumption DEF IInv, TypeOK, AppTypeOK, SimTypeOK
<1>g. DOMAIN funcLogs' = DOMAIN funcLogs /\ DOMAIN txids' = DOMAIN txids \ {tx}
  BY <1>a DEF Without, Restrict
<1>h. IsEnded(funcLogs'[id]) /\ ~IsEnded(funcLogs[id])
  <2>1. n \in 1 .. Len(callStack[g])
    BY <1>a
  <2>2. funcLogs[id].EndTime = NotEnded
    BY <2>1 DEF IInv, StackMirrorsApp
  <2>3. funcLogs[id] \in FuncLog
    BY <1>a DEF IInv, TypeOK, SimTypeOK, IsMap
  <2>4. funcLogs'[id].EndTime = ts
    BY <1>a, <2>3 DEF FuncLog
  <2> QED BY <1>f, <2>2, <2>4 DEF IsEnded, NotEnded
<1>i. n \in Nat \ {0}
  BY <1>a
<1>k. callStack'[g] \in Seq(TxID) /\ Len(callStack'[g]) = n - 1
  BY <1>a
<1>j. \A h \in GID : h # g => callStack'[h] = callStack[h]
  BY <1>a
<1>1. TypeOK'
  <2>1. AppTypeOK'
    BY <1>a, <1>d, <1>f DEF IInv, TypeOK, AppTypeOK
  <2>2. SimTypeOK'
    <3>1. EndEvent(g, ts) \in RawFuncLog /\ EndEvent(g, ts).GID = g
      BY EventType DEF IInv, EndEvent, End, LeaveCall
    <3>2. SimNext(EndEvent(g, ts))
      BY DEF End, ProcessRaw
    <3> QED BY <3>1, <3>2, SimNextType DEF IInv, TypeOK, StackMirrorsApp
  <2>3. WorkerTypeOK'
    BY <1>d, <1>e DEF IInv, TypeOK, WorkerTypeOK, PC
  <2> QED BY <2>1, <2>2, <2>3 DEF TypeOK
<1>2. StackMirrorsApp'
  <2>1. \A h \in GID : h \in DOMAIN goroutines' <=> h \in DOMAIN stacks'
    BY <1>a DEF IInv, StackMirrorsApp, With
  <2>2. ASSUME NEW h \in GID, h \notin DOMAIN stacks'
        PROVE  callStack'[h] = <<>>
    <3>1. h # g /\ h \notin DOMAIN stacks
      BY <1>a, <2>2 DEF With
    <3> QED BY <1>j, <3>1 DEF IInv, StackMirrorsApp
  <2>3. ASSUME NEW h \in GID, h \in DOMAIN stacks'
        PROVE  stacks'[h] = IF callStack'[h] = <<>> THEN NotFoundParent
                            ELSE CallIDAfter(h, Len(callStack'[h]))
    <3>1. CASE h = g
      <4>1. stacks'[g] = IF n = 1 THEN NotFoundParent ELSE CallID(g, n - 1)
        BY <1>a DEF With
      <4>2. callStack'[g] = <<>> <=> n = 1
        <5>1. callStack'[g] = <<>> <=> Len(callStack'[g]) = 0
          BY <1>k, EmptySequence
        <5> HIDE DEF n
        <5> QED BY <1>i, <1>k, <5>1
      <4>3. n # 1 => CallIDAfter(g, n - 1) = CallID(g, n - 1)
        <5> SUFFICES ASSUME n # 1 PROVE CallIDAfter(g, n - 1) = CallID(g, n - 1)
          OBVIOUS
        <5>1. n - 1 \in 1 .. n /\ n - 1 # n
          <6> HIDE DEF n
          <6> QED BY <1>i
        <5> QED BY <1>b, <5>1
      <4> QED BY <1>k, <3>1, <4>1, <4>2, <4>3
    <3>2. CASE h # g
      <4>1. h \in DOMAIN stacks /\ stacks'[h] = stacks[h] /\ callStack'[h] = callStack[h]
        BY <1>a, <2>3, <3>2 DEF With
      <4>2. callStack[h] # <<>> => Len(callStack[h]) \in 1 .. Len(callStack[h])
        BY <1>f
      <4>3. callStack[h] # <<>> => CallIDAfter(h, Len(callStack[h])) = CallID(h, Len(callStack[h]))
        BY <1>b, <3>2, <4>2
      <4> QED BY <4>1, <4>3 DEF IInv, StackMirrorsApp
    <3> QED BY <3>1, <3>2
  <2>4. ASSUME NEW h \in GID, NEW i \in 1 .. Len(callStack'[h])
        PROVE  /\ callStack'[h][i] \in DOMAIN txids'
               /\ CallIDAfter(h, i) \in DOMAIN funcLogs'
               /\ funcLogs'[CallIDAfter(h, i)].GID = h
               /\ funcLogs'[CallIDAfter(h, i)].EndTime = NotEnded
               /\ funcLogs'[CallIDAfter(h, i)].ParentID =
                    IF i = 1 THEN NotFoundParent ELSE CallIDAfter(h, i - 1)
    <3>1. i \in 1 .. Len(callStack[h]) /\ (h # g \/ i # n)
      BY <1>c
    <3>2. /\ callStack[h][i] \in DOMAIN txids
          /\ CallID(h, i) \in DOMAIN funcLogs
          /\ funcLogs[CallID(h, i)].GID = h
          /\ funcLogs[CallID(h, i)].EndTime = NotEnded
          /\ funcLogs[CallID(h, i)].ParentID =
               IF i = 1 THEN NotFoundParent ELSE CallID(h, i - 1)
      BY <3>1 DEF IInv, StackMirrorsApp
    <3>3. i # 1 => CallIDAfter(h, i - 1) = CallID(h, i - 1)
      <4>1. Len(callStack'[h]) \in Nat
        BY <1>a
      <4>2. i # 1 => i - 1 \in 1 .. Len(callStack'[h])
        BY <4>1
      <4>3. i # 1 => i - 1 \in 1 .. Len(callStack[h]) /\ (h # g \/ i - 1 # n)
        BY <1>c, <4>2
      <4> QED BY <1>b, <4>3
    <3>4. /\ callStack'[h][i] = callStack[h][i] /\ callStack[h][i] # tx
          /\ CallIDAfter(h, i) = CallID(h, i)
          /\ funcLogs'[CallID(h, i)] = funcLogs[CallID(h, i)]
      BY <1>b, <3>1
    <3> QED BY <1>g, <3>2, <3>3, <3>4
  <2>5. ASSUME NEW t \in DOMAIN txids'
        PROVE  \E h \in GID : \E i \in 1 .. Len(callStack'[h]) : callStack'[h][i] = t
    <3>1. t \in DOMAIN txids /\ t # tx
      BY <1>g
    <3>2. PICK h \in GID : \E i \in 1 .. Len(callStack[h]) : callStack[h][i] = t
      BY <3>1 DEF IInv, StackMirrorsApp
    <3>3. PICK i \in 1 .. Len(callStack[h]) : callStack[h][i] = t
      BY <3>2
    <3>4. h # g \/ i # n
      BY <3>1, <3>3
    <3> QED BY <1>b, <3>3, <3>4
  <2> QED BY <2>1, <2>2, <2>3, <2>4, <2>5 DEF StackMirrorsApp, CallID, CallIDAfter
<1>3. NothingForgotten'
  BY <1>d, <1>g DEF IInv, NothingForgotten
<1>4. TransactionsAreUnique'
  <2>1. DOMAIN txids' \subseteq usedTx'
    BY <1>d, <1>g DEF IInv, TransactionsAreUnique
  <2>2. \A a, b \in DOMAIN txids' : txids'[a] = txids'[b] => a = b
    BY <1>a, <1>g DEF IInv, TransactionsAreUnique, Without, Restrict
  <2>3. ASSUME NEW h \in GID, NEW k \in GID, NEW i \in 1 .. Len(callStack'[h]),
               NEW j \in 1 .. Len(callStack'[k]), callStack'[h][i] = callStack'[k][j]
        PROVE  h = k /\ i = j
    <3>1. i \in 1 .. Len(callStack[h]) /\ j \in 1 .. Len(callStack[k])
      BY <1>c
    <3>2. callStack[h][i] = callStack[k][j]
      BY <1>b, <1>c, <2>3
    <3>3. TransactionsAreUnique
      BY DEF IInv
    <3> QED BY <3>1, <3>2, <3>3 DEF TransactionsAreUnique
  <2> QED BY <2>1, <2>2, <2>3 DEF TransactionsAreUnique
<1>5. RunningCallsAreDescribed'
  <2>1. ASSUME NEW h \in GID, NEW i \in 1 .. Len(callStack'[h])
        PROVE  /\ funcLogs'[CallIDAfter(h, i)].Frames = SubSeq(callStack'[h], 1, i)
               /\ funcLogs'[CallIDAfter(h, i)].StartTime <= lastTime'[h]
               /\ \A j \in 1 .. i - 1 : CallIDAfter(h, j) < CallIDAfter(h, i)
    <3>1. i \in 1 .. Len(callStack[h]) /\ (h # g \/ i # n)
      BY <1>c
    <3>2. /\ CallIDAfter(h, i) = CallID(h, i)
          /\ funcLogs'[CallID(h, i)] = funcLogs[CallID(h, i)]
      BY <1>b, <3>1
    <3>3. /\ funcLogs[CallID(h, i)].Frames = SubSeq(callStack[h], 1, i)
          /\ funcLogs[CallID(h, i)].StartTime <= lastTime[h]
          /\ \A j \in 1 .. i - 1 : CallID(h, j) < CallID(h, i)
      BY <3>1 DEF IInv, RunningCallsAreDescribed
    <3>4. SubSeq(callStack'[h], 1, i) = SubSeq(callStack[h], 1, i)
      <4>1. CASE h = g
        BY <1>a, <1>f, <3>1, <4>1
      <4>2. CASE h # g
        BY <1>a, <4>2
      <4> QED BY <4>1, <4>2
    <3>5. \A j \in 1 .. i - 1 : CallIDAfter(h, j) = CallID(h, j)
      <4>1. Len(callStack'[h]) \in Nat
        BY <1>a
      <4>2. \A j \in 1 .. i - 1 : j \in 1 .. Len(callStack'[h])
        BY <4>1
      <4> QED BY <1>b, <1>c, <4>2
    <3>6. funcLogs[CallID(h, i)].StartTime \in Nat
      BY <3>1, TimeAssumption DEF IInv, StackMirrorsApp, TypeOK, SimTypeOK, IsMap, FuncLog
    <3>7. funcLogs[CallID(h, i)].StartTime <= lastTime'[h]
      BY <1>d, <1>f, <3>3, <3>6
    <3> QED BY <3>2, <3>3, <3>4, <3>5, <3>7
  <2>2. ASSUME NEW o \in DOMAIN funcLogs', ~IsEnded(funcLogs'[o])
        PROVE  \E t \in DOMAIN txids' : txids'[t] = o
    <3>1. o # id /\ o \in DOMAIN funcLogs /\ funcLogs'[o] = funcLogs[o]
      BY <1>a, <1>g, <1>h, <2>2
    <3>2. PICK t \in DOMAIN txids : txids[t] = o
      BY <2>2, <3>1 DEF IInv, RunningCallsAreDescribed
    <3>3. t # tx
      BY <3>1, <3>2 DEF CallID
    <3> QED BY <1>a, <1>g, <3>2, <3>3 DEF Without, Restrict
  <2> QED BY <2>1, <2>2 DEF RunningCallsAreDescribed, CallID, CallIDAfter
<1>6. StoresAreInStep'
  <2>1. \A o \in DOMAIN funcLogs : o # id => funcLogs'[o] = funcLogs[o]
    BY <1>a
  <2>2. id \in DOMAIN funcStore => ~IsEnded(funcStore[id])
    BY <1>a, <1>h DEF IInv, StoresAreInStep
  <2>3. \A o \in DOMAIN funcLogs' \cap DOMAIN funcStore' :
          IsEnded(funcStore'[o]) => funcStore'[o] = funcLogs'[o]
    BY <1>d, <1>g, <2>1, <2>2 DEF IInv, StoresAreInStep
  <2> QED BY <1>a, <1>d, <1>g, <2>3 DEF IInv, StoresAreInStep
<1>7. FlushPeriod'
  BY <1>d, <1>e DEF FlushPeriod
<1> QED BY <1>1, <1>2, <1>3, <1>4, <1>5, <1>6, <1>7 DEF IInv
-----------------------------------------------------------------------------
(***************************************************************************)
(* The theorems                                                            *)
(***************************************************************************)

\* Every step preserves the invariant.
LEMMA NextIInv == IInv /\ [Next]_vars => IInv'
<1> SUFFICES ASSUME IInv, [Next]_vars PROVE IInv'
  OBVIOUS
<1>1. CASE \E g \in GID, tx \in TxID, ts \in Time : Start(g, tx, ts)
  BY <1>1, StartIInv
<1>2. CASE \E g \in GID, ts \in Time : End(g, ts)
  BY <1>2, EndIInv
<1>3. CASE Internal
  BY <1>3, QuietIInv, WriteFuncLogsIInv, WriteGoroutinesIInv, ClearIInv DEF Internal, WorkerStep
<1>4. CASE UNCHANGED vars
  <2> USE <1>4 DEF vars, appVars, simVars, workerVars
  <2>1. TypeOK'
    BY DEF IInv, TypeOK, AppTypeOK, SimTypeOK, WorkerTypeOK
  <2>2. StackMirrorsApp' /\ TransactionsAreUnique' /\ RunningCallsAreDescribed'
    BY DEF IInv, StackMirrorsApp, TransactionsAreUnique, RunningCallsAreDescribed, CallID
  <2>3. NothingForgotten' /\ StoresAreInStep' /\ FlushPeriod'
    BY DEF IInv, NothingForgotten, StoresAreInStep, FlushPeriod
  <2> QED BY <2>1, <2>2, <2>3 DEF IInv
<1> QED BY <1>1, <1>2, <1>3, <1>4 DEF Next

\* The inductive invariant holds in every reachable state.
THEOREM RecordingInvariant == Spec => []IInv
BY InitIInv, NextIInv, PTL DEF Spec

\* The simulator, the worker and the stores always hold well-formed records.
THEOREM TypeCorrect == Spec => []TypeOK
<1>1. IInv => TypeOK
  BY DEF IInv
<1> QED BY RecordingInvariant, <1>1, PTL

\* The simulator's goroutine stacks, transactions and parent links always
\* describe the calls that run in the traced process (StateSimulator.Next).
THEOREM SimulatorMirrorsProcess == Spec => []StackMirrorsApp
<1>1. IInv => StackMirrorsApp
  BY DEF IInv
<1> QED BY RecordingInvariant, <1>1, PTL

\* No event of a well-behaved traced process makes StateSimulator.Next panic,
\* however flushes and ends of calls interleave.
THEOREM SimulatorNeverPanics == Spec => []NoPanic
<1>1. IInv => NoPanic
  <2> SUFFICES ASSUME IInv, NEW g \in GID, callStack[g] # <<>>
               PROVE  ~NextPanics(EndEvent(g, lastTime[g]))
    BY DEF NoPanic
  <2> DEFINE n == Len(callStack[g])
  <2>1. callStack[g] \in Seq(TxID)
    BY DEF IInv, TypeOK, AppTypeOK
  <2>2. n \in 1 .. Len(callStack[g])
    BY <2>1
  <2>3. callStack[g][n] \in DOMAIN txids /\ txids[callStack[g][n]] \in DOMAIN funcLogs
    BY <2>2 DEF IInv, StackMirrorsApp, CallID
  <2>4. g \in DOMAIN goroutines
    BY DEF IInv, StackMirrorsApp
  <2> QED BY <2>3, <2>4 DEF NextPanics, EndEvent
<1> QED BY RecordingInvariant, <1>1, PTL

\* writeSS followed by Clear never forgets a call that is not saved.
THEOREM NothingIsForgotten == Spec => []NothingForgotten
<1>1. IInv => NothingForgotten
  BY DEF IInv
<1> QED BY RecordingInvariant, <1>1, PTL

\* A log that the worker has closed holds every call and every goroutine that
\* the simulator ever saw, in the version it saw last.
THEOREM ClosingSavesEverything == Spec => []ClosedLogIsComplete
<1>1. IInv => ClosedLogIsComplete
  <2> SUFFICES ASSUME IInv, pc \in {"close", "reopen", "done"}
               PROVE  funcStore = Ledger /\ goroutineStore = goroutines
    BY DEF ClosedLogIsComplete
  <2>1. /\ \A id \in DOMAIN funcLogs : id \in DOMAIN funcStore /\ funcStore[id] = funcLogs[id]
        /\ DOMAIN funcLogs \subseteq 0 .. nextID - 1
        /\ DOMAIN funcStore \subseteq 0 .. nextID - 1
        /\ goroutineStore = goroutines
    BY DEF IInv, StoresAreInStep
  <2>2. DOMAIN funcStore = 0 .. nextID - 1
    BY <2>1 DEF IInv, NothingForgotten
  <2>3. funcStore = [id \in DOMAIN funcStore |-> funcStore[id]]
    BY DEF IInv, TypeOK, WorkerTypeOK, IsMap
  <2> QED BY <2>1, <2>2, <2>3 DEF Ledger
<1> QED BY RecordingInvariant, <1>1, PTL

\* A stored call that has ended is never rewritten with other contents and
\* never removed.
THEOREM StoredCallsStay == Spec => StoredCallsAreFinal
<1> DEFINE Final == \A id \in DOMAIN funcStore :
                      /\ id \in DOMAIN funcStore'
                      /\ IsEnded(funcStore[id]) => funcStore'[id] = funcStore[id]
<1>1. IInv /\ [Next]_vars => [Final]_vars
  <2> SUFFICES ASSUME IInv, Next PROVE Final
    OBVIOUS
  <2>1. CASE WriteFuncLogs
    BY <2>1 DEF WriteFuncLogs, Merge, IInv, StoresAreInStep
  <2>2. CASE UNCHANGED funcStore
    BY <2>2
  <2> QED BY <2>1, <2>2
          DEF Next, Internal, WorkerStep, Start, End, ProcessRaw, NewSimulator, WriteGoroutines,
              ClearSimulator, DeleteSimulator, CloseLog, ReopenLog, TakeSymbols, Idle, Tick, Stop
<1> QED BY RecordingInvariant, <1>1, PTL DEF Spec, StoredCallsAreFinal

-----------------------------------------------------------------------------
(* The ledger that the simulator and the FuncLog store represent            *)

\* The ledger, entry by entry.
LEMMA LedgerAt ==
  /\ DOMAIN Ledger = 0 .. nextID - 1
  /\ \A id \in 0 .. nextID - 1 : Ledger[id] = IF id \in DOMAIN funcLogs THEN funcLogs[id] ELSE funcStore[id]
BY DEF Ledger

\* The ledger after a step, entry by entry.
LEMMA LedgerAtNext ==
  /\ DOMAIN Ledger' = 0 .. nextID' - 1
  /\ \A id \in 0 .. nextID' - 1 : Ledger'[id] = IF id \in DOMAIN funcLogs' THEN funcLogs'[id] ELSE funcStore'[id]
BY DEF Ledger

\* Every entry is a record of a call.
LEMMA LedgerType ==
  ASSUME IInv
  PROVE  Ledger \in [0 .. nextID - 1 -> FuncLog]
<1>1. (\A id \in DOMAIN funcLogs : funcLogs[id] \in FuncLog) /\ (\A id \in DOMAIN funcStore : funcStore[id] \in FuncLog)
  BY DEF IInv, TypeOK, SimTypeOK, WorkerTypeOK, IsMap
<1>2. \A id \in 0 .. nextID - 1 : id \notin DOMAIN funcLogs => id \in DOMAIN funcStore
  BY DEF IInv, NothingForgotten
<1> QED
  BY <1>1, <1>2 DEF Ledger

\* The open calls of a goroutine in the ledger are the calls on its stack.
LEMMA OpenCalls ==
  ASSUME IInv, NEW g \in GID
  PROVE  /\ \A id \in Abstract!Open(g) : \E i \in 1 .. Len(callStack[g]) : id = CallID(g, i)
         /\ \A i \in 1 .. Len(callStack[g]) :
              /\ CallID(g, i) \in Abstract!Open(g) /\ CallID(g, i) \in 0 .. nextID - 1 /\ CallID(g, i) \in DOMAIN funcLogs
              /\ Ledger[CallID(g, i)] = funcLogs[CallID(g, i)]
<1>1. ASSUME NEW id \in Abstract!Open(g)
      PROVE  \E i \in 1 .. Len(callStack[g]) : id = CallID(g, i)
  <2>1. id \in 0 .. nextID - 1 /\ Ledger[id].GID = g /\ Ledger[id].EndTime = NotEnded
    BY <1>1, LedgerAt DEF Abstract!Open, Abstract!NotEnded, NotEnded
  <2>2. id \in DOMAIN funcLogs
    BY <2>1, LedgerAt DEF IInv, NothingForgotten, IsEnded
  <2>3. funcLogs[id].GID = g /\ ~IsEnded(funcLogs[id])
    BY <2>1, <2>2, LedgerAt DEF IsEnded
  <2>4. PICK tx \in DOMAIN txids : txids[tx] = id
    BY <2>2, <2>3 DEF IInv, RunningCallsAreDescribed
  <2>5. PICK h \in GID : \E i \in 1 .. Len(callStack[h]) : callStack[h][i] = tx
    BY <2>4 DEF IInv, StackMirrorsApp
  <2>6. PICK i \in 1 .. Len(callStack[h]) : callStack[h][i] = tx
    BY <2>5
  <2>7. CallID(h, i) = id
    BY <2>4, <2>6 DEF CallID
  <2>8. funcLogs[CallID(h, i)].GID = h
    BY <2>6 DEF IInv, StackMirrorsApp
  <2> QED
    BY <2>3, <2>6, <2>7, <2>8
<1>2. ASSUME NEW i \in 1 .. Len(callStack[g])
      PROVE  /\ CallID(g, i) \in Abstract!Open(g) /\ CallID(g, i) \in 0 .. nextID - 1 /\ CallID(g, i) \in DOMAIN funcLogs
             /\ Ledger[CallID(g, i)] = funcLogs[CallID(g, i)]
  <2>1. CallID(g, i) \in DOMAIN funcLogs /\ funcLogs[CallID(g, i)].GID = g /\ funcLogs[CallID(g, i)].EndTime = NotEnded
    BY DEF IInv, StackMirrorsApp
  <2>2. CallID(g, i) \in 0 .. nextID - 1
    BY <2>1 DEF IInv, StoresAreInStep
  <2>3. Ledger[CallID(g, i)] = funcLogs[CallID(g, i)]
    BY <2>1, <2>2, LedgerAt
  <2> QED
    BY <2>1, <2>2, <2>3, LedgerAt DEF Abstract!Open, Abstract!NotEnded, NotEnded
<1> QED
  BY <1>1, <1>2

\* The top of its stack is the innermost open call of a goroutine.
LEMMA TopIsInnermost ==
  ASSUME IInv, NEW g \in GID
  PROVE  Abstract!Innermost(g, IF callStack[g] = <<>> THEN NotFoundParent ELSE CallID(g, Len(callStack[g])))
<1>1. callStack[g] \in Seq(TxID) /\ Len(callStack[g]) \in Nat /\ (callStack[g] = <<>> <=> Len(callStack[g]) = 0)
  BY EmptySequence DEF IInv, TypeOK, AppTypeOK
<1>2. CASE callStack[g] = <<>>
  <2>1. Abstract!Open(g) = {}
    <3>1. 1 .. Len(callStack[g]) = {}
      BY <1>1, <1>2
    <3> QED
      BY <3>1, OpenCalls
  <2> QED
    BY <1>2, <2>1 DEF Abstract!Innermost, Abstract!NotFoundParent, NotFoundParent
<1>3. CASE callStack[g] # <<>>
  <2> DEFINE n == Len(callStack[g])
  <2>1. n \in 1 .. Len(callStack[g]) /\ n \in Nat
    BY <1>1, <1>3
  <2>2. ASSUME NEW other \in Abstract!Open(g)
        PROVE  other <= CallID(g, n)
    <3>1. PICK i \in 1 .. Len(callStack[g]) : other = CallID(g, i)
      BY OpenCalls
    <3>2. other \in Int /\ CallID(g, n) \in Int
      <4>1. CallID(g, i) \in 0 .. nextID - 1 /\ CallID(g, n) \in 0 .. nextID - 1
        BY <2>1, OpenCalls
      <4> QED
        BY <3>1, <4>1
    <3>3. CASE i = n
      BY <3>1, <3>2, <3>3
    <3>4. CASE i # n
      <4>1. i \in 1 .. n - 1
        BY <2>1, <3>4
      <4>2. CallID(g, i) < CallID(g, n)
        BY <2>1, <4>1 DEF IInv, RunningCallsAreDescribed
      <4> QED
        BY <3>1, <3>2, <4>2
    <3> QED
      BY <3>3, <3>4
  <2>3. CallID(g, n) \in Abstract!Open(g)
    BY <2>1, OpenCalls
  <2> QED
    BY <1>3, <2>2, <2>3 DEF Abstract!Innermost
<1> QED
  BY <1>2, <1>3

-----------------------------------------------------------------------------
(* The refinement, step by step                                            *)

\* An empty simulator and an empty store are an empty ledger.
LEMMA LedgerInit == Init => Abstract!Init
<1> SUFFICES ASSUME Init PROVE Abstract!Init
  OBVIOUS
<1>1. nextID = 0
  BY DEF Init, WorkerInit, SimInit
<1>2. 0 .. nextID - 1 = {}
  BY <1>1
<1> QED
  BY <1>2 DEF Ledger, Abstract!Init, Abstract!EmptyMap

\* A start event adds one entry, whose stack trace continues that of its parent.
LEMMA StartLedger ==
  ASSUME IInv, NEW g \in GID, NEW tx \in TxID, NEW ts \in Time, Start(g, tx, ts)
  PROVE  LET parent == IF callStack[g] = <<>> THEN NotFoundParent ELSE CallID(g, Len(callStack[g])) IN
         /\ nextID \in Nat /\ nextID' = nextID + 1 /\ callStack[g] \in Seq(TxID)
         /\ parent \in (0 .. nextID - 1) \cup {NotFoundParent}
         /\ IF parent = NotFoundParent THEN callStack[g] = <<>> ELSE Ledger[parent].Frames = callStack[g] /\ Ledger[parent].GID = g
         /\ Ledger' = With(Ledger, nextID,
              [StartTime |-> ts, EndTime |-> NotEnded, ParentID |-> parent, Frames |-> Append(callStack[g], tx), GID |-> g])
<1> DEFINE n == Len(callStack[g])
           parent == IF callStack[g] = <<>> THEN NotFoundParent ELSE CallID(g, n)
           fl == [StartTime |-> ts, EndTime |-> NotEnded, ParentID |-> parent, Frames |-> Append(callStack[g], tx), GID |-> g]
<1>1. callStack[g] \in Seq(TxID) /\ n \in Nat /\ (callStack[g] = <<>> <=> n = 0)
  BY EmptySequence DEF IInv, TypeOK, AppTypeOK
<1>2. nextID \in Nat /\ nextID \notin DOMAIN funcLogs
  BY DEF IInv, TypeOK, SimTypeOK, StoresAreInStep
<1>3. /\ funcLogs'[nextID] = fl /\ nextID' = nextID + 1 /\ funcStore' = funcStore
      /\ funcLogs' = With(funcLogs, nextID, funcLogs'[nextID])
  BY StartParent
<1>4. /\ DOMAIN funcLogs' = DOMAIN funcLogs \cup {nextID}
      /\ \A id \in DOMAIN funcLogs : funcLogs'[id] = funcLogs[id]
  BY <1>2, <1>3 DEF With
<1>5. parent \in (0 .. nextID - 1) \cup {NotFoundParent}
  <2>1. CASE callStack[g] = <<>>
    BY <2>1
  <2>2. CASE callStack[g] # <<>>
    <3>1. n \in 1 .. Len(callStack[g])
      BY <1>1, <2>2
    <3>2. CallID(g, n) \in 0 .. nextID - 1
      BY <3>1, OpenCalls
    <3> QED
      BY <2>2, <3>2
  <2> QED
    BY <2>1, <2>2
<1>6. IF parent = NotFoundParent THEN callStack[g] = <<>> ELSE Ledger[parent].Frames = callStack[g] /\ Ledger[parent].GID = g
  <2>1. CASE callStack[g] = <<>>
    BY <2>1
  <2>2. CASE callStack[g] # <<>>
    <3>1. n \in 1 .. Len(callStack[g])
      BY <1>1, <2>2
    <3>2. CallID(g, n) \in 0 .. nextID - 1 /\ Ledger[CallID(g, n)] = funcLogs[CallID(g, n)]
      BY <3>1, OpenCalls
    <3>3. funcLogs[CallID(g, n)].Frames = SubSeq(callStack[g], 1, n) /\ funcLogs[CallID(g, n)].GID = g
      BY <3>1 DEF IInv, RunningCallsAreDescribed, StackMirrorsApp
    <3>4. SubSeq(callStack[g], 1, n) = callStack[g]
      BY <1>1
    <3>5. CallID(g, n) # NotFoundParent
      BY <1>2, <3>2 DEF NotFoundParent
    <3> QED
      BY <2>2, <3>2, <3>3, <3>4, <3>5
  <2> QED
    BY <2>1, <2>2
<1>7. Ledger' = With(Ledger, nextID, fl)
  <2>1. 0 .. nextID' - 1 = (0 .. nextID - 1) \cup {nextID}
    BY <1>2, <1>3
  <2>2. ASSUME NEW id \in 0 .. nextID - 1
        PROVE  Ledger'[id] = Ledger[id] /\ id # nextID
    <3>1. id # nextID /\ id \in 0 .. nextID' - 1
      BY <1>2, <2>1
    <3>2. id \in DOMAIN funcLogs' <=> id \in DOMAIN funcLogs
      BY <1>4, <3>1
    <3> QED
      BY <1>3, <1>4, <3>1, <3>2, LedgerAt, LedgerAtNext
  <2>3. Ledger'[nextID] = fl
    BY <1>3, <1>4, <2>1, LedgerAtNext
  <2>4. Ledger' = [id \in (0 .. nextID - 1) \cup {nextID} |-> Ledger'[id]]
    BY <2>1 DEF Ledger
  <2>5. With(Ledger, nextID, fl) = [id \in (0 .. nextID - 1) \cup {nextID} |-> IF id = nextID THEN fl ELSE Ledger[id]]
    BY LedgerAt DEF With
  <2> HIDE DEF fl
  <2> QED
    BY <2>2, <2>3, <2>4, <2>5
<1> QED
  BY <1>1, <1>2, <1>3, <1>5, <1>6, <1>7

\* A start event opens a call under the innermost open one of its goroutine.
LEMMA StartBegins ==
  ASSUME IInv, NEW g \in GID, NEW tx \in TxID, NEW ts \in Time, Start(g, tx, ts)
  PROVE  Abstract!Begin(g, tx, ts)
<1> DEFINE parent == IF callStack[g] = <<>> THEN NotFoundParent ELSE CallID(g, Len(callStack[g]))
           fl == [StartTime |-> ts, EndTime |-> NotEnded, ParentID |-> parent, Frames |-> Append(callStack[g], tx), GID |-> g]
<1>1. /\ nextID \in Nat /\ parent \in (0 .. nextID - 1) \cup {NotFoundParent}
      /\ IF parent = NotFoundParent THEN callStack[g] = <<>> ELSE Ledger[parent].Frames = callStack[g]
      /\ Ledger' = With(Ledger, nextID, fl)
  BY StartLedger
<1>2. DOMAIN Ledger = 0 .. nextID - 1
  BY LedgerAt
<1>3. nextID \in {0} \cup {k + 1 : k \in DOMAIN Ledger}
  <2>1. CASE nextID = 0
    BY <2>1
  <2>2. CASE nextID # 0
    <3>1. nextID - 1 \in 0 .. nextID - 1 /\ (nextID - 1) + 1 = nextID
      BY <1>1, <2>2
    <3> QED
      BY <1>2, <3>1
  <2> QED
    BY <2>1, <2>2
<1>4. Abstract!Innermost(g, parent)
  BY TopIsInnermost
<1>5. fl = [StartTime |-> ts, EndTime |-> NotEnded, ParentID |-> parent,
            Frames |-> Append(IF parent = NotFoundParent THEN <<>> ELSE Ledger[parent].Frames, tx), GID |-> g]
  BY <1>1
<1>6. parent \in DOMAIN Ledger \cup {NotFoundParent} /\ Ledger' = With(Ledger, nextID, fl)
  BY <1>1, <1>2
<1> HIDE DEF fl, parent
<1> QED
  BY <1>2, <1>3, <1>4, <1>5, <1>6
  DEF Abstract!Begin, Abstract!With, With, Abstract!NotFoundParent, NotFoundParent, Abstract!NotEnded, NotEnded

\* An end event closes the innermost open call of its goroutine.
LEMMA EndEnds ==
  ASSUME IInv, NEW g \in GID, NEW ts \in Time, End(g, ts)
  PROVE  Abstract!End(g, ts)
<1> DEFINE n == Len(callStack[g])
           id == CallID(g, n)
<1>1. n \in 1 .. Len(callStack[g]) /\ callStack[g] # <<>>
  BY EndFacts, EmptySequence DEF End, LeaveCall
<1>2. id \in DOMAIN funcLogs /\ funcLogs' = [funcLogs EXCEPT ![id].EndTime = ts]
  BY EndFacts
<1>3. nextID' = nextID /\ funcStore' = funcStore /\ ts >= lastTime[g]
  BY DEF End, LeaveCall, ProcessRaw, SimNext, NextFuncEnd, NextFuncStart, EndEvent, FuncStart, FuncEnd
<1>4. id \in Abstract!Open(g) /\ id \in 0 .. nextID - 1 /\ Ledger[id] = funcLogs[id]
  BY <1>1, OpenCalls
<1>5. Abstract!Innermost(g, id)
  BY <1>1, TopIsInnermost
<1>6. ts >= Ledger[id].StartTime
  <2>1. funcLogs[id].StartTime <= lastTime[g]
    BY <1>1 DEF IInv, RunningCallsAreDescribed
  <2>2. funcLogs[id].StartTime \in Nat /\ lastTime[g] \in Nat /\ ts \in Nat
    BY <1>2, TimeAssumption DEF IInv, TypeOK, AppTypeOK, SimTypeOK, IsMap, FuncLog
  <2> QED
    BY <1>3, <1>4, <2>1, <2>2
<1>7. Ledger' = [Ledger EXCEPT ![id].EndTime = ts]
  <2>1. DOMAIN funcLogs' = DOMAIN funcLogs /\ funcLogs'[id] = [funcLogs[id] EXCEPT !.EndTime = ts]
    BY <1>2
  <2>2. \A x \in DOMAIN funcLogs : x # id => funcLogs'[x] = funcLogs[x]
    BY <1>2
  <2>3. \A x \in 0 .. nextID - 1 : Ledger'[x] = IF x = id THEN [Ledger[id] EXCEPT !.EndTime = ts] ELSE Ledger[x]
    BY <1>2, <1>3, <1>4, <2>1, <2>2, LedgerAt, LedgerAtNext
  <2>4. Ledger' = [x \in 0 .. nextID - 1 |-> Ledger'[x]]
    BY <1>3 DEF Ledger
  <2>5. Ledger = [x \in 0 .. nextID - 1 |-> Ledger[x]]
    BY DEF Ledger
  <2> QED
    BY <1>4, <2>3, <2>4, <2>5
<1> HIDE DEF id, n
<1> QED
  BY <1>4, <1>5, <1>6, <1>7 DEF Abstract!End

\* Ticks, flushes, clearing and closing cannot be seen in the ledger.
LEMMA InternalStutters ==
  ASSUME IInv, Internal
  PROVE  Ledger' = Ledger
<1>1. nextID' = nextID
  BY DEF Internal, WorkerStep, TakeSymbols, Idle, Tick, Stop, NewSimulator, WriteFuncLogs, WriteGoroutines, ClearSimulator, Clear,
         DeleteSimulator, CloseLog, ReopenLog, simVars
<1>2. ASSUME NEW id \in 0 .. nextID - 1
      PROVE  (IF id \in DOMAIN funcLogs' THEN funcLogs'[id] ELSE funcStore'[id]) = IF id \in DOMAIN funcLogs THEN funcLogs[id] ELSE funcStore[id]
  <2>1. CASE WriteFuncLogs
    <3>1. funcLogs' = funcLogs /\ funcStore' = Merge(funcStore, funcLogs)
      BY <2>1 DEF WriteFuncLogs, simVars
    <3>2. id \notin DOMAIN funcLogs => id \in DOMAIN funcStore
      BY DEF IInv, NothingForgotten
    <3> QED
      BY <3>1, <3>2 DEF Merge
  <2>2. CASE ClearSimulator
    <3>1. pc = "clear" /\ funcStore' = funcStore
      BY <2>2 DEF ClearSimulator
    <3>2. /\ \A x : x \in DOMAIN funcLogs' => x \in DOMAIN funcLogs
          /\ \A x \in DOMAIN funcLogs' : funcLogs'[x] = funcLogs[x]
      BY <2>2 DEF ClearSimulator, Clear, Without, Restrict
    <3>3. \A x \in DOMAIN funcLogs : funcStore[x] = funcLogs[x]
      BY <3>1 DEF IInv, StoresAreInStep
    <3> QED
      BY <3>1, <3>2, <3>3
  <2>3. CASE ~WriteFuncLogs /\ ~ClearSimulator
    BY <2>3 DEF Internal, WorkerStep, TakeSymbols, Idle, Tick, Stop, NewSimulator, WriteGoroutines, DeleteSimulator, CloseLog, ReopenLog, simVars
  <2> QED
    BY <2>1, <2>2, <2>3
<1> QED
  BY <1>1, <1>2 DEF Ledger

\* Every step of recording is a step of the ledger or leaves it alone.
LEMMA LedgerStep ==
  ASSUME IInv, [Next]_vars
  PROVE  [Abstract!Next]_Ledger
<1>1. CASE \E g \in GID, tx \in TxID, ts \in Time : Start(g, tx, ts)
  BY <1>1, StartBegins DEF Abstract!Next
<1>2. CASE \E g \in GID, ts \in Time : End(g, ts)
  BY <1>2, EndEnds DEF Abstract!Next
<1>3. CASE Internal
  BY <1>3, InternalStutters
<1>4. CASE UNCHANGED vars
  <2>1. nextID' = nextID /\ funcLogs' = funcLogs /\ funcStore' = funcStore
    BY <1>4 DEF vars, simVars, workerVars
  <2> QED
    BY <2>1 DEF Ledger
<1> QED
  BY <1>1, <1>2, <1>3, <1>4 DEF Next

\* No entry is lost or altered, except that an open call may end.
LEMMA LedgerGrows ==
  ASSUME IInv, [Next]_vars
  PROVE  /\ nextID \in Nat /\ nextID' \in Nat /\ nextID <= nextID'
         /\ \A id \in 0 .. nextID - 1 :
              \/ Ledger'[id] = Ledger[id]
              \/ Ledger[id].EndTime = NotEnded /\ \E ts \in Time : Ledger'[id] = [Ledger[id] EXCEPT !.EndTime = ts]
<1>0. nextID \in Nat /\ Ledger \in [0 .. nextID - 1 -> FuncLog] /\ DOMAIN Ledger = 0 .. nextID - 1
  BY LedgerType, LedgerAt DEF IInv, TypeOK, SimTypeOK
<1>1. ASSUME NEW g \in GID, NEW tx \in TxID, NEW ts \in Time, Start(g, tx, ts)
      PROVE  nextID' = nextID + 1 /\ \A id \in 0 .. nextID - 1 : Ledger'[id] = Ledger[id]
  <2>1. PICK fl : nextID' = nextID + 1 /\ Ledger' = With(Ledger, nextID, fl)
    BY <1>1, StartLedger
  <2>2. \A id \in 0 .. nextID - 1 : id # nextID
    BY <1>0
  <2> QED
    BY <1>0, <2>1, <2>2 DEF With
<1>2. ASSUME NEW g \in GID, NEW ts \in Time, End(g, ts)
      PROVE  /\ nextID' = nextID
             /\ \A id \in 0 .. nextID - 1 :
                  \/ Ledger'[id] = Ledger[id]
                  \/ Ledger[id].EndTime = NotEnded /\ Ledger'[id] = [Ledger[id] EXCEPT !.EndTime = ts]
  <2>1. nextID' = nextID
    BY <1>2 DEF End, ProcessRaw, SimNext, NextFuncEnd, NextFuncStart, EndEvent, FuncStart, FuncEnd
  <2>2. PICK c \in 0 .. nextID - 1 : Ledger' = [Ledger EXCEPT ![c].EndTime = ts] /\ Ledger[c].EndTime = NotEnded
    BY <1>0, <1>2, EndEnds DEF Abstract!End, Abstract!Open, Abstract!NotEnded, NotEnded
  <2> QED
    BY <1>0, <2>1, <2>2
<1>3. CASE Next
  <2>1. CASE \E g \in GID, tx \in TxID, ts \in Time : Start(g, tx, ts)
    BY <1>0, <1>1, <2>1
  <2>2. CASE \E g \in GID, ts \in Time : End(g, ts)
    <3>1. PICK g \in GID, ts \in Time : End(g, ts)
      BY <2>2
    <3>2. nextID' = nextID
      BY <1>2, <3>1
    <3>3. \A id \in 0 .. nextID - 1 :
            \/ Ledger'[id] = Ledger[id]
            \/ Ledger[id].EndTime = NotEnded /\ Ledger'[id] = [Ledger[id] EXCEPT !.EndTime = ts]
      BY <1>2, <3>1
    <3>4. nextID \in Nat /\ nextID' \in Nat /\ nextID <= nextID'
      BY <1>0, <3>2
    <3> QED
      BY <3>1, <3>3, <3>4
  <2>3. CASE Internal
    <3>1. nextID' = nextID /\ Ledger' = Ledger
      BY <2>3, InternalStutters DEF Internal, WorkerStep, TakeSymbols, Idle, Tick, Stop, NewSimulator, WriteFuncLogs, WriteGoroutines,
         ClearSimulator, Clear, DeleteSimulator, CloseLog, ReopenLog, simVars
    <3> QED
      BY <1>0, <3>1
  <2> QED
    BY <1>3, <2>1, <2>2, <2>3 DEF Next
<1>4. CASE UNCHANGED vars
  <2>1. nextID' = nextID /\ funcLogs' = funcLogs /\ funcStore' = funcStore
    BY <1>4 DEF vars, simVars, workerVars
  <2>2. Ledger' = Ledger
    BY <2>1 DEF Ledger
  <2> QED
    BY <1>0, <2>1, <2>2
<1> QED
  BY <1>3, <1>4

\* Recording implements the ledger: simulator, stores, flushing and closing are
\* invisible in it (logWriteWorker.Run, StateSimulator.Next, Clear).
THEOREM RecordingImplementsLedger == Spec => ImplementsLedger
<1>1. Init => Abstract!Init
  BY LedgerInit
<1>2. IInv /\ [Next]_vars => [Abstract!Next]_Ledger
  BY LedgerStep
<1> QED
  BY <1>1, <1>2, RecordingInvariant, PTL DEF Spec, ImplementsLedger, Abstract!Spec
-----------------------------------------------------------------------------
(* The recorded parent links                                               *)

\* What ParentMatchesFrames says of one entry L[id] of a ledger L.
LinkOK(L, id) ==
  IF L[id].ParentID = NotFoundParent
  THEN Len(L[id].Frames) = 1
  ELSE /\ L[id].ParentID \in 0 .. id - 1
       /\ L[L[id].ParentID].GID = L[id].GID
       /\ L[L[id].ParentID].Frames = SubSeq(L[id].Frames, 1, Len(L[id].Frames) - 1)

\* ParentMatchesFrames, entry by entry.
LEMMA LinkByLink ==
  ASSUME IInv
  PROVE  ParentMatchesFrames <=> \A id \in 0 .. nextID - 1 : LinkOK(Ledger, id)
BY DEF IInv, ParentMatchesFrames, LinkOK

\* The last frame can be taken off again.
LEMMA FrontOfAppend ==
  ASSUME NEW S, NEW s \in Seq(S), NEW x \in S
  PROVE  SubSeq(Append(s, x), 1, Len(Append(s, x)) - 1) = s /\ (s = <<>> => Len(Append(s, x)) = 1)
<1>1. Append(s, x) \in Seq(S) /\ Len(Append(s, x)) = Len(s) + 1 /\ Len(s) \in Nat
  OBVIOUS
<1>2. \A i \in 1 .. Len(s) : Append(s, x)[i] = s[i]
  OBVIOUS
<1>3. Len(Append(s, x)) - 1 = Len(s)
  BY <1>1
<1>4. SubSeq(Append(s, x), 1, Len(s)) = [i \in 1 .. Len(s) |-> Append(s, x)[i]]
  BY <1>1
<1>5. s = [i \in 1 .. Len(s) |-> s[i]]
  OBVIOUS
<1>6. s = <<>> => Len(s) = 0
  OBVIOUS
<1> QED
  BY <1>1, <1>2, <1>3, <1>4, <1>5, <1>6

\* Every step keeps the links of all entries.
LEMMA LinkStep ==
  ASSUME IInv, \A id \in 0 .. nextID - 1 : LinkOK(Ledger, id), [Next]_vars
  PROVE  \A id \in 0 .. nextID' - 1 : LinkOK(Ledger', id)
<1>0. nextID \in Nat /\ Ledger \in [0 .. nextID - 1 -> FuncLog]
  BY LedgerType DEF IInv, TypeOK, SimTypeOK
<1>1. ASSUME NEW g \in GID, NEW tx \in TxID, NEW ts \in Time, Start(g, tx, ts)
      PROVE  \A id \in 0 .. nextID' - 1 : LinkOK(Ledger', id)
  <2> DEFINE st == callStack[g]
  <2>1. PICK parent, fl :
          /\ nextID' = nextID + 1 /\ st \in Seq(TxID)
          /\ parent \in (0 .. nextID - 1) \cup {NotFoundParent}
          /\ IF parent = NotFoundParent THEN st = <<>> ELSE Ledger[parent].Frames = st /\ Ledger[parent].GID = g
          /\ fl.ParentID = parent /\ fl.Frames = Append(st, tx) /\ fl.GID = g
          /\ Ledger' = With(Ledger, nextID, fl)
    BY <1>1, StartLedger
  <2>2. \A id \in 0 .. nextID - 1 : Ledger'[id] = Ledger[id]
    BY <1>0, <2>1, LedgerAt DEF With
  <2>3. Ledger'[nextID] = fl
    BY <1>0, <2>1, LedgerAt DEF With
  <2>4. SubSeq(Append(st, tx), 1, Len(Append(st, tx)) - 1) = st /\ (st = <<>> => Len(Append(st, tx)) = 1)
    BY <2>1, FrontOfAppend
  <2>5. LinkOK(Ledger', nextID)
    <3>1. CASE parent = NotFoundParent
      BY <2>1, <2>3, <2>4, <3>1 DEF LinkOK
    <3>2. CASE parent # NotFoundParent
      <4>1. parent \in 0 .. nextID - 1 /\ Ledger'[parent] = Ledger[parent]
        BY <2>1, <2>2, <3>2
      <4> QED
        BY <2>1, <2>3, <2>4, <3>2, <4>1 DEF LinkOK
    <3> QED
      BY <3>1, <3>2
  <2>6. ASSUME NEW id \in 0 .. nextID - 1
        PROVE  LinkOK(Ledger', id)
    <3>1. LinkOK(Ledger, id)
      OBVIOUS
    <3>2. Ledger[id].ParentID \in 0 .. id - 1 => Ledger[id].ParentID \in 0 .. nextID - 1
      BY <1>0
    <3> QED
      BY <2>2, <3>1, <3>2 DEF LinkOK
  <2>7. \A id \in 0 .. nextID' - 1 : id = nextID \/ id \in 0 .. nextID - 1
    BY <1>0, <2>1
  <2> QED
    BY <2>5, <2>6, <2>7
<1>2. ASSUME NEW g \in GID, NEW ts \in Time, End(g, ts)
      PROVE  \A id \in 0 .. nextID' - 1 : LinkOK(Ledger', id)
  <2>1. nextID' = nextID
    BY <1>2 DEF End, ProcessRaw, SimNext, NextFuncEnd, NextFuncStart, EndEvent, FuncStart, FuncEnd
  <2>2. PICK c \in 0 .. nextID - 1 : Ledger' = [Ledger EXCEPT ![c].EndTime = ts]
    BY <1>2, EndEnds, LedgerAt DEF Abstract!End, Abstract!Open
  <2>3. \A id \in 0 .. nextID - 1 : /\ Ledger'[id].ParentID = Ledger[id].ParentID /\ Ledger'[id].Frames = Ledger[id].Frames
                                    /\ Ledger'[id].GID = Ledger[id].GID
    BY <1>0, <2>2 DEF FuncLog
  <2>4. ASSUME NEW id \in 0 .. nextID - 1
        PROVE  LinkOK(Ledger', id)
    <3>1. LinkOK(Ledger, id)
      OBVIOUS
    <3>2. Ledger[id].ParentID \in 0 .. id - 1 => Ledger[id].ParentID \in 0 .. nextID - 1
      BY <1>0
    <3> QED
      BY <2>3, <3>1, <3>2 DEF LinkOK
  <2> QED
    BY <2>1, <2>4
<1>3. CASE Internal
  <2>1. nextID' = nextID /\ Ledger' = Ledger
    BY <1>3, InternalStutters DEF Internal, WorkerStep, TakeSymbols, Idle, Tick, Stop, NewSimulator, WriteFuncLogs, WriteGoroutines,
         ClearSimulator, Clear, DeleteSimulator, CloseLog, ReopenLog, simVars
  <2> QED
    BY <2>1 DEF LinkOK
<1>4. CASE UNCHANGED vars
  <2>1. nextID' = nextID /\ funcLogs' = funcLogs /\ funcStore' = funcStore
    BY <1>4 DEF vars, simVars, workerVars
  <2>2. Ledger' = Ledger
    BY <2>1 DEF Ledger
  <2> QED
    BY <2>1, <2>2 DEF LinkOK
<1> QED
  BY <1>1, <1>2, <1>3, <1>4 DEF Next

\* The parent link that the simulator reconstructs from the stacks of the
\* goroutines is the one that the captured stack trace shows, also for calls that
\* were written out and cleared (StateSimulator.Next).
THEOREM ParentsMatchFrames == Spec => []ParentMatchesFrames
<1>1. Init => ParentMatchesFrames
  <2> SUFFICES ASSUME Init PROVE ParentMatchesFrames
    OBVIOUS
  <2>1. nextID = 0
    BY DEF Init, WorkerInit, SimInit
  <2>2. 0 .. nextID - 1 = {}
    BY <2>1
  <2> QED
    BY <2>2 DEF ParentMatchesFrames
<1>2. IInv /\ ParentMatchesFrames /\ [Next]_vars => ParentMatchesFrames'
  <2> SUFFICES ASSUME IInv, ParentMatchesFrames, [Next]_vars PROVE ParentMatchesFrames'
    OBVIOUS
  <2>1. \A id \in 0 .. nextID' - 1 : LinkOK(Ledger', id)
    BY LinkByLink, LinkStep
  <2> QED
    BY <2>1 DEF ParentMatchesFrames, LinkOK
<1> QED
  BY <1>1, <1>2, RecordingInvariant, PTL DEF Spec

-----------------------------------------------------------------------------
(* Goroutines                                                              *)

\* Every step keeps goroutines and their calls together.
LEMMA RunsStep ==
  ASSUME IInv, GoroutineRunsWithItsCalls, [Next]_vars
  PROVE  GoroutineRunsWithItsCalls'
<1>0. /\ DOMAIN goroutines \subseteq GID /\ (\A g \in DOMAIN goroutines : goroutines[g] \in Goroutine)
      /\ callStack \in [GID -> Seq(TxID)]
  BY DEF IInv, TypeOK, SimTypeOK, AppTypeOK, IsMap
<1>1. ASSUME NEW g \in GID, NEW tx \in TxID, NEW ts \in Time, Start(g, tx, ts)
      PROVE  GoroutineRunsWithItsCalls'
  <2>1. goroutines' = IF g \notin DOMAIN goroutines THEN With(goroutines, g, [StartTime |-> ts, EndTime |-> NotEnded])
                      ELSE IF stacks[g] = NotFoundParent THEN [goroutines EXCEPT ![g].EndTime = NotEnded] ELSE goroutines
    BY <1>1 DEF Start, ProcessRaw, SimNext, NextFuncStart, StartEvent, FuncStart, FuncEnd
  <2>2. callStack' = [callStack EXCEPT ![g] = Append(callStack[g], tx)]
    BY <1>1 DEF Start, EnterCall
  <2>3. callStack'[g] # <<>> /\ \A h \in GID \ {g} : callStack'[h] = callStack[h]
    BY <1>0, <2>2
  <2>4. g \in DOMAIN goroutines /\ stacks[g] # NotFoundParent => callStack[g] # <<>>
    BY DEF IInv, StackMirrorsApp
  <2>5. goroutines'[g].EndTime = NotEnded
    <3>1. CASE g \notin DOMAIN goroutines
      BY <2>1, <3>1 DEF With
    <3>2. CASE g \in DOMAIN goroutines /\ stacks[g] = NotFoundParent
      BY <1>0, <2>1, <3>2 DEF Goroutine
    <3>3. CASE g \in DOMAIN goroutines /\ stacks[g] # NotFoundParent
      BY <2>1, <2>4, <3>3 DEF GoroutineRunsWithItsCalls
    <3> QED
      BY <3>1, <3>2, <3>3
  <2>6. \A h \in DOMAIN goroutines' : h # g => h \in DOMAIN goroutines /\ goroutines'[h] = goroutines[h]
    BY <2>1 DEF With
  <2> QED
    BY <1>0, <2>3, <2>5, <2>6 DEF GoroutineRunsWithItsCalls
<1>2. ASSUME NEW g \in GID, NEW ts \in Time, End(g, ts)
      PROVE  GoroutineRunsWithItsCalls'
  <2> DEFINE n == Len(callStack[g])
  <2>1. n \in Nat \ {0} /\ Len(callStack'[g]) = n - 1 /\ g \in DOMAIN goroutines /\ callStack' \in [GID -> Seq(TxID)]
    BY <1>2, EndFacts
  <2>2. n \in 1 .. Len(callStack[g])
    BY <2>1
  <2>3. funcLogs[CallID(g, n)].ParentID = IF n = 1 THEN NotFoundParent ELSE CallID(g, n - 1)
    BY <2>2 DEF IInv, StackMirrorsApp
  <2>4. n # 1 => CallID(g, n - 1) # NotFoundParent
    <3> SUFFICES ASSUME n # 1 PROVE CallID(g, n - 1) # NotFoundParent
      OBVIOUS
    <3>0. n \in Nat \ {0}
      BY <2>1
    <3>1. PICK k : k = n
      OBVIOUS
    <3>2. k \in Nat /\ k # 0 /\ k # 1
      BY <3>0, <3>1
    <3>3. k - 1 \in 1 .. k
      BY <3>2
    <3>4. n - 1 \in 1 .. Len(callStack[g])
      BY <3>1, <3>3
    <3>5. CallID(g, n - 1) \in 0 .. nextID - 1
      BY <3>4, OpenCalls
    <3> QED
      BY <3>5 DEF NotFoundParent
  <2>5. goroutines' = IF funcLogs[CallID(g, n)].ParentID = NotFoundParent THEN [goroutines EXCEPT ![g].EndTime = ts] ELSE goroutines
    BY <1>2 DEF End, ProcessRaw, SimNext, NextFuncEnd, NextFuncStart, EndEvent, FuncStart, FuncEnd, CallID
  <2>6. ts # NotEnded
    BY TimeAssumption DEF NotEnded
  <2>7. callStack'[g] = <<>> <=> n = 1
    <3>1. callStack'[g] \in Seq(TxID)
      BY <2>1
    <3>2. callStack'[g] = <<>> <=> Len(callStack'[g]) = 0
      BY <3>1, EmptySequence
    <3>3. n \in Nat /\ Len(callStack'[g]) = n - 1
      BY <2>1
    <3> QED
      BY <3>2, <3>3
  <2>8. callStack[g] # <<>>
    BY <1>2 DEF End, LeaveCall
  <2>9. goroutines'[g].EndTime = NotEnded <=> callStack'[g] # <<>>
    <3>1. CASE n = 1
      <4>1. goroutines'[g].EndTime = ts
        BY <1>0, <2>1, <2>3, <2>5, <3>1 DEF Goroutine
      <4> QED
        BY <2>6, <2>7, <3>1, <4>1
    <3>2. CASE n # 1
      <4>1. goroutines' = goroutines
        BY <2>3, <2>4, <2>5, <3>2
      <4> QED
        BY <2>1, <2>7, <2>8, <3>2, <4>1 DEF GoroutineRunsWithItsCalls
    <3> QED
      BY <3>1, <3>2
  <2>10. \A h \in DOMAIN goroutines' : h # g => h \in DOMAIN goroutines /\ goroutines'[h] = goroutines[h]
    BY <2>5
  <2>11. \A h \in GID : h # g => callStack'[h] = callStack[h]
    BY <1>2, EndFacts
  <2> QED
    BY <1>0, <2>9, <2>10, <2>11 DEF GoroutineRunsWithItsCalls
<1>3. CASE Internal \/ UNCHANGED vars
  <2>1. goroutines' = goroutines /\ callStack' = callStack
    BY <1>3 DEF Internal, WorkerStep, TakeSymbols, Idle, Tick, Stop, NewSimulator, WriteFuncLogs, WriteGoroutines,
         ClearSimulator, Clear, DeleteSimulator, CloseLog, ReopenLog, vars, appVars, simVars
  <2> QED
    BY <2>1 DEF GoroutineRunsWithItsCalls
<1> QED
  BY <1>1, <1>2, <1>3 DEF Next

\* A goroutine is shown as running exactly while it has a traced call running,
\* however often it was believed to have ended (StateSimulator.Next).
THEOREM GoroutinesRunWithTheirCalls == Spec => []GoroutineRunsWithItsCalls
<1>1. Init => GoroutineRunsWithItsCalls
  BY DEF Init, WorkerInit, SimInit, EmptyMap, GoroutineRunsWithItsCalls
<1>2. IInv /\ GoroutineRunsWithItsCalls /\ [Next]_vars => GoroutineRunsWithItsCalls'
  BY RunsStep
<1> QED
  BY <1>1, <1>2, RecordingInvariant, PTL DEF Spec

-----------------------------------------------------------------------------
(* The memory that ended calls take                                        *)

Ended == {id \in DOMAIN funcLogs : IsEnded(funcLogs[id])}

Bounded == IsFiniteSet(Ended) /\ Cardinality(Ended) <= flCount

\* One more ended call is at most one more than before.
LEMMA OneMore ==
  ASSUME NEW S, IsFiniteSet(S), NEW x
  PROVE  IsFiniteSet(S \cup {x}) /\ Cardinality(S \cup {x}) \in Nat /\ Cardinality(S) \in Nat /\ Cardinality(S \cup {x}) <= Cardinality(S) + 1
<1>1. /\ Cardinality(S) \in Nat /\ IsFiniteSet(S \cup {x})
      /\ (Cardinality(S \cup {x}) = Cardinality(S) \/ Cardinality(S \cup {x}) = Cardinality(S) + 1)
  BY FS_CardinalityType, FS_AddElement
<1> QED
  BY <1>1

\* Every step keeps the bound: only an end event ends a call, and it is counted.
LEMMA BoundStep ==
  ASSUME IInv, Bounded, [Next]_vars
  PROVE  Bounded'
<1>0. flCount \in Nat /\ nextID \in Nat
  BY FlCountMaxAssumption DEF IInv, TypeOK, WorkerTypeOK, SimTypeOK
<1>1. ASSUME NEW g \in GID, NEW tx \in TxID, NEW ts \in Time, Start(g, tx, ts)
      PROVE  Bounded'
  <2>1. flCount' = flCount + 1
    BY <1>1 DEF Start, ProcessRaw
  <2>2. funcLogs' = With(funcLogs, nextID, funcLogs'[nextID]) /\ funcLogs'[nextID].EndTime = NotEnded
    <3> DEFINE parent == IF callStack[g] = <<>> THEN NotFoundParent ELSE CallID(g, Len(callStack[g]))
    <3>1. funcLogs'[nextID] = [StartTime |-> ts, EndTime |-> NotEnded, ParentID |-> parent,
                               Frames |-> Append(callStack[g], tx), GID |-> g]
      BY <1>1, StartParent
    <3> HIDE DEF parent
    <3>2. funcLogs'[nextID].EndTime = NotEnded
      BY <3>1
    <3>3. funcLogs' = With(funcLogs, nextID, funcLogs'[nextID])
      BY <1>1, StartParent
    <3> QED
      BY <3>2, <3>3
  <2>3. nextID \notin DOMAIN funcLogs
    BY <1>0 DEF IInv, StoresAreInStep
  <2>4. DOMAIN funcLogs' = DOMAIN funcLogs \cup {nextID} /\ \A id \in DOMAIN funcLogs : funcLogs'[id] = funcLogs[id]
    BY <2>2, <2>3 DEF With
  <2>5. Ended' = Ended
    BY <2>2, <2>3, <2>4 DEF Ended, IsEnded
  <2>6. Cardinality(Ended) \in Nat
    BY FS_CardinalityType DEF Bounded
  <2>7. Cardinality(Ended) <= flCount
    BY DEF Bounded
  <2>8. Cardinality(Ended) <= flCount'
    BY <1>0, <2>1, <2>6, <2>7
  <2> QED
    BY <2>5, <2>8 DEF Bounded
<1>2. ASSUME NEW g \in GID, NEW ts \in Time, End(g, ts)
      PROVE  Bounded'
  <2>1. flCount' = flCount + 1
    BY <1>2 DEF End, ProcessRaw
  <2>2. PICK c \in DOMAIN funcLogs : funcLogs' = [funcLogs EXCEPT ![c].EndTime = ts]
    BY <1>2, EndFacts
  <2>3. ts # NotEnded
    BY TimeAssumption DEF NotEnded
  <2>4. Ended' = Ended \cup {c}
    <3>1. funcLogs[c] \in FuncLog
      BY DEF IInv, TypeOK, SimTypeOK, IsMap
    <3>2. funcLogs'[c].EndTime = ts
      BY <2>2, <3>1 DEF FuncLog
    <3>3. DOMAIN funcLogs' = DOMAIN funcLogs /\ \A id \in DOMAIN funcLogs : id # c => funcLogs'[id] = funcLogs[id]
      BY <2>2
    <3> QED
      BY <2>3, <3>2, <3>3 DEF Ended, IsEnded
  <2>5. /\ IsFiniteSet(Ended \cup {c}) /\ Cardinality(Ended \cup {c}) \in Nat /\ Cardinality(Ended) \in Nat
        /\ Cardinality(Ended \cup {c}) <= Cardinality(Ended) + 1 /\ Cardinality(Ended) <= flCount
    BY OneMore DEF Bounded
  <2>6. Cardinality(Ended \cup {c}) <= flCount'
    BY <1>0, <2>1, <2>5
  <2> QED
    BY <2>4, <2>5, <2>6 DEF Bounded
<1>3. CASE ClearSimulator
  <2>1. Ended' = {}
    BY <1>3 DEF ClearSimulator, Clear, Without, Restrict, Ended
  <2>2. flCount' \in Nat
    BY <1>0, <1>3 DEF ClearSimulator
  <2>3. IsFiniteSet({}) /\ Cardinality({}) = 0
    BY FS_EmptySet
  <2>4. Cardinality({}) <= flCount'
    BY <2>2, <2>3
  <2> QED
    BY <2>1, <2>3, <2>4 DEF Bounded
<1>4. CASE (Internal /\ ~ClearSimulator) \/ UNCHANGED vars
  <2>1. funcLogs' = funcLogs /\ flCount' = flCount
    BY <1>4 DEF Internal, WorkerStep, TakeSymbols, Idle, Tick, Stop, NewSimulator, WriteFuncLogs, WriteGoroutines,
         DeleteSimulator, CloseLog, ReopenLog, vars, simVars, workerVars
  <2> QED
    BY <2>1 DEF Bounded, Ended
<1> QED
  BY <1>1, <1>2, <1>3, <1>4 DEF Next

\* The ended calls that still take memory are at most the events of the current
\* flush period, which is full only when the worker is about to write
\* (logWriteWorker.Run).
THEOREM EndedCallsStayBounded == Spec => []EndedCallsAreBounded
<1>1. Init => Bounded
  <2> SUFFICES ASSUME Init PROVE Bounded
    OBVIOUS
  <2>1. Ended = {} /\ flCount = 0
    BY DEF Init, WorkerInit, SimInit, EmptyMap, Ended
  <2>2. IsFiniteSet({}) /\ Cardinality({}) = 0
    BY FS_EmptySet
  <2> QED
    BY <2>1, <2>2 DEF Bounded
<1>2. IInv /\ Bounded /\ [Next]_vars => Bounded'
  BY BoundStep
<1>3. IInv /\ Bounded => EndedCallsAreBounded
  BY DEF IInv, FlushPeriod, Bounded, Ended, EndedCallsAreBounded, CanReceive
<1> QED
  BY <1>1, <1>2, <1>3, RecordingInvariant, PTL DEF Spec
=============================================================================
