-------------------------- MODULE LogServerProofs ---------------------------
(***************************************************************************)
(* What holds of the server for every number of goroutines, calls and      *)
(* requests and every capacity of the channel: it records as the worker    *)
(* would without the channel in between, loses nothing when the connection *)
(* ends, and its requests tell the truth.                                  *)
(***************************************************************************)
EXTENDS LogServer, FiniteSetTheorems, TLAPS

\* What was proved of recording, for the process as the simulator has seen it.
Proved == INSTANCE TraceRecordingProofs
            WITH callStack <- seen[1].callStack, usedTx <- seen[1].usedTx, lastTime <- seen[1].lastTime

\* The recording of LogServer and the one that was proved correct are the same.
LEMMA SameIInv == Proved!IInv <=> Seen!IInv
BY DEF Proved!IInv, Seen!IInv, Proved!TypeOK, Seen!TypeOK, Proved!AppTypeOK, Seen!AppTypeOK, Proved!SimTypeOK, Seen!SimTypeOK,
       Proved!WorkerTypeOK, Seen!WorkerTypeOK, Proved!StackMirrorsApp, Seen!StackMirrorsApp,
       Proved!NothingForgotten, Seen!NothingForgotten, Proved!TransactionsAreUnique, Seen!TransactionsAreUnique,
       Proved!RunningCallsAreDescribed, Seen!RunningCallsAreDescribed, Proved!StoresAreInStep, Seen!StoresAreInStep,
       Proved!FlushPeriod, Seen!FlushPeriod, Proved!CallID, Seen!CallID, Proved!IsEnded, Seen!IsEnded, Proved!IsMap, Seen!IsMap,
       Proved!FuncLog, Seen!FuncLog, Proved!Goroutine, Seen!Goroutine, Proved!PC, Seen!PC, Proved!NotEnded, Seen!NotEnded,
       Proved!NotFoundParent, Seen!NotFoundParent

LEMMA SameIInvNext == Proved!IInv' <=> Seen!IInv'
BY DEF Proved!IInv, Seen!IInv, Proved!TypeOK, Seen!TypeOK, Proved!AppTypeOK, Seen!AppTypeOK, Proved!SimTypeOK, Seen!SimTypeOK,
       Proved!WorkerTypeOK, Seen!WorkerTypeOK, Proved!StackMirrorsApp, Seen!StackMirrorsApp,
       Proved!NothingForgotten, Seen!NothingForgotten, Proved!TransactionsAreUnique, Seen!TransactionsAreUnique,
       Proved!RunningCallsAreDescribed, Seen!RunningCallsAreDescribed, Proved!StoresAreInStep, Seen!StoresAreInStep,
       Proved!FlushPeriod, Seen!FlushPeriod, Proved!CallID, Seen!CallID, Proved!IsEnded, Seen!IsEnded, Proved!IsMap, Seen!IsMap,
       Proved!FuncLog, Seen!FuncLog, Proved!Goroutine, Seen!Goroutine, Proved!PC, Seen!PC, Proved!NotEnded, Seen!NotEnded,
       Proved!NotFoundParent, Seen!NotFoundParent

LEMMA SameInit == Proved!Init <=> Seen!Init
BY DEF Proved!Init, Seen!Init, Proved!AppInit, Seen!AppInit, Proved!WorkerInit, Seen!WorkerInit, Proved!SimInit, Seen!SimInit,
       Proved!EmptyMap, Seen!EmptyMap

LEMMA SameNext == [Seen!Next]_(Seen!vars) => [Proved!Next]_(Proved!vars)
BY DEF Proved!Next, Seen!Next, Proved!vars, Seen!vars, Proved!Start, Seen!Start, Proved!End, Seen!End, Proved!Internal, Seen!Internal,
       Proved!EnterCall, Seen!EnterCall, Proved!LeaveCall, Seen!LeaveCall, Proved!StartEvent, Seen!StartEvent, Proved!EndEvent, Seen!EndEvent,
       Proved!ProcessRaw, Seen!ProcessRaw, Proved!CanReceive, Seen!CanReceive, Proved!SimNext, Seen!SimNext,
       Proved!NextFuncStart, Seen!NextFuncStart, Proved!NextFuncEnd, Seen!NextFuncEnd, Proved!NextPanics, Seen!NextPanics,
       Proved!FuncStart, Seen!FuncStart, Proved!FuncEnd, Seen!FuncEnd, Proved!With, Seen!With, Proved!Without, Seen!Without,
       Proved!Restrict, Seen!Restrict, Proved!NotEnded, Seen!NotEnded, Proved!NotFoundParent, Seen!NotFoundParent,
       Proved!TakeSymbols, Seen!TakeSymbols, Proved!Idle, Seen!Idle, Proved!Tick, Seen!Tick, Proved!Stop, Seen!Stop,
       Proved!WorkerStep, Seen!WorkerStep, Proved!NewSimulator, Seen!NewSimulator, Proved!WriteFuncLogs, Seen!WriteFuncLogs,
       Proved!WriteGoroutines, Seen!WriteGoroutines, Proved!ClearSimulator, Seen!ClearSimulator, Proved!Clear, Seen!Clear,
       Proved!DeleteSimulator, Seen!DeleteSimulator, Proved!CloseLog, Seen!CloseLog, Proved!ReopenLog, Seen!ReopenLog,
       Proved!Merge, Seen!Merge, Proved!IsEnded, Seen!IsEnded, Proved!simVars, Seen!simVars, Proved!appVars, Seen!appVars,
       Proved!workerVars, Seen!workerVars

-----------------------------------------------------------------------------
(* The channel and the history of the process                              *)

\* One more event, and one more state of the process.
LEMMA AppendBoth ==
  ASSUME NEW S, NEW s \in Seq(S), NEW x \in S, NEW E, NEW c \in Seq(E), NEW e \in E, Len(s) = Len(c) + 1
  PROVE  /\ Len(c) \in Nat /\ Append(s, x) \in Seq(S) /\ Append(c, e) \in Seq(E)
         /\ Len(Append(c, e)) = Len(c) + 1 /\ Len(Append(s, x)) = Len(c) + 2
         /\ \A i \in 1 .. Len(c) : Append(c, e)[i] = c[i] /\ Append(s, x)[i] = s[i] /\ Append(s, x)[i + 1] = s[i + 1]
         /\ Append(c, e)[Len(c) + 1] = e
         /\ Append(s, x)[Len(c) + 1] = s[Len(c) + 1] /\ Append(s, x)[Len(c) + 2] = x /\ Append(s, x)[1] = s[1]
<1>1. Len(c) \in Nat /\ Append(s, x) \in Seq(S) /\ Append(c, e) \in Seq(E)
  OBVIOUS
<1>2. Len(Append(c, e)) = Len(c) + 1 /\ Len(Append(s, x)) = Len(s) + 1
  OBVIOUS
<1>3. (\A i \in 1 .. Len(c) : Append(c, e)[i] = c[i]) /\ Append(c, e)[Len(c) + 1] = e
  OBVIOUS
<1>4. (\A i \in 1 .. Len(s) : Append(s, x)[i] = s[i]) /\ Append(s, x)[Len(s) + 1] = x
  OBVIOUS
<1>5. Len(s) + 1 = Len(c) + 2 /\ 1 \in 1 .. Len(s) /\ Len(c) + 1 \in 1 .. Len(s)
  BY <1>1
<1>6. \A i \in 1 .. Len(c) : i \in 1 .. Len(s) /\ i + 1 \in 1 .. Len(s)
  BY <1>1
<1> QED
  BY <1>1, <1>2, <1>3, <1>4, <1>5, <1>6

\* One event less, and one state less.
LEMMA TailBoth ==
  ASSUME NEW S, NEW s \in Seq(S), NEW E, NEW c \in Seq(E), c # <<>>, Len(s) = Len(c) + 1
  PROVE  /\ Len(c) \in Nat /\ Tail(s) \in Seq(S) /\ Tail(c) \in Seq(E) /\ 1 \in 1 .. Len(c)
         /\ Len(Tail(c)) = Len(c) - 1 /\ Len(Tail(s)) = Len(c)
         /\ \A i \in 1 .. Len(c) - 1 : /\ i + 1 \in 1 .. Len(c) /\ Tail(c)[i] = c[i + 1]
                                      /\ Tail(s)[i] = s[i + 1] /\ Tail(s)[i + 1] = s[(i + 1) + 1]
         /\ Tail(s)[Len(c)] = s[Len(c) + 1] /\ Head(c) = c[1] /\ Tail(s)[1] = s[2]
<1>1. Len(c) \in Nat /\ Len(c) >= 1 /\ Tail(c) \in Seq(E) /\ Len(Tail(c)) = Len(c) - 1 /\ Head(c) = c[1]
  OBVIOUS
<1>2. s # <<>>
  <2>1. Len(s) # 0
    BY <1>1
  <2> QED
    BY <2>1
<1>3. Tail(s) \in Seq(S) /\ Len(Tail(s)) = Len(s) - 1
  BY <1>2
<1>4. \A i \in 1 .. Len(c) - 1 : Tail(c)[i] = c[i + 1]
  OBVIOUS
<1>5. \A i \in 1 .. Len(s) - 1 : Tail(s)[i] = s[i + 1]
  BY <1>2
<1>6. Len(s) - 1 = Len(c) /\ 1 \in 1 .. Len(c) /\ Len(c) \in 1 .. Len(s) - 1 /\ 1 \in 1 .. Len(s) - 1 /\ 1 + 1 = 2
  BY <1>1
<1>7. \A i \in 1 .. Len(c) - 1 : i + 1 \in 1 .. Len(c) /\ i \in 1 .. Len(s) - 1 /\ i + 1 \in 1 .. Len(s) - 1
  BY <1>1, <1>6
<1> QED
  BY <1>1, <1>3, <1>4, <1>5, <1>6, <1>7

\* An event of the process, in the words of ChannelIsTheDifference.
LEMMA StartHappens ==
  ASSUME NEW g \in GID, NEW tx \in TxID, NEW ts \in Time, App \in AppState, EnterCall(g, tx, ts)
  PROVE  /\ App' \in AppState /\ Entered(g, tx, ts, App, StartEvent(g, tx, ts), App')
         /\ StartEvent(g, tx, ts) \in RawFuncLog
<1>1. callStack \in [GID -> Seq(TxID)] /\ usedTx \in SUBSET TxID /\ lastTime \in [GID -> Nat] /\ ts \in Nat
  BY TimeAssumption DEF App, AppState
<1>2. /\ callStack' = [callStack EXCEPT ![g] = Append(callStack[g], tx)] /\ usedTx' = usedTx \cup {tx}
      /\ lastTime' = [lastTime EXCEPT ![g] = ts] /\ tx \notin usedTx /\ ts >= lastTime[g]
  BY DEF EnterCall
<1>3. callStack' \in [GID -> Seq(TxID)]
  BY <1>1, <1>2
<1>4. usedTx' \in SUBSET TxID /\ lastTime' \in [GID -> Nat]
  BY <1>1, <1>2
<1>5. App' \in AppState
  BY <1>3, <1>4 DEF App, AppState
<1>6. Entered(g, tx, ts, App, StartEvent(g, tx, ts), App')
  BY <1>2 DEF App, Entered, StartEvent
<1>7. StartEvent(g, tx, ts) \in RawFuncLog
  BY <1>1 DEF StartEvent, RawFuncLog
<1> QED
  BY <1>5, <1>6, <1>7

LEMMA EndHappens ==
  ASSUME NEW g \in GID, NEW ts \in Time, App \in AppState, LeaveCall(g, ts)
  PROVE  /\ App' \in AppState /\ Left(g, ts, App, EndEvent(g, ts), App')
         /\ EndEvent(g, ts) \in RawFuncLog
<1>1. callStack \in [GID -> Seq(TxID)] /\ usedTx \in SUBSET TxID /\ lastTime \in [GID -> Nat] /\ ts \in Nat
  BY TimeAssumption DEF App, AppState
<1>2. /\ callStack' = [callStack EXCEPT ![g] = SubSeq(callStack[g], 1, Len(callStack[g]) - 1)] /\ usedTx' = usedTx
      /\ lastTime' = [lastTime EXCEPT ![g] = ts] /\ callStack[g] # <<>> /\ ts >= lastTime[g]
  BY DEF LeaveCall
<1>3. SubSeq(callStack[g], 1, Len(callStack[g]) - 1) \in Seq(TxID) /\ callStack[g][Len(callStack[g])] \in TxID
  <2>1. callStack[g] \in Seq(TxID) /\ callStack[g] # <<>>
    BY <1>1, <1>2
  <2> QED
    BY <2>1
<1>4. callStack' \in [GID -> Seq(TxID)] /\ usedTx' \in SUBSET TxID /\ lastTime' \in [GID -> Nat]
  BY <1>1, <1>2, <1>3
<1>5. App' \in AppState
  BY <1>4 DEF App, AppState
<1>6. Left(g, ts, App, EndEvent(g, ts), App')
  BY <1>2 DEF App, Left, EndEvent
<1>7. EndEvent(g, ts) \in RawFuncLog
  BY <1>1, <1>3 DEF EndEvent, RawFuncLog
<1> QED
  BY <1>5, <1>6, <1>7

\* Delivering an event keeps the channel the difference.
LEMMA DeliverDifference ==
  ASSUME ChannelIsTheDifference, ch \in Seq(RawFuncLog \cup {Symbols}), NEW e \in RawFuncLog, Deliver(e),
         App' \in AppState, Happened(App, e, App')
  PROVE  ChannelIsTheDifference' /\ ch' \in Seq(RawFuncLog \cup {Symbols}) /\ Len(ch') <= ChanCap /\ seen'[1] = seen[1]
<1> DEFINE E == RawFuncLog \cup {Symbols}
<1>1. seen \in Seq(AppState) /\ Len(seen) = Len(ch) + 1 /\ seen[Len(ch) + 1] = App
  BY DEF ChannelIsTheDifference
<1>2. PICK x : x = App'
  OBVIOUS
<1>3. ch' = Append(ch, e) /\ seen' = Append(seen, x) /\ Len(ch) < ChanCap
  BY <1>2 DEF Deliver
<1>4. ch \in Seq(E) /\ e \in E /\ x \in AppState
  BY <1>2
<1> HIDE DEF E
<1>5. /\ Len(ch) \in Nat /\ seen' \in Seq(AppState) /\ ch' \in Seq(E)
      /\ Len(ch') = Len(ch) + 1 /\ Len(seen') = Len(ch) + 2
      /\ \A i \in 1 .. Len(ch) : ch'[i] = ch[i] /\ seen'[i] = seen[i] /\ seen'[i + 1] = seen[i + 1]
      /\ ch'[Len(ch) + 1] = e
      /\ seen'[Len(ch) + 1] = seen[Len(ch) + 1] /\ seen'[Len(ch) + 2] = x /\ seen'[1] = seen[1]
  BY <1>1, <1>3, <1>4, AppendBoth
<1>6. PICK n \in Nat : n = Len(ch)
  BY <1>5
<1>7. Len(ch') = n + 1 /\ n < ChanCap
  BY <1>3, <1>5, <1>6
<1>8. Len(ch') <= ChanCap /\ Len(seen') = Len(ch') + 1 /\ Len(ch') + 1 = n + 2
  BY <1>5, <1>6, <1>7, ChanCapAssumption
<1>9. ASSUME NEW i \in 1 .. Len(ch')
      PROVE  Happened(seen'[i], ch'[i], seen'[i + 1])
  <2>1. CASE i \in 1 .. n
    BY <1>5, <1>6, <2>1 DEF ChannelIsTheDifference
  <2>2. CASE i = n + 1
    <3>1. seen'[i] = App /\ ch'[i] = e
      BY <1>1, <1>5, <1>6, <2>2
    <3>2. i + 1 = n + 2
      BY <2>2
    <3>3. seen'[i + 1] = App'
      BY <1>2, <1>5, <1>6, <3>2
    <3> QED
      BY <3>1, <3>3
  <2> QED
    BY <1>7, <2>1, <2>2
<1>10. seen'[Len(ch') + 1] = App'
  BY <1>2, <1>5, <1>6, <1>8
<1> QED
  BY <1>5, <1>8, <1>9, <1>10 DEF ChannelIsTheDifference, E

\* Taking an object keeps the channel the difference; the simulator has seen one
\* state of the process more.
LEMMA TakeDifference ==
  ASSUME ChannelIsTheDifference, ch \in Seq(RawFuncLog \cup {Symbols}), ch # <<>>, Len(ch) <= ChanCap,
         ch' = Tail(ch), seen' = Tail(seen), UNCHANGED appVars
  PROVE  /\ ChannelIsTheDifference' /\ ch' \in Seq(RawFuncLog \cup {Symbols}) /\ Len(ch') <= ChanCap
         /\ Happened(seen[1], Head(ch), seen'[1])
<1> DEFINE E == RawFuncLog \cup {Symbols}
<1>1. seen \in Seq(AppState) /\ Len(seen) = Len(ch) + 1 /\ seen[Len(ch) + 1] = App
  BY DEF ChannelIsTheDifference
<1>2. ch \in Seq(E)
  OBVIOUS
<1> HIDE DEF E
<1>3. /\ Len(ch) \in Nat /\ seen' \in Seq(AppState) /\ ch' \in Seq(E) /\ 1 \in 1 .. Len(ch)
      /\ Len(ch') = Len(ch) - 1 /\ Len(seen') = Len(ch)
      /\ \A i \in 1 .. Len(ch) - 1 : /\ i + 1 \in 1 .. Len(ch) /\ ch'[i] = ch[i + 1]
                                   /\ seen'[i] = seen[i + 1] /\ seen'[i + 1] = seen[(i + 1) + 1]
      /\ seen'[Len(ch)] = seen[Len(ch) + 1] /\ Head(ch) = ch[1] /\ seen'[1] = seen[2]
  BY <1>1, <1>2, TailBoth
<1>4. PICK n \in Nat : n = Len(ch)
  BY <1>3
<1>5. Len(ch') = n - 1 /\ n <= ChanCap
  BY <1>3, <1>4
<1>6. Len(ch') <= ChanCap /\ Len(ch') + 1 = Len(ch)
  BY <1>4, <1>5, ChanCapAssumption
<1>7. App' = App
  BY DEF App, appVars
<1>8. ASSUME NEW i \in 1 .. Len(ch')
      PROVE  Happened(seen'[i], ch'[i], seen'[i + 1])
  <2>1. i \in 1 .. Len(ch) - 1
    BY <1>3
  <2>2. i + 1 \in 1 .. Len(ch) /\ ch'[i] = ch[i + 1] /\ seen'[i] = seen[i + 1] /\ seen'[i + 1] = seen[(i + 1) + 1]
    BY <1>3, <2>1
  <2>3. Happened(seen[i + 1], ch[i + 1], seen[(i + 1) + 1])
    BY <2>2 DEF ChannelIsTheDifference
  <2> QED
    BY <2>2, <2>3
<1>9. Happened(seen[1], Head(ch), seen'[1])
  <2>1. Happened(seen[1], ch[1], seen[1 + 1])
    BY <1>3 DEF ChannelIsTheDifference
  <2>2. 1 + 1 = 2
    OBVIOUS
  <2> QED
    BY <1>3, <2>1, <2>2
<1> QED
  BY <1>1, <1>3, <1>6, <1>7, <1>8, <1>9 DEF ChannelIsTheDifference, E

-----------------------------------------------------------------------------
(* The server records as TraceRecording does                               *)

\* The worker's steps mean the same in both.
LEMMA SameProcessRaw ==
  ASSUME NEW raw, ProcessRaw(raw)
  PROVE  Seen!ProcessRaw(raw)
BY DEF ProcessRaw, Seen!ProcessRaw, CanReceive, Seen!CanReceive, SimNext, Seen!SimNext, NextFuncStart, Seen!NextFuncStart,
       NextFuncEnd, Seen!NextFuncEnd, NextPanics, Seen!NextPanics, FuncStart, Seen!FuncStart, FuncEnd, Seen!FuncEnd,
       With, Seen!With, Without, Seen!Without, Restrict, Seen!Restrict, NotEnded, Seen!NotEnded, NotFoundParent, Seen!NotFoundParent

LEMMA SameWorkerSteps ==
  /\ TakeSymbols => Seen!TakeSymbols
  /\ Idle => Seen!Idle
  /\ Tick => Seen!Tick
  /\ Stop => Seen!Stop
  /\ NewSimulator \/ WriteFuncLogs \/ WriteGoroutines \/ ClearSimulator \/ DeleteSimulator \/ CloseLog \/ ReopenLog => Seen!WorkerStep
BY DEF TakeSymbols, Seen!TakeSymbols, CanReceive, Seen!CanReceive, Idle, Seen!Idle, Tick, Seen!Tick, Stop, Seen!Stop, Seen!WorkerStep,
       NewSimulator, Seen!NewSimulator, WriteFuncLogs, Seen!WriteFuncLogs, WriteGoroutines, Seen!WriteGoroutines,
       ClearSimulator, Seen!ClearSimulator, Clear, Seen!Clear, DeleteSimulator, Seen!DeleteSimulator, CloseLog, Seen!CloseLog,
       ReopenLog, Seen!ReopenLog, Merge, Seen!Merge, Without, Seen!Without, Restrict, Seen!Restrict, IsEnded, Seen!IsEnded,
       NotEnded, Seen!NotEnded, simVars, Seen!simVars

\* A step that the simulator, the stores and what the simulator has seen do not take
\* part in.
LEMMA SeenStutters ==
  ASSUME UNCHANGED <<simVars, workerVars>>, seen'[1] = seen[1]
  PROVE  UNCHANGED Seen!vars
BY DEF simVars, workerVars, Seen!vars, Seen!simVars, Seen!workerVars, Seen!appVars

\* The worker takes a raw event from the channel: the event that the process emitted
\* in the state that the simulator has seen.
LEMMA RecvRawStep ==
  ASSUME TypeOK, ChannelIsTheDifference, RecvRaw
  PROVE  Seen!Next
<1>1. ch # <<>> /\ Head(ch).Tag # "Symbols" /\ ProcessRaw(Head(ch)) /\ ch' = Tail(ch) /\ seen' = Tail(seen) /\ UNCHANGED appVars
  BY DEF RecvRaw
<1>2. ch \in Seq(RawFuncLog \cup {Symbols}) /\ Len(ch) <= ChanCap
  BY DEF TypeOK
<1>3. Happened(seen[1], Head(ch), seen'[1])
  BY <1>1, <1>2, TakeDifference
<1>4. Head(ch) # Symbols
  BY <1>1 DEF Symbols
<1>5. ASSUME NEW g \in GID, NEW tx \in TxID, NEW ts \in Time, Entered(g, tx, ts, seen[1], Head(ch), seen'[1])
      PROVE  Seen!Next
  <2>1. Seen!EnterCall(g, tx, ts) /\ Head(ch) = Seen!StartEvent(g, tx, ts)
    BY <1>5 DEF Entered, Seen!EnterCall, Seen!StartEvent, FuncStart, Seen!FuncStart
  <2>2. Seen!ProcessRaw(Head(ch))
    BY <1>1, SameProcessRaw
  <2> QED
    BY <2>1, <2>2 DEF Seen!Next, Seen!Start
<1>6. ASSUME NEW g \in GID, NEW ts \in Time, Left(g, ts, seen[1], Head(ch), seen'[1])
      PROVE  Seen!Next
  <2>1. Seen!LeaveCall(g, ts) /\ Head(ch) = Seen!EndEvent(g, ts)
    BY <1>6 DEF Left, Seen!LeaveCall, Seen!EndEvent, FuncEnd, Seen!FuncEnd
  <2>2. Seen!ProcessRaw(Head(ch))
    BY <1>1, SameProcessRaw
  <2> QED
    BY <2>1, <2>2 DEF Seen!Next, Seen!End
<1> QED
  BY <1>3, <1>4, <1>5, <1>6 DEF Happened

\* The worker takes the symbols.
LEMMA RecvSymbolsStep ==
  ASSUME TypeOK, ChannelIsTheDifference, RecvSymbols
  PROVE  Seen!Next /\ seen'[1] = seen[1]
<1>1. ch # <<>> /\ Head(ch).Tag = "Symbols" /\ TakeSymbols /\ ch' = Tail(ch) /\ seen' = Tail(seen) /\ UNCHANGED appVars
  BY DEF RecvSymbols
<1>2. ch \in Seq(RawFuncLog \cup {Symbols}) /\ Len(ch) <= ChanCap
  BY DEF TypeOK
<1>3. Happened(seen[1], Head(ch), seen'[1])
  BY <1>1, <1>2, TakeDifference
<1>4. seen'[1] = seen[1]
  <2>1. ASSUME NEW g, NEW tx, NEW ts, Entered(g, tx, ts, seen[1], Head(ch), seen'[1])
        PROVE  FALSE
    <3>1. Head(ch).Tag = FuncStart
      BY <2>1 DEF Entered
    <3> QED
      BY <1>1, <3>1 DEF FuncStart
  <2>2. ASSUME NEW g, NEW ts, Left(g, ts, seen[1], Head(ch), seen'[1])
        PROVE  FALSE
    <3>1. Head(ch).Tag = FuncEnd
      BY <2>2 DEF Left
    <3> QED
      BY <1>1, <3>1 DEF FuncEnd
  <2> QED
    BY <1>3, <2>1, <2>2 DEF Happened
<1> QED
  BY <1>1, <1>4, SameWorkerSteps DEF Seen!Next, Seen!Internal, Seen!appVars

\* Every step of the server is a step of the recording or cannot be seen there.
LEMMA ServerStep ==
  ASSUME TypeOK, ChannelIsTheDifference, [Next]_vars
  PROVE  [Seen!Next]_(Seen!vars)
<1>0. ch \in Seq(RawFuncLog \cup {Symbols}) /\ Len(ch) <= ChanCap /\ seen \in Seq(AppState) /\ Len(seen) = Len(ch) + 1 /\ App \in AppState
  <2>1. Recording!TypeOK /\ ch \in Seq(RawFuncLog \cup {Symbols}) /\ Len(ch) <= ChanCap
    BY DEF TypeOK
  <2>2. App \in AppState
    BY <2>1 DEF App, AppState, Recording!TypeOK, Recording!AppTypeOK
  <2> QED
    BY <2>1, <2>2 DEF ChannelIsTheDifference
<1>1. ASSUME NEW g \in GID, NEW tx \in TxID, NEW ts \in Time, Start(g, tx, ts)
      PROVE  UNCHANGED Seen!vars
  <2>1. /\ App' \in AppState /\ Happened(App, StartEvent(g, tx, ts), App')
        /\ StartEvent(g, tx, ts) \in RawFuncLog /\ Deliver(StartEvent(g, tx, ts))
    BY <1>0, <1>1, StartHappens DEF Start, Happened
  <2>2. seen'[1] = seen[1]
    BY <1>0, <2>1, DeliverDifference
  <2> QED
    BY <2>1, <2>2, SeenStutters DEF Deliver
<1>2. ASSUME NEW g \in GID, NEW ts \in Time, End(g, ts)
      PROVE  UNCHANGED Seen!vars
  <2>1. /\ App' \in AppState /\ Happened(App, EndEvent(g, ts), App')
        /\ EndEvent(g, ts) \in RawFuncLog /\ Deliver(EndEvent(g, ts))
    BY <1>0, <1>2, EndHappens DEF End, Happened
  <2>2. seen'[1] = seen[1]
    BY <1>0, <2>1, DeliverDifference
  <2> QED
    BY <2>1, <2>2, SeenStutters DEF Deliver
<1>3. ASSUME WorkerNext
      PROVE  [Seen!Next]_(Seen!vars)
  <2>1. CASE RecvRaw
    BY <2>1, RecvRawStep
  <2>2. CASE RecvSymbols
    BY <2>2, RecvSymbolsStep
  <2>3. CASE FindEmpty \/ RecvTick \/ RecvClosed
    <3>1. (Idle \/ Tick \/ Stop) /\ seen' = seen
      BY <2>3 DEF FindEmpty, RecvTick, RecvClosed, srvVars
    <3> QED
      BY <3>1, SameWorkerSteps DEF Seen!Next, Seen!Internal, Seen!appVars
  <2>4. CASE Proceed \/ SaveFuncLogs \/ CloseStore \/ OpenStore
    <3>1. /\ NewSimulator \/ WriteFuncLogs \/ WriteGoroutines \/ ClearSimulator \/ DeleteSimulator \/ CloseLog \/ ReopenLog
          /\ seen' = seen
      BY <2>4 DEF Proceed, SaveFuncLogs, CloseStore, OpenStore, srvVars
    <3> QED
      BY <3>1, SameWorkerSteps DEF Seen!Next, Seen!Internal, Seen!appVars
  <2>5. CASE ReplaceStore
    BY <2>5, SeenStutters DEF ReplaceStore
  <2> QED
    BY <1>3, <2>1, <2>2, <2>3, <2>4, <2>5 DEF WorkerNext
<1>4. ASSUME NEW r \in Reader, ReaderNext(r)
      PROVE  UNCHANGED Seen!vars
  <2>1. UNCHANGED <<simVars, workerVars>> /\ seen' = seen
    BY <1>4 DEF ReaderNext, LockStore, ReadRecord, ReadFails, ReadPanics, GiveUp, FinishStore, GetSimulator, ReadSimulator, UnlockStore
  <2> QED
    BY <2>1, SeenStutters
<1>5. CASE Disconnected
  BY <1>5, SeenStutters DEF Disconnected
<1>6. CASE UNCHANGED vars
  BY <1>6, SeenStutters DEF vars, srvVars
<1> QED
  BY <1>1, <1>2, <1>3, <1>4, <1>5, <1>6 DEF Next

\* What was proved of recording keeps holding in the server.
LEMMA SeenIInv ==
  ASSUME TypeOK, Seen!IInv, ChannelIsTheDifference, [Next]_vars
  PROVE  Seen!IInv'
<1>1. [Proved!Next]_(Proved!vars)
  BY ServerStep, SameNext
<1>2. Proved!IInv
  BY SameIInv
<1>3. Proved!IInv'
  BY <1>1, <1>2, Proved!NextIInv, TimeAssumption, FlCountMaxAssumption
<1> QED
  BY <1>3, SameIInvNext

-----------------------------------------------------------------------------
(* The ledger behind the server                                            *)

\* The ledger is the simulator's version of a call, or the stored one.
LEMMA LedgerFacts ==
  ASSUME Seen!IInv
  PROVE  /\ nextID \in Nat /\ DOMAIN funcLogs \subseteq 0 .. nextID - 1 /\ DOMAIN funcStore \subseteq 0 .. nextID - 1
         /\ \A id \in 0 .. nextID - 1 :
              /\ Recording!Ledger[id] \in FuncLog
              /\ id \in DOMAIN funcLogs => Recording!Ledger[id] = funcLogs[id]
              /\ id \notin DOMAIN funcLogs => id \in DOMAIN funcStore /\ Recording!Ledger[id] = funcStore[id] /\ IsEnded(funcStore[id])
<1>1. /\ \A id \in DOMAIN funcLogs : funcLogs[id] \in FuncLog
      /\ \A id \in DOMAIN funcStore : funcStore[id] \in FuncLog
      /\ nextID \in Nat
  BY DEF Seen!IInv, Seen!TypeOK, Seen!SimTypeOK, Seen!WorkerTypeOK, Seen!IsMap, Seen!FuncLog, FuncLog, Seen!NotEnded, NotEnded,
         Seen!NotFoundParent, NotFoundParent
<1>2. \A id \in 0 .. nextID - 1 : id \notin DOMAIN funcLogs => id \in DOMAIN funcStore /\ IsEnded(funcStore[id])
  BY DEF Seen!IInv, Seen!NothingForgotten, Seen!IsEnded, IsEnded, Seen!NotEnded, NotEnded
<1>3. DOMAIN funcLogs \subseteq 0 .. nextID - 1 /\ DOMAIN funcStore \subseteq 0 .. nextID - 1
  BY DEF Seen!IInv, Seen!StoresAreInStep
<1>4. \A id \in 0 .. nextID - 1 : Recording!Ledger[id] = IF id \in DOMAIN funcLogs THEN funcLogs[id] ELSE funcStore[id]
  BY DEF Recording!Ledger
<1> QED
  BY <1>1, <1>2, <1>3, <1>4

\* The same after a step.
LEMMA LedgerFactsNext ==
  ASSUME Seen!IInv'
  PROVE  /\ nextID' \in Nat /\ DOMAIN funcLogs' \subseteq 0 .. nextID' - 1 /\ DOMAIN funcStore' \subseteq 0 .. nextID' - 1
         /\ \A id \in 0 .. nextID' - 1 :
              /\ Recording!Ledger'[id] \in FuncLog
              /\ id \in DOMAIN funcLogs' => Recording!Ledger'[id] = funcLogs'[id]
              /\ id \notin DOMAIN funcLogs' => id \in DOMAIN funcStore' /\ Recording!Ledger'[id] = funcStore'[id] /\ IsEnded(funcStore'[id])
<1>1. /\ \A id \in DOMAIN funcLogs' : funcLogs'[id] \in FuncLog
      /\ \A id \in DOMAIN funcStore' : funcStore'[id] \in FuncLog
      /\ nextID' \in Nat
  BY DEF Seen!IInv, Seen!TypeOK, Seen!SimTypeOK, Seen!WorkerTypeOK, Seen!IsMap, Seen!FuncLog, FuncLog, Seen!NotEnded, NotEnded,
         Seen!NotFoundParent, NotFoundParent
<1>2. \A id \in 0 .. nextID' - 1 : id \notin DOMAIN funcLogs' => id \in DOMAIN funcStore' /\ IsEnded(funcStore'[id])
  BY DEF Seen!IInv, Seen!NothingForgotten, Seen!IsEnded, IsEnded, Seen!NotEnded, NotEnded
<1>3. DOMAIN funcLogs' \subseteq 0 .. nextID' - 1 /\ DOMAIN funcStore' \subseteq 0 .. nextID' - 1
  BY DEF Seen!IInv, Seen!StoresAreInStep
<1>4. \A id \in 0 .. nextID' - 1 : Recording!Ledger'[id] = IF id \in DOMAIN funcLogs' THEN funcLogs'[id] ELSE funcStore'[id]
  BY DEF Recording!Ledger
<1> QED
  BY <1>1, <1>2, <1>3, <1>4

\* A step may end an open call and add one; it changes nothing else in the ledger.
LEMMA LedgerKeeps ==
  ASSUME TypeOK, Seen!IInv, ChannelIsTheDifference, [Next]_vars
  PROVE  /\ nextID <= nextID'
         /\ \A id \in 0 .. nextID - 1 :
              \/ Recording!Ledger'[id] = Recording!Ledger[id]
              \/ /\ Recording!Ledger[id].EndTime = NotEnded
                 /\ \E ts \in Time : Recording!Ledger'[id] = [Recording!Ledger[id] EXCEPT !.EndTime = ts]
<1>1. [Proved!Next]_(Proved!vars)
  BY ServerStep, SameNext
<1>2. Proved!IInv
  BY SameIInv
<1>3. /\ nextID <= nextID'
      /\ \A id \in 0 .. nextID - 1 :
           \/ Proved!Ledger'[id] = Proved!Ledger[id]
           \/ Proved!Ledger[id].EndTime = Proved!NotEnded /\ \E ts \in Time : Proved!Ledger'[id] = [Proved!Ledger[id] EXCEPT !.EndTime = ts]
  BY <1>1, <1>2, Proved!LedgerGrows, TimeAssumption, FlCountMaxAssumption
<1>4. Proved!Ledger = Recording!Ledger /\ Proved!Ledger' = Recording!Ledger' /\ Proved!NotEnded = NotEnded
  BY DEF Proved!Ledger, Recording!Ledger, Proved!NotEnded, NotEnded
<1> QED
  BY <1>3, <1>4

\* What was a version of a call stays one.
LEMMA VersionsPersist ==
  ASSUME NEW L \in FuncLog, NEW M, NEW x \in Versions(L),
         M = L \/ (L.EndTime = NotEnded /\ \E ts \in Time : M = [L EXCEPT !.EndTime = ts])
  PROVE  x \in Versions(M)
<1>1. CASE M = L
  BY <1>1
<1>2. ASSUME L.EndTime = NotEnded, NEW ts \in Time, M = [L EXCEPT !.EndTime = ts]
      PROVE  x \in Versions(M)
  <2>1. [L EXCEPT !.EndTime = NotEnded] = L
    BY <1>2 DEF FuncLog
  <2>2. [M EXCEPT !.EndTime = NotEnded] = L
    BY <1>2 DEF FuncLog
  <2> QED
    BY <2>1, <2>2 DEF Versions
<1> QED
  BY <1>1, <1>2

\* A call that is open now and was recorded before the step was open before it.
LEMMA OpenWasOpen ==
  ASSUME TypeOK, Seen!IInv, Seen!IInv', ChannelIsTheDifference, [Next]_vars,
         NEW id \in DOMAIN funcLogs', id < nextID, ~IsEnded(funcLogs'[id])
  PROVE  id \in DOMAIN funcLogs /\ ~IsEnded(funcLogs[id])
<1>1. nextID \in Nat /\ nextID' \in Nat
  BY LedgerFacts, LedgerFactsNext
<1>2. id \in 0 .. nextID' - 1 /\ Recording!Ledger'[id] = funcLogs'[id]
  BY LedgerFactsNext
<1>3. id \in 0 .. nextID - 1
  BY <1>1, <1>2
<1>4. ~IsEnded(Recording!Ledger[id])
  BY <1>2, <1>3, LedgerKeeps DEF IsEnded
<1> QED
  BY <1>3, <1>4, LedgerFacts

-----------------------------------------------------------------------------
(* The channel, the worker and the store                                   *)

\* A step delivers an event, takes an object or leaves the channel alone.
LEMMA DifferenceNext ==
  ASSUME TypeOK, ChannelIsTheDifference, [Next]_vars
  PROVE  ChannelIsTheDifference' /\ ch' \in Seq(RawFuncLog \cup {Symbols}) /\ Len(ch') <= ChanCap
<1>0. ch \in Seq(RawFuncLog \cup {Symbols}) /\ Len(ch) <= ChanCap /\ App \in AppState
  BY DEF TypeOK, App, AppState, Recording!TypeOK, Recording!AppTypeOK
<1>1. ASSUME NEW g \in GID, NEW tx \in TxID, NEW ts \in Time, Start(g, tx, ts)
      PROVE  ChannelIsTheDifference' /\ ch' \in Seq(RawFuncLog \cup {Symbols}) /\ Len(ch') <= ChanCap
  BY <1>0, <1>1, StartHappens, DeliverDifference DEF Start, Happened
<1>2. ASSUME NEW g \in GID, NEW ts \in Time, End(g, ts)
      PROVE  ChannelIsTheDifference' /\ ch' \in Seq(RawFuncLog \cup {Symbols}) /\ Len(ch') <= ChanCap
  BY <1>0, <1>2, EndHappens, DeliverDifference DEF End, Happened
<1>3. CASE RecvRaw \/ RecvSymbols
  <2>1. ch # <<>> /\ ch' = Tail(ch) /\ seen' = Tail(seen) /\ UNCHANGED appVars
    BY <1>3 DEF RecvRaw, RecvSymbols
  <2> QED
    BY <1>0, <2>1, TakeDifference
<1>4. CASE UNCHANGED <<ch, seen, appVars>>
  <2>1. App' = App /\ ch' = ch /\ seen' = seen
    BY <1>4 DEF App, appVars
  <2> QED
    BY <1>0, <2>1 DEF ChannelIsTheDifference
<1>5. WorkerNext => RecvRaw \/ RecvSymbols \/ UNCHANGED <<ch, seen, appVars>>
  BY DEF WorkerNext, FindEmpty, RecvTick, RecvClosed, Proceed, SaveFuncLogs, CloseStore, ReplaceStore, OpenStore, srvVars
<1>6. \A r \in Reader : ReaderNext(r) => UNCHANGED <<ch, seen, appVars>>
  BY DEF ReaderNext, LockStore, ReadRecord, ReadFails, ReadPanics, GiveUp, FinishStore, GetSimulator, ReadSimulator, UnlockStore
<1>7. Disconnected \/ UNCHANGED vars => UNCHANGED <<ch, seen, appVars>>
  BY DEF Disconnected, vars, srvVars
<1> QED
  BY <1>1, <1>2, <1>3, <1>4, <1>5, <1>6, <1>7 DEF Next

\* Once the worker has left its loop the channel stays closed and empty.
LEMMA WorkerLifeNext ==
  ASSUME WorkerLife, [Next]_vars
  PROVE  WorkerLife'
<1>1. CASE Disconnected \/ UNCHANGED vars
  BY <1>1 DEF WorkerLife, Disconnected, vars, srvVars, simVars, workerVars
<1>2. ASSUME NEW r \in Reader, ReaderNext(r)
      PROVE  WorkerLife'
  <2>1. UNCHANGED <<ch, connected, simVars, workerVars>>
    BY <1>2 DEF ReaderNext, LockStore, ReadRecord, ReadFails, ReadPanics, GiveUp, FinishStore, GetSimulator, ReadSimulator, UnlockStore
  <2> QED
    BY <2>1 DEF WorkerLife, simVars, workerVars
<1>3. ASSUME NEW raw, Deliver(raw)
      PROVE  WorkerLife'
  BY <1>3 DEF WorkerLife, Deliver, simVars, workerVars
<1>4. CASE RecvRaw
  <2>1. /\ pc \in {"select", "drain"} /\ pc' \in {"funcLog", "drain"} /\ ch # <<>>
        /\ UNCHANGED <<closing, registered, connected>>
    BY <1>4 DEF RecvRaw, ProcessRaw, CanReceive
  <2> QED
    BY <2>1 DEF WorkerLife
<1>5. CASE RecvSymbols
  <2>1. /\ pc \in {"select", "drain"} /\ pc' = "drain" /\ ch # <<>>
        /\ UNCHANGED <<closing, registered, connected, nextID>>
    BY <1>5 DEF RecvSymbols, TakeSymbols, CanReceive, simVars
  <2> QED
    BY <2>1 DEF WorkerLife
<1>6. CASE FindEmpty \/ RecvTick \/ RecvClosed
  BY <1>6 DEF WorkerLife, FindEmpty, RecvTick, RecvClosed, Idle, Tick, Stop, srvVars, simVars
<1>7. CASE Proceed
  BY <1>7 DEF WorkerLife, Proceed, NewSimulator, WriteGoroutines, ClearSimulator, Clear, DeleteSimulator, srvVars, simVars
<1>8. CASE SaveFuncLogs \/ CloseStore \/ ReplaceStore \/ OpenStore
  BY <1>8 DEF WorkerLife, SaveFuncLogs, CloseStore, ReplaceStore, OpenStore, WriteFuncLogs, CloseLog, ReopenLog, srvVars, simVars, workerVars
<1> QED
  BY <1>1, <1>2, <1>3, <1>4, <1>5, <1>6, <1>7, <1>8 DEF Next, Start, End, WorkerNext

\* The FuncLog store changes only when the worker writes the simulator's calls.
LEMMA StoreSteps ==
  ASSUME [Next]_vars
  PROVE  \/ UNCHANGED funcStore
         \/ pc = "funcLog" /\ funcStore' = Merge(funcStore, funcLogs) /\ UNCHANGED <<nextID, funcLogs, readVars>>
<1>1. Disconnected \/ UNCHANGED vars => UNCHANGED funcStore
  BY DEF Disconnected, vars, workerVars
<1>2. \A r \in Reader : ReaderNext(r) => UNCHANGED funcStore
  BY DEF ReaderNext, LockStore, ReadRecord, ReadFails, ReadPanics, GiveUp, FinishStore, GetSimulator, ReadSimulator, UnlockStore, workerVars
<1>3. \A raw : Deliver(raw) => UNCHANGED funcStore
  BY DEF Deliver, workerVars
<1>4. WorkerNext => UNCHANGED funcStore \/ SaveFuncLogs
  BY DEF WorkerNext, RecvRaw, ProcessRaw, RecvSymbols, TakeSymbols, FindEmpty, Idle, RecvTick, Tick, RecvClosed, Stop, Proceed, NewSimulator,
         WriteGoroutines, ClearSimulator, DeleteSimulator, CloseStore, CloseLog, ReplaceStore, OpenStore, ReopenLog, workerVars
<1>5. SaveFuncLogs => pc = "funcLog" /\ funcStore' = Merge(funcStore, funcLogs) /\ UNCHANGED <<nextID, funcLogs, readVars>>
  BY DEF SaveFuncLogs, WriteFuncLogs, simVars, srvVars
<1> QED
  BY <1>1, <1>2, <1>3, <1>4, <1>5 DEF Next, Start, End

\* The store stays a version of the beginning of the ledger, and never shrinks.
LEMMA StoreIsPastNext ==
  ASSUME TypeOK, Seen!IInv, Seen!IInv', ChannelIsTheDifference, StoreIsPast, [Next]_vars
  PROVE  StoreIsPast' /\ DOMAIN funcStore \subseteq DOMAIN funcStore'
<1>0. nextID \in Nat /\ nextID' \in Nat /\ nextID <= nextID'
  BY LedgerFacts, LedgerFactsNext, LedgerKeeps
<1>1. CASE UNCHANGED funcStore
  <2>1. PICK n \in 0 .. nextID : DOMAIN funcStore = 0 .. n - 1
    BY DEF StoreIsPast
  <2>2. n \in 0 .. nextID' /\ DOMAIN funcStore' = 0 .. n - 1
    BY <1>0, <1>1, <2>1
  <2>3. ASSUME NEW id \in DOMAIN funcStore
        PROVE  funcStore[id] \in Versions(Recording!Ledger'[id])
    <3>1. id \in 0 .. nextID - 1 /\ Recording!Ledger[id] \in FuncLog /\ funcStore[id] \in Versions(Recording!Ledger[id])
      BY LedgerFacts DEF StoreIsPast
    <3> QED
      BY <3>1, LedgerKeeps, VersionsPersist
  <2> QED
    BY <1>1, <2>2, <2>3 DEF StoreIsPast
<1>2. CASE funcStore' = Merge(funcStore, funcLogs) /\ nextID' = nextID /\ funcLogs' = funcLogs
  <2>1. DOMAIN funcStore' = DOMAIN funcStore \cup DOMAIN funcLogs
    BY <1>2 DEF Merge
  <2>2. DOMAIN funcStore' = 0 .. nextID' - 1
    BY <1>2, <2>1, LedgerFacts
  <2>3. nextID' \in 0 .. nextID'
    BY <1>0
  <2>4. ASSUME NEW id \in DOMAIN funcStore'
        PROVE  funcStore'[id] \in Versions(Recording!Ledger'[id])
    <3>1. id \in 0 .. nextID' - 1 /\ id \in 0 .. nextID - 1
      BY <1>2, <2>2
    <3>2. funcStore'[id] = Recording!Ledger[id]
      <4>1. CASE id \in DOMAIN funcLogs
        BY <1>2, <3>1, <4>1, LedgerFacts DEF Merge
      <4>2. CASE id \notin DOMAIN funcLogs
        BY <1>2, <3>1, <4>2, LedgerFacts DEF Merge
      <4> QED
        BY <4>1, <4>2
    <3>3. Recording!Ledger'[id] = Recording!Ledger[id]
      <4>1. CASE id \in DOMAIN funcLogs
        BY <1>2, <3>1, <4>1, LedgerFacts, LedgerFactsNext
      <4>2. CASE id \notin DOMAIN funcLogs
        BY <1>2, <3>1, <3>2, <4>2, LedgerFactsNext
      <4> QED
        BY <4>1, <4>2
    <3> QED
      BY <3>2, <3>3 DEF Versions
  <2> QED
    BY <2>1, <2>2, <2>3, <2>4 DEF StoreIsPast
<1> QED
  BY <1>1, <1>2, StoreSteps

-----------------------------------------------------------------------------
(* The requests                                                            *)

\* What request r has passed on is true; what it owes to its client when it is done.
Sent(r) == \A id \in DOMAIN rSent[r] : id < nextID /\ rSent[r][id] \in Versions(Recording!Ledger[id])
Owes(r) ==
  rpc[r] = "done" /\ ~rCut[r] =>
    /\ 0 .. rMax[r] - 1 \subseteq DOMAIN rSent[r]
    /\ registered =>
         \A id \in DOMAIN funcLogs : id < rFloor[r] /\ ~IsEnded(funcLogs[id]) => id \in DOMAIN rSent[r]

LEMMA TruthOfEach == ReadersTellTheTruth <=> \A r \in Reader : Sent(r) /\ Owes(r)
BY DEF ReadersTellTheTruth, Sent, Owes, Versions

LEMMA TruthOfEachNext == ReadersTellTheTruth' <=> \A r \in Reader : Sent(r)' /\ Owes(r)'
BY DEF ReadersTellTheTruth, Sent, Owes, Versions

\* A request changes neither the recording nor another request.
LEMMA RequestSteps ==
  ASSUME TypeOK, NEW r \in Reader, ReaderNext(r)
  PROVE  /\ UNCHANGED <<simVars, workerVars, appVars, connected, ch, seen, symbols, storeStatus>>
         /\ \A q \in Reader \ {r} : /\ rpc'[q] = rpc[q] /\ rNext'[q] = rNext[q] /\ rMax'[q] = rMax[q]
                                    /\ rSent'[q] = rSent[q] /\ rFloor'[q] = rFloor[q] /\ rCut'[q] = rCut[q]
<1>1. /\ rpc \in [Reader -> RPC] /\ rNext \in [Reader -> Nat] /\ rMax \in [Reader -> Nat] /\ rFloor \in [Reader -> Nat]
      /\ DOMAIN rSent = Reader /\ rCut \in [Reader -> BOOLEAN]
  BY DEF TypeOK
<1>2. CASE LockStore(r)
  BY <1>1, <1>2 DEF LockStore
<1>3. CASE ReadRecord(r)
  BY <1>1, <1>3 DEF ReadRecord
<1>4. CASE ReadFails(r)
  BY <1>1, <1>4 DEF ReadFails, UnlockStore
<1>5. CASE ReadPanics(r)
  BY <1>1, <1>5 DEF ReadPanics, readVars
<1>6. CASE GiveUp(r)
  BY <1>1, <1>6 DEF GiveUp, UnlockStore
<1>7. CASE FinishStore(r)
  BY <1>1, <1>7 DEF FinishStore, UnlockStore
<1>8. CASE GetSimulator(r)
  BY <1>1, <1>8 DEF GetSimulator
<1>9. CASE ReadSimulator(r)
  BY <1>1, <1>9 DEF ReadSimulator
<1> QED
  BY <1>2, <1>3, <1>4, <1>5, <1>6, <1>7, <1>8, <1>9 DEF ReaderNext

\* The other steps change no request, and the simulator is stored once.
LEMMA OtherSteps ==
  ASSUME [Next]_vars
  PROVE  /\ UNCHANGED readVars \/ \E r \in Reader : ReaderNext(r)
         /\ pc' = "new" => pc = "new"
         /\ registered' => registered \/ pc = "new"
<1>1. Disconnected \/ UNCHANGED vars => UNCHANGED <<pc, registered, readVars>>
  BY DEF Disconnected, vars, srvVars, workerVars
<1>2. \A r \in Reader : ReaderNext(r) => UNCHANGED <<pc, registered>>
  BY DEF ReaderNext, LockStore, ReadRecord, ReadFails, ReadPanics, GiveUp, FinishStore, GetSimulator, ReadSimulator, UnlockStore, workerVars
<1>3. \A raw : Deliver(raw) => UNCHANGED <<pc, registered, readVars>>
  BY DEF Deliver, workerVars
<1>4. WorkerNext => UNCHANGED readVars
  BY DEF WorkerNext, RecvRaw, RecvSymbols, FindEmpty, RecvTick, RecvClosed, Proceed, SaveFuncLogs, CloseStore, ReplaceStore, OpenStore, srvVars
<1>5. WorkerNext => (pc' = "new" => pc = "new") /\ (registered' => registered \/ pc = "new")
  BY DEF WorkerNext, RecvRaw, ProcessRaw, RecvSymbols, TakeSymbols, FindEmpty, Idle, RecvTick, Tick, RecvClosed, Stop, Proceed, NewSimulator,
         WriteGoroutines, ClearSimulator, DeleteSimulator, CloseStore, CloseLog, ReplaceStore, OpenStore, ReopenLog, SaveFuncLogs,
         WriteFuncLogs, workerVars
<1> QED
  BY <1>1, <1>2, <1>3, <1>4, <1>5 DEF Next, Start, End

\* What a request has passed on, and what it owes, survives the steps of the others:
\* the store and the ledger only grow, and a call that is open now was open before.
LEMMA RequestUntouched ==
  ASSUME TypeOK, Seen!IInv, Seen!IInv', ChannelIsTheDifference, WorkerLife, StoreIsPast, [Next]_vars,
         NEW r \in Reader, RequestInv(r), Sent(r), Owes(r),
         rpc'[r] = rpc[r], rNext'[r] = rNext[r], rMax'[r] = rMax[r], rSent'[r] = rSent[r], rFloor'[r] = rFloor[r],
         rCut'[r] = rCut[r]
  PROVE  RequestInv(r)' /\ Sent(r)' /\ Owes(r)'
<1>0. nextID \in Nat /\ nextID' \in Nat /\ nextID <= nextID' /\ rFloor[r] \in Nat /\ rMax[r] \in Nat
  BY LedgerFacts, LedgerFactsNext, LedgerKeeps DEF TypeOK
<1>1. RequestInv(r)'
  <2>1. rMax'[r] > 0 => rMax'[r] - 1 \in DOMAIN funcStore'
    BY StoreIsPastNext DEF RequestInv
  <2>2. rFloor'[r] <= nextID'
    <3> PICK a \in Nat, b \in Nat, c \in Nat : a = nextID /\ b = nextID' /\ c = rFloor[r]
      BY <1>0
    <3> QED
      BY <1>0 DEF RequestInv
  <2>3. rpc'[r] = "snapshot" => pc' # "new"
    BY OtherSteps DEF RequestInv
  <2> QED
    BY <2>1, <2>2, <2>3 DEF RequestInv
<1>2. Sent(r)'
  <2> SUFFICES ASSUME NEW id \in DOMAIN rSent[r]
               PROVE  id < nextID' /\ rSent[r][id] \in Versions(Recording!Ledger'[id])
    BY DEF Sent
  <2>1. id < nextID /\ rSent[r][id] \in Versions(Recording!Ledger[id]) /\ id \in Nat
    BY DEF Sent, TypeOK, IsMap
  <2>2. id \in 0 .. nextID - 1 /\ id < nextID'
    <3> PICK a \in Nat, b \in Nat : a = nextID /\ b = nextID'
      BY <1>0
    <3> QED
      BY <1>0, <2>1
  <2>3. Recording!Ledger[id] \in FuncLog
    BY <2>2, LedgerFacts
  <2> QED
    BY <2>1, <2>2, <2>3, LedgerKeeps, VersionsPersist
<1>3. Owes(r)'
  <2> SUFFICES ASSUME rpc[r] = "done", ~rCut[r], registered', NEW id \in DOMAIN funcLogs', id < rFloor[r], ~IsEnded(funcLogs'[id])
               PROVE  id \in DOMAIN rSent[r]
    BY DEF Owes
  <2>1. id \in Nat
    BY LedgerFactsNext
  <2>2. id < nextID
    <3> PICK a \in Nat, c \in Nat : a = nextID /\ c = rFloor[r]
      BY <1>0
    <3> QED
      BY <2>1 DEF RequestInv
  <2>3. registered
    BY <1>0, <2>1, <2>2, OtherSteps DEF WorkerLife
  <2> QED
    BY <2>2, <2>3, OpenWasOpen DEF Owes
<1> QED
  BY <1>1, <1>2, <1>3

\* The number of records found in the store is below the number of calls.
LEMMA RecordsAreThere ==
  ASSUME Seen!IInv, StoreIsPast
  PROVE  Records \in Nat /\ (Records > 0 => Records - 1 \in DOMAIN funcStore)
<1>1. PICK n \in 0 .. nextID : DOMAIN funcStore = 0 .. n - 1
  BY DEF StoreIsPast
<1>2. n \in Nat
  BY <1>1, LedgerFacts
<1>3. Cardinality(0 .. n - 1) = n
  BY <1>2, FS_Interval
<1> QED
  BY <1>1, <1>2, <1>3 DEF Records

\* While a request is in the store: locking it, reading a record, leaving.
LEMMA RequestInStore ==
  ASSUME TypeOK, Seen!IInv, WorkerLife, StoreIsPast, NEW r \in Reader, RequestInv(r), Sent(r), Owes(r),
         LockStore(r) \/ ReadRecord(r) \/ ReadFails(r) \/ ReadPanics(r) \/ GiveUp(r) \/ FinishStore(r)
  PROVE  RequestInv(r)' /\ Sent(r)' /\ Owes(r)'
<1>0. /\ rpc \in [Reader -> RPC] /\ rNext \in [Reader -> Nat] /\ rMax \in [Reader -> Nat] /\ rFloor \in [Reader -> Nat]
      /\ DOMAIN rSent = Reader /\ rCut \in [Reader -> BOOLEAN] /\ nextID \in Nat
  BY LedgerFacts DEF TypeOK
<1>1. CASE LockStore(r)
  <2>1. /\ UNCHANGED <<simVars, workerVars, rNext, rSent, rCut>> /\ rpc'[r] = "reading" /\ rMax'[r] = Records /\ rFloor'[r] = nextID
    BY <1>0, <1>1 DEF LockStore
  <2>2. RequestInv(r)'
    BY <1>0, <2>1, RecordsAreThere DEF RequestInv, simVars, workerVars
  <2>3. Sent(r)'
    BY <2>1 DEF Sent, Recording!Ledger, simVars, workerVars
  <2>4. Owes(r)'
    BY <2>1 DEF Owes
  <2> QED
    BY <2>2, <2>3, <2>4
<1>2. CASE ReadRecord(r)
  <2>1. /\ UNCHANGED <<simVars, workerVars, rpc, rMax, rFloor, rCut>> /\ rpc[r] = "reading" /\ rNext[r] < rMax[r]
        /\ rNext'[r] = rNext[r] + 1 /\ rSent'[r] = With(rSent[r], rNext[r], funcStore[rNext[r]])
    BY <1>0, <1>2 DEF ReadRecord
  <2>2. DOMAIN rSent'[r] = DOMAIN rSent[r] \cup {rNext[r]}
    BY <2>1 DEF With
  <2>3. 0 .. rNext'[r] - 1 \subseteq DOMAIN rSent'[r]
    <3> PICK k \in Nat : k = rNext[r]
      BY <1>0
    <3> QED
      BY <2>1, <2>2 DEF RequestInv
  <2>4. RequestInv(r)'
    BY <2>1, <2>3 DEF RequestInv, simVars, workerVars
  <2>5. rNext[r] \in DOMAIN funcStore /\ rNext[r] < nextID
    <3>1. PICK n \in 0 .. nextID : DOMAIN funcStore = 0 .. n - 1
      BY DEF StoreIsPast
    <3> PICK k \in Nat, m \in Nat, x \in Nat : k = rNext[r] /\ m = rMax[r] /\ x = nextID
      BY <1>0
    <3>2. m > 0 /\ m - 1 \in 0 .. n - 1
      BY <2>1, <3>1 DEF RequestInv
    <3> QED
      BY <2>1, <3>1, <3>2
  <2>6. Sent(r)'
    <3> SUFFICES ASSUME NEW id \in DOMAIN rSent'[r]
                 PROVE  id < nextID' /\ rSent'[r][id] \in Versions(Recording!Ledger'[id])
      BY DEF Sent
    <3>1. nextID' = nextID /\ Recording!Ledger' = Recording!Ledger
      BY <2>1 DEF Recording!Ledger, simVars, workerVars
    <3>2. CASE id = rNext[r]
      <4>1. rSent'[r][id] = funcStore[id]
        BY <2>1, <3>2 DEF With
      <4> QED
        BY <2>5, <3>1, <3>2, <4>1 DEF StoreIsPast
    <3>3. CASE id # rNext[r]
      <4>1. id \in DOMAIN rSent[r] /\ rSent'[r][id] = rSent[r][id]
        BY <2>1, <2>2, <3>3 DEF With
      <4> QED
        BY <3>1, <4>1 DEF Sent
    <3> QED
      BY <3>2, <3>3
  <2>7. Owes(r)'
    BY <2>1 DEF Owes
  <2> QED
    BY <2>4, <2>6, <2>7
<1>3. CASE ReadFails(r) \/ GiveUp(r) \/ FinishStore(r)
  <2>1. /\ UNCHANGED <<simVars, workerVars, rNext, rMax, rSent, rFloor>>
        /\ rpc'[r] = "error" \/ (rpc'[r] = "simulator" /\ (rCut'[r] \/ rNext[r] >= rMax[r]))
    BY <1>0, <1>3 DEF ReadFails, GiveUp, FinishStore, UnlockStore
  <2>2. RequestInv(r)'
    <3>1. rNext[r] >= rMax[r] => rMax[r] <= rNext[r]
      BY <1>0
    <3> QED
      BY <2>1, <3>1 DEF RequestInv, simVars, workerVars
  <2>3. Sent(r)'
    BY <2>1 DEF Sent, Recording!Ledger, simVars, workerVars
  <2>4. Owes(r)'
    BY <2>1 DEF Owes
  <2> QED
    BY <2>2, <2>3, <2>4
<1>4. CASE ReadPanics(r)
  <2>1. UNCHANGED <<simVars, workerVars, rpc, rNext, rMax, rSent, rFloor, rCut>>
    BY <1>4 DEF ReadPanics, readVars
  <2> QED
    BY <2>1 DEF RequestInv, Sent, Owes, Recording!Ledger, simVars, workerVars
<1> QED
  BY <1>1, <1>2, <1>3, <1>4

\* While a request is at the simulator. The calls that it skips were found in the
\* store, and the simulator it reads is the one that recorded them.
LEMMA RequestAtSimulator ==
  ASSUME TypeOK, Seen!IInv, WorkerLife, StoreIsPast, NEW r \in Reader, RequestInv(r), Sent(r), Owes(r),
         GetSimulator(r) \/ ReadSimulator(r)
  PROVE  RequestInv(r)' /\ Sent(r)' /\ Owes(r)'
<1>0. /\ rpc \in [Reader -> RPC] /\ rNext \in [Reader -> Nat] /\ rMax \in [Reader -> Nat] /\ rFloor \in [Reader -> Nat]
      /\ DOMAIN rSent = Reader /\ rCut \in [Reader -> BOOLEAN] /\ nextID \in Nat
  BY LedgerFacts DEF TypeOK
<1>1. CASE GetSimulator(r)
  <2>1. /\ UNCHANGED <<simVars, workerVars, rNext, rMax, rSent, rFloor, rCut>> /\ rpc[r] = "simulator"
        /\ rpc'[r] = IF registered THEN "snapshot" ELSE "done"
    BY <1>0, <1>1 DEF GetSimulator
  <2>2. RequestInv(r)'
    BY <2>1 DEF RequestInv, WorkerLife, simVars, workerVars
  <2>3. Sent(r)'
    BY <2>1 DEF Sent, Recording!Ledger, simVars, workerVars
  <2>4. ~rCut[r] => 0 .. rMax[r] - 1 \subseteq DOMAIN rSent[r]
    <3> PICK m \in Nat, k \in Nat : m = rMax[r] /\ k = rNext[r]
      BY <1>0
    <3> QED
      BY <2>1 DEF RequestInv
  <2>5. Owes(r)'
    BY <2>1, <2>4 DEF Owes, workerVars
  <2> QED
    BY <2>2, <2>3, <2>5
<1>2. CASE ReadSimulator(r)
  <2> DEFINE rest == {id \in DOMAIN funcLogs : id >= rMax[r]}
  <2>1. PICK sent \in SUBSET rest : /\ rSent'[r] = Merge(rSent[r], Restrict(funcLogs, sent))
                                    /\ rCut'[r] = (rCut[r] \/ sent # rest)
    BY <1>0, <1>2 DEF ReadSimulator
  <2>2. UNCHANGED <<simVars, workerVars, rNext, rMax, rFloor>> /\ rpc[r] = "snapshot" /\ rpc'[r] = "done"
    BY <1>0, <1>2 DEF ReadSimulator
  <2>3. DOMAIN rSent'[r] = DOMAIN rSent[r] \cup sent
    BY <2>1 DEF Merge, Restrict
  <2>4. ~rCut'[r] => ~rCut[r] /\ sent = rest
    BY <1>0, <2>1
  <2>5. ~rCut[r] => 0 .. rMax[r] - 1 \subseteq DOMAIN rSent[r]
    <3> PICK m \in Nat, k \in Nat : m = rMax[r] /\ k = rNext[r]
      BY <1>0
    <3> QED
      BY <2>2 DEF RequestInv
  <2>6. RequestInv(r)'
    BY <2>2, <2>3, <2>4 DEF RequestInv, simVars, workerVars
  <2>7. Sent(r)'
    <3> SUFFICES ASSUME NEW id \in DOMAIN rSent'[r]
                 PROVE  id < nextID' /\ rSent'[r][id] \in Versions(Recording!Ledger'[id])
      BY DEF Sent
    <3>1. nextID' = nextID /\ Recording!Ledger' = Recording!Ledger
      BY <2>2 DEF Recording!Ledger, simVars, workerVars
    <3>2. CASE id \in sent
      <4>1. id \in DOMAIN funcLogs /\ rSent'[r][id] = funcLogs[id]
        BY <2>1, <3>2 DEF Merge, Restrict
      <4>2. id \in 0 .. nextID - 1 /\ Recording!Ledger[id] = funcLogs[id]
        BY <4>1, LedgerFacts
      <4> QED
        BY <1>0, <3>1, <4>1, <4>2 DEF Versions
    <3>3. CASE id \notin sent
      <4>1. id \in DOMAIN rSent[r] /\ rSent'[r][id] = rSent[r][id]
        BY <2>1, <2>3, <3>3 DEF Merge, Restrict
      <4> QED
        BY <3>1, <4>1 DEF Sent
    <3> QED
      BY <3>2, <3>3
  <2>8. Owes(r)'
    <3> SUFFICES ASSUME ~rCut'[r]
                 PROVE  /\ 0 .. rMax[r] - 1 \subseteq DOMAIN rSent'[r]
                        /\ \A id \in DOMAIN funcLogs : id \in DOMAIN rSent'[r]
      BY <2>2 DEF Owes, simVars
    <3>1. 0 .. rMax[r] - 1 \subseteq DOMAIN rSent[r] /\ sent = rest
      BY <2>4, <2>5
    <3>2. ASSUME NEW id \in DOMAIN funcLogs, id \notin rest
          PROVE  id \in 0 .. rMax[r] - 1
      <4>1. id \in Nat /\ ~(id >= rMax[r])
        BY <3>2, LedgerFacts
      <4> PICK m \in Nat : m = rMax[r]
        BY <1>0
      <4> QED
        BY <4>1
    <3> HIDE DEF rest
    <3> QED
      BY <2>3, <3>1, <3>2
  <2> QED
    BY <2>6, <2>7, <2>8
<1> QED
  BY <1>1, <1>2

LEMMA RequestsNext ==
  ASSUME IInv, Seen!IInv', [Next]_vars
  PROVE  (\A r \in Reader : RequestInv(r)') /\ ReadersTellTheTruth'
<1>0. /\ TypeOK /\ Seen!IInv /\ ChannelIsTheDifference /\ WorkerLife /\ StoreIsPast
      /\ \A r \in Reader : RequestInv(r) /\ Sent(r) /\ Owes(r)
  BY TruthOfEach DEF IInv
<1>1. ASSUME NEW q \in Reader
      PROVE  RequestInv(q)' /\ Sent(q)' /\ Owes(q)'
  <2>0. RequestInv(q) /\ Sent(q) /\ Owes(q)
    BY <1>0
  <2>1. CASE UNCHANGED readVars
    <3>1. /\ rpc'[q] = rpc[q] /\ rNext'[q] = rNext[q] /\ rMax'[q] = rMax[q] /\ rSent'[q] = rSent[q]
          /\ rFloor'[q] = rFloor[q] /\ rCut'[q] = rCut[q]
      BY <2>1 DEF readVars
    <3> QED
      BY <1>0, <2>0, <3>1, RequestUntouched
  <2>2. ASSUME NEW r \in Reader, ReaderNext(r), r # q
        PROVE  RequestInv(q)' /\ Sent(q)' /\ Owes(q)'
    <3>1. /\ rpc'[q] = rpc[q] /\ rNext'[q] = rNext[q] /\ rMax'[q] = rMax[q] /\ rSent'[q] = rSent[q]
          /\ rFloor'[q] = rFloor[q] /\ rCut'[q] = rCut[q]
      BY <1>0, <2>2, RequestSteps
    <3> QED
      BY <1>0, <2>0, <3>1, RequestUntouched
  <2>3. CASE ReaderNext(q)
    BY <1>0, <2>0, <2>3, RequestInStore, RequestAtSimulator DEF ReaderNext
  <2> QED
    BY <2>1, <2>2, <2>3, OtherSteps
<1> QED
  BY <1>1, TruthOfEachNext

-----------------------------------------------------------------------------
(* Types                                                                   *)

\* What the requests and the locking of the store keep of their own.
LEMMA ServerTypes ==
  ASSUME TypeOK, Seen!IInv, StoreIsPast, [Next]_vars
  PROVE  /\ connected' \in BOOLEAN /\ symbols' \in BOOLEAN /\ storeStatus' \in {"open", "closed", "blank"}
         /\ storeLocked' \in BOOLEAN /\ rpc' \in [Reader -> RPC] /\ rCut' \in [Reader -> BOOLEAN] /\ crashed' \in BOOLEAN
         /\ rNext' \in [Reader -> Nat] /\ rMax' \in [Reader -> Nat] /\ rFloor' \in [Reader -> Nat]
<1> USE DEF TypeOK
<1>1. CASE UNCHANGED vars \/ Disconnected \/ WorkerNext \/ \E raw : Deliver(raw)
  <2>1. /\ UNCHANGED <<rpc, rNext, rMax, rSent, rFloor, rCut, crashed>>
        /\ connected' \in {connected, FALSE} /\ symbols' \in {symbols, TRUE}
        /\ storeStatus' \in {storeStatus, "open", "closed", "blank"} /\ storeLocked' \in {storeLocked, FALSE}
    BY <1>1 DEF vars, srvVars, readVars, Disconnected, WorkerNext, RecvRaw, RecvSymbols, FindEmpty, RecvTick, RecvClosed, Proceed, SaveFuncLogs,
         CloseStore, ReplaceStore, OpenStore, Deliver
  <2> QED
    BY <2>1
<1>2. ASSUME NEW r \in Reader, ReaderNext(r)
      PROVE  /\ connected' \in BOOLEAN /\ symbols' \in BOOLEAN /\ storeStatus' \in {"open", "closed", "blank"}
             /\ storeLocked' \in BOOLEAN /\ rpc' \in [Reader -> RPC] /\ rCut' \in [Reader -> BOOLEAN] /\ crashed' \in BOOLEAN
             /\ rNext' \in [Reader -> Nat] /\ rMax' \in [Reader -> Nat] /\ rFloor' \in [Reader -> Nat]
  <2>0. Records \in Nat /\ nextID \in Nat
    BY RecordsAreThere, LedgerFacts
  <2>1. CASE LockStore(r)
    BY <2>0, <2>1 DEF LockStore, RPC
  <2>2. CASE ReadRecord(r)
    BY <2>2 DEF ReadRecord
  <2>3. CASE ReadFails(r)
    BY <2>3 DEF ReadFails, UnlockStore, RPC
  <2>4. CASE ReadPanics(r)
    BY <2>4 DEF ReadPanics, readVars
  <2>5. CASE GiveUp(r)
    BY <2>5 DEF GiveUp, UnlockStore, RPC
  <2>6. CASE FinishStore(r)
    BY <2>6 DEF FinishStore, UnlockStore, RPC
  <2>7. CASE GetSimulator(r)
    BY <2>7 DEF GetSimulator, RPC
  <2>8. CASE ReadSimulator(r)
    BY <2>8 DEF ReadSimulator, RPC
  <2> QED
    BY <1>2, <2>1, <2>2, <2>3, <2>4, <2>5, <2>6, <2>7, <2>8 DEF ReaderNext
<1> QED
  BY <1>1, <1>2 DEF Next, Start, End

\* What a request passes on is a record of the store or of the simulator.
LEMMA SentTypes ==
  ASSUME TypeOK, Seen!IInv, StoreIsPast, \A r \in Reader : RequestInv(r), [Next]_vars
  PROVE  DOMAIN rSent' = Reader /\ \A q \in Reader : IsMap(rSent'[q], Nat, FuncLog)
<1>0. /\ DOMAIN rSent = Reader /\ \A q \in Reader : IsMap(rSent[q], Nat, FuncLog)
      /\ rNext \in [Reader -> Nat] /\ rMax \in [Reader -> Nat]
  BY DEF TypeOK
<1>1. \A id \in DOMAIN funcStore : id \in Nat /\ funcStore[id] \in FuncLog
  BY DEF TypeOK, Recording!TypeOK, Recording!WorkerTypeOK, Recording!IsMap, Recording!FuncLog, FuncLog, Recording!NotEnded, NotEnded,
         Recording!NotFoundParent, NotFoundParent
<1>2. \A id \in DOMAIN funcLogs : id \in Nat /\ funcLogs[id] \in FuncLog
  BY DEF TypeOK, Recording!TypeOK, Recording!SimTypeOK, Recording!IsMap, Recording!FuncLog, FuncLog, Recording!NotEnded, NotEnded,
         Recording!NotFoundParent, NotFoundParent
<1>3. CASE UNCHANGED rSent
  BY <1>0, <1>3
<1>4. ASSUME NEW r \in Reader, ReadRecord(r)
      PROVE  DOMAIN rSent' = Reader /\ \A q \in Reader : IsMap(rSent'[q], Nat, FuncLog)
  <2>1. rNext[r] \in DOMAIN funcStore
    <3>1. PICK n \in 0 .. nextID : DOMAIN funcStore = 0 .. n - 1
      BY DEF StoreIsPast
    <3> PICK k \in Nat, m \in Nat : k = rNext[r] /\ m = rMax[r]
      BY <1>0
    <3>2. k < m /\ m - 1 \in 0 .. n - 1 /\ n \in Nat
      <4>1. k < m
        BY <1>4 DEF ReadRecord
      <4>2. m > 0
        BY <4>1
      <4> QED
        BY <4>1, <4>2, <3>1, LedgerFacts DEF RequestInv
    <3> QED
      BY <3>1, <3>2
  <2>2. IsMap(With(rSent[r], rNext[r], funcStore[rNext[r]]), Nat, FuncLog)
    BY <1>0, <1>1, <2>1 DEF IsMap, With
  <2>3. DOMAIN rSent' = Reader /\ \A q \in Reader : rSent'[q] = IF q = r THEN With(rSent[r], rNext[r], funcStore[rNext[r]]) ELSE rSent[q]
    BY <1>0, <1>4 DEF ReadRecord
  <2> QED
    BY <1>0, <2>2, <2>3
<1>5. ASSUME NEW r \in Reader, ReadSimulator(r)
      PROVE  DOMAIN rSent' = Reader /\ \A q \in Reader : IsMap(rSent'[q], Nat, FuncLog)
  <2>1. PICK sent \in SUBSET DOMAIN funcLogs : rSent' = [rSent EXCEPT ![r] = Merge(@, Restrict(funcLogs, sent))]
    BY <1>5 DEF ReadSimulator
  <2>2. IsMap(Merge(rSent[r], Restrict(funcLogs, sent)), Nat, FuncLog)
    BY <1>0, <1>2 DEF IsMap, Merge, Restrict
  <2>3. DOMAIN rSent' = Reader /\ \A q \in Reader : rSent'[q] = IF q = r THEN Merge(rSent[r], Restrict(funcLogs, sent)) ELSE rSent[q]
    BY <1>0, <2>1
  <2> QED
    BY <1>0, <2>2, <2>3
<1>6. UNCHANGED rSent \/ \E r \in Reader : ReadRecord(r) \/ ReadSimulator(r)
  BY OtherSteps DEF readVars, ReaderNext, LockStore, ReadFails, ReadPanics, GiveUp, FinishStore, GetSimulator, UnlockStore
<1> QED
  BY <1>3, <1>4, <1>5, <1>6

LEMMA TypeNext ==
  ASSUME IInv, Seen!IInv', [Next]_vars
  PROVE  TypeOK'
<1>1. ChannelIsTheDifference' /\ ch' \in Seq(RawFuncLog \cup {Symbols}) /\ Len(ch') <= ChanCap
  BY DifferenceNext DEF IInv
<1>2. App' \in AppState
  <2> PICK n \in Nat : n = Len(ch')
    BY <1>1
  <2>1. seen' \in Seq(AppState) /\ Len(seen') = n + 1 /\ seen'[n + 1] = App'
    BY <1>1 DEF ChannelIsTheDifference
  <2> QED
    BY <2>1
<1>3. Recording!AppTypeOK'
  BY <1>2 DEF App, AppState, Recording!AppTypeOK
<1>4. Recording!SimTypeOK' /\ Recording!WorkerTypeOK'
  BY DEF Seen!IInv, Seen!TypeOK, Seen!SimTypeOK, Seen!WorkerTypeOK, Recording!SimTypeOK, Recording!WorkerTypeOK,
         Seen!IsMap, Recording!IsMap, Seen!FuncLog, Recording!FuncLog, Seen!Goroutine, Recording!Goroutine, Seen!PC, Recording!PC,
         Seen!NotEnded, Recording!NotEnded, Seen!NotFoundParent, Recording!NotFoundParent
<1>5. DOMAIN rSent' = Reader /\ \A q \in Reader : IsMap(rSent'[q], Nat, FuncLog)
  BY SentTypes DEF IInv
<1> QED
  BY <1>1, <1>3, <1>4, <1>5, ServerTypes DEF TypeOK, IInv, Recording!TypeOK

-----------------------------------------------------------------------------
(* The invariant, and what follows from it                                 *)

LEMMA InitIInv == Init => IInv
<1> SUFFICES ASSUME Init PROVE IInv
  OBVIOUS
<1>1. /\ callStack = [g \in GID |-> <<>>] /\ usedTx = {} /\ lastTime = [g \in GID |-> 0] /\ seen = <<App, App>> /\ ch = <<Symbols>>
      /\ WorkerInit
  BY DEF Init, AppInit
<1>2. App \in AppState
  <2>1. <<>> \in Seq(TxID)
    OBVIOUS
  <2> QED
    BY <1>1, <2>1 DEF App, AppState
<1>3. seen \in Seq(AppState) /\ Len(seen) = 2 /\ seen[1] = App /\ seen[2] = App
  BY <1>1, <1>2
<1>4. ch \in Seq(RawFuncLog \cup {Symbols}) /\ Len(ch) = 1 /\ ch[1] = Symbols
  BY <1>1
<1>5. Seen!IInv
  <2>1. Seen!Init
    BY <1>1, <1>3 DEF Seen!Init, Seen!AppInit, Seen!WorkerInit, Seen!SimInit, Seen!EmptyMap, WorkerInit, SimInit, EmptyMap, App
  <2> QED
    BY <2>1, SameInit, SameIInv, Proved!InitIInv, TimeAssumption, FlCountMaxAssumption
<1>6. ChannelIsTheDifference
  <2>1. \A i \in 1 .. 1 : Happened(seen[i], ch[i], seen[i + 1])
    BY <1>3, <1>4 DEF Happened
  <2> QED
    BY <1>3, <1>4, <2>1 DEF ChannelIsTheDifference
<1>7. nextID = 0 /\ pc = "new" /\ closing = FALSE /\ registered = FALSE /\ DOMAIN funcStore = {}
  BY <1>1 DEF WorkerInit, SimInit, EmptyMap
<1>8. WorkerLife
  BY <1>7 DEF WorkerLife
<1>9. StoreIsPast
  <2>1. 0 \in 0 .. 0 /\ {} = 0 .. 0 - 1
    OBVIOUS
  <2> QED
    BY <1>7, <2>1 DEF StoreIsPast
<1>10. ASSUME NEW r \in Reader
       PROVE  RequestInv(r) /\ Sent(r) /\ Owes(r)
  <2>1. rpc[r] = "idle" /\ rNext[r] = 0 /\ rMax[r] = 0 /\ rFloor[r] = 0 /\ DOMAIN rSent[r] = {}
    BY DEF Init, EmptyMap
  <2> QED
    BY <1>7, <2>1 DEF RequestInv, Sent, Owes
<1>11. TypeOK
  <2>1. Recording!AppTypeOK
    BY <1>2 DEF App, AppState, Recording!AppTypeOK
  <2>2. Recording!SimTypeOK /\ Recording!WorkerTypeOK
    BY <1>5 DEF Seen!IInv, Seen!TypeOK, Seen!SimTypeOK, Seen!WorkerTypeOK, Recording!SimTypeOK, Recording!WorkerTypeOK,
         Seen!IsMap, Recording!IsMap, Seen!FuncLog, Recording!FuncLog, Seen!Goroutine, Recording!Goroutine, Seen!PC, Recording!PC,
         Seen!NotEnded, Recording!NotEnded, Seen!NotFoundParent, Recording!NotFoundParent
  <2>3. DOMAIN rSent = Reader /\ \A r \in Reader : IsMap(rSent[r], Nat, FuncLog)
    BY DEF Init, EmptyMap, IsMap
  <2>4. /\ connected \in BOOLEAN /\ symbols \in BOOLEAN /\ storeStatus \in {"open", "closed", "blank"} /\ storeLocked \in BOOLEAN
        /\ rpc \in [Reader -> RPC] /\ rCut \in [Reader -> BOOLEAN] /\ crashed \in BOOLEAN
        /\ rNext \in [Reader -> Nat] /\ rMax \in [Reader -> Nat] /\ rFloor \in [Reader -> Nat]
    BY DEF Init, RPC
  <2>5. Len(ch) <= ChanCap
    BY <1>4, ChanCapAssumption
  <2> QED
    BY <1>4, <2>1, <2>2, <2>3, <2>4, <2>5 DEF TypeOK, Recording!TypeOK
<1> QED
  BY <1>5, <1>6, <1>8, <1>9, <1>10, <1>11, TruthOfEach DEF IInv

LEMMA NextIInv == IInv /\ [Next]_vars => IInv'
<1> SUFFICES ASSUME IInv, [Next]_vars PROVE IInv'
  OBVIOUS
<1>1. TypeOK /\ Seen!IInv /\ ChannelIsTheDifference /\ WorkerLife /\ StoreIsPast
  BY DEF IInv
<1>2. Seen!IInv'
  BY <1>1, SeenIInv
<1>3. ChannelIsTheDifference' /\ WorkerLife' /\ StoreIsPast'
  BY <1>1, <1>2, DifferenceNext, WorkerLifeNext, StoreIsPastNext
<1>4. TypeOK'
  BY <1>2, TypeNext
<1>5. (\A r \in Reader : RequestInv(r)') /\ ReadersTellTheTruth'
  BY <1>2, RequestsNext
<1> QED
  BY <1>2, <1>3, <1>4, <1>5 DEF IInv

\* The inductive invariant holds, for every capacity of the channel and every number
\* of requests.
THEOREM ServerInvariant == Spec => []IInv
<1> QED BY InitIInv, NextIInv, PTL DEF Spec

\* The server, with its channel, its requests and its ticks, records what the worker
\* of TraceRecording records, for the process as the simulator has seen it.
THEOREM ServerImplementsRecording == Spec => ImplementsRecording
<1>1. Init => Seen!Init
  <2> SUFFICES ASSUME Init PROVE Seen!Init
    OBVIOUS
  <2>1. seen = <<App, App>> /\ AppInit /\ WorkerInit
    BY DEF Init
  <2>2. seen[1] = App
    BY <2>1
  <2> QED
    BY <2>1, <2>2 DEF Seen!Init, Seen!AppInit, Seen!WorkerInit, Seen!SimInit, Seen!EmptyMap, AppInit, WorkerInit, SimInit, EmptyMap, App
<1>2. IInv /\ [Next]_vars => [Seen!Next]_(Seen!vars)
  BY ServerStep DEF IInv
<1> QED BY <1>1, <1>2, ServerInvariant, PTL DEF Spec, ImplementsRecording, Seen!Spec

\* Through the channel too, the server keeps the ledger that CallLedger specifies:
\* one entry per call, in order, completed once.
THEOREM ServerKeepsTheLedger == Spec => Recording!ImplementsLedger
<1>1. Seen!Init => Proved!Init
  BY SameInit
<1>2. [Seen!Next]_(Seen!vars) => [Proved!Next]_(Proved!vars)
  BY SameNext
<1>3. Seen!Spec => Proved!Spec
  BY <1>1, <1>2, PTL DEF Seen!Spec, Proved!Spec
<1>4. Proved!Spec => Proved!ImplementsLedger
  BY Proved!RecordingImplementsLedger, TimeAssumption, FlCountMaxAssumption
<1>5. Proved!Abstract!Init => Recording!Abstract!Init
  BY DEF Proved!Abstract!Init, Recording!Abstract!Init, Proved!Abstract!EmptyMap, Recording!Abstract!EmptyMap,
         Proved!Ledger, Recording!Ledger
<1>6. [Proved!Abstract!Next]_(Proved!Ledger) => [Recording!Abstract!Next]_(Recording!Ledger)
  BY DEF Proved!Abstract!Next, Recording!Abstract!Next, Proved!Abstract!Begin, Recording!Abstract!Begin, Proved!Abstract!End, Recording!Abstract!End,
         Proved!Abstract!Open, Recording!Abstract!Open, Proved!Abstract!Innermost, Recording!Abstract!Innermost,
         Proved!Abstract!With, Recording!Abstract!With, Proved!Abstract!NotEnded, Recording!Abstract!NotEnded,
         Proved!Abstract!NotFoundParent, Recording!Abstract!NotFoundParent, Proved!Ledger, Recording!Ledger
<1>7. Proved!ImplementsLedger => Recording!ImplementsLedger
  BY <1>5, <1>6, PTL DEF Proved!ImplementsLedger, Recording!ImplementsLedger, Proved!Abstract!Spec, Recording!Abstract!Spec
<1> QED BY <1>3, <1>4, <1>7, ServerImplementsRecording, PTL DEF ImplementsRecording

\* The channel holds exactly what the simulator has yet to see, and no event in it
\* makes the simulator panic.
THEOREM ChannelIsInStep == Spec => []ChannelKeepsSimulatorInStep
<1>1. IInv => ChannelKeepsSimulatorInStep
  <2> SUFFICES ASSUME IInv PROVE ChannelKeepsSimulatorInStep
    OBVIOUS
  <2>0. TypeOK /\ Seen!StackMirrorsApp /\ ChannelIsTheDifference
    BY DEF IInv, Seen!IInv
  <2>1. ASSUME ch = <<>> PROVE Recording!StackMirrorsApp
    <3>1. Len(ch) = 0
      BY <2>1
    <3>2. seen[1] = App
      BY <2>0, <3>1 DEF ChannelIsTheDifference
    <3>3. seen[1].callStack = callStack
      BY <3>2 DEF App
    <3> QED
      BY <2>0, <3>3 DEF Seen!StackMirrorsApp, Recording!StackMirrorsApp, Seen!CallID, Recording!CallID, Seen!NotEnded, Recording!NotEnded,
           Seen!NotFoundParent, Recording!NotFoundParent
  <2>2. ASSUME ch # <<>>, Head(ch).Tag # "Symbols" PROVE ~NextPanics(Head(ch))
    <3> DEFINE a == seen[1]
    <3>0. ch \in Seq(RawFuncLog \cup {Symbols}) /\ a \in AppState
      <4>1. Len(ch) \in Nat /\ seen \in Seq(AppState) /\ Len(seen) = Len(ch) + 1 /\ ch \in Seq(RawFuncLog \cup {Symbols})
        BY <2>0 DEF TypeOK, ChannelIsTheDifference
      <4>2. 1 \in 1 .. Len(seen)
        BY <4>1
      <4> QED
        BY <4>1, <4>2
    <3>1. Happened(a, Head(ch), seen[2])
      <4>1. 1 \in 1 .. Len(ch) /\ Head(ch) = ch[1] /\ 1 + 1 = 2
        BY <2>2, <3>0
      <4> QED
        BY <2>0, <4>1 DEF ChannelIsTheDifference
    <3>2. Head(ch) # Symbols
      BY <2>2 DEF Symbols
    <3>3. SUFFICES ASSUME Head(ch).Tag = FuncEnd PROVE ~NextPanics(Head(ch))
      BY DEF NextPanics
    <3>4. ASSUME NEW g \in GID, NEW tx \in TxID, NEW ts \in Time, Entered(g, tx, ts, a, Head(ch), seen[2]) PROVE FALSE
      BY <3>3, <3>4 DEF Entered, FuncStart, FuncEnd
    <3>5. PICK g \in GID, ts \in Time : Left(g, ts, a, Head(ch), seen[2])
      BY <3>1, <3>2, <3>4 DEF Happened
    <3>6. a.callStack[g] # <<>> /\ Head(ch).GID = g /\ Head(ch).TxID = a.callStack[g][Len(a.callStack[g])]
      BY <3>5 DEF Left
    <3>7. a.callStack[g] \in Seq(TxID)
      BY <3>0 DEF AppState
    <3>8. Len(a.callStack[g]) \in 1 .. Len(a.callStack[g])
      BY <3>6, <3>7
    <3>9. g \in DOMAIN goroutines /\ a.callStack[g][Len(a.callStack[g])] \in DOMAIN txids
          /\ txids[a.callStack[g][Len(a.callStack[g])]] \in DOMAIN funcLogs
      BY <2>0, <3>6, <3>8 DEF Seen!StackMirrorsApp, Seen!CallID
    <3> QED
      BY <3>6, <3>9 DEF NextPanics
  <2> QED
    BY <2>0, <2>1, <2>2 DEF ChannelKeepsSimulatorInStep
<1> QED BY <1>1, ServerInvariant, PTL

\* When Run() has returned nothing is left in the channel, and the log holds every
\* call of the process, as the process left it.
THEOREM DisconnectLosesNothing == Spec => []ClosedLogIsComplete
<1>1. IInv => ClosedLogIsComplete
  <2> SUFFICES ASSUME IInv, pc = "done"
               PROVE  ch = <<>> /\ Recording!StackMirrorsApp /\ Recording!ClosedLogIsComplete
    BY DEF ClosedLogIsComplete
  <2>1. ch = <<>>
    BY DEF IInv, WorkerLife
  <2>2. /\ \A id \in DOMAIN funcLogs : id \in DOMAIN funcStore /\ funcStore[id] = funcLogs[id]
        /\ DOMAIN funcLogs \subseteq 0 .. nextID - 1
        /\ DOMAIN funcStore \subseteq 0 .. nextID - 1
        /\ goroutineStore = goroutines
    BY DEF IInv, Seen!IInv, Seen!StoresAreInStep
  <2>3. DOMAIN funcStore = 0 .. nextID - 1
    BY <2>2 DEF IInv, Seen!IInv, Seen!NothingForgotten
  <2>4. funcStore = [id \in DOMAIN funcStore |-> funcStore[id]]
    BY DEF IInv, TypeOK, Recording!TypeOK, Recording!WorkerTypeOK, Recording!IsMap
  <2>5. funcStore = Recording!Ledger
    BY <2>2, <2>3, <2>4 DEF Recording!Ledger
  <2>6. Seen!StackMirrorsApp /\ ChannelIsTheDifference
    BY DEF IInv, Seen!IInv
  <2>7. seen[1].callStack = callStack
    BY <2>1, <2>6 DEF ChannelIsTheDifference, App
  <2>8. Recording!StackMirrorsApp
    BY <2>6, <2>7 DEF Seen!StackMirrorsApp, Recording!StackMirrorsApp, Seen!CallID, Recording!CallID, Seen!NotEnded, Recording!NotEnded,
           Seen!NotFoundParent, Recording!NotFoundParent
  <2> QED
    BY <2>1, <2>2, <2>5, <2>8 DEF Recording!ClosedLogIsComplete
<1> QED BY <1>1, ServerInvariant, PTL

\* What a request passes on was recorded, and one that ends normally has passed on
\* every stored record it counted and every call that runs since it began.
THEOREM RequestsTellTheTruth == Spec => []ReadersTellTheTruth
<1>1. IInv => ReadersTellTheTruth
  BY DEF IInv
<1> QED BY <1>1, ServerInvariant, PTL
=============================================================================
