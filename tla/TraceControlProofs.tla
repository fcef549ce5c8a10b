------------------------- MODULE TraceControlProofs -------------------------
(***************************************************************************)
(* What holds of commands and of the process that they control for every   *)
(* number of commands, watch requests and functions and every capacity of  *)
(* the channels.                                                           *)
(***************************************************************************)
EXTENDS TraceControl, TLAPS

(***************************************************************************)
(* Queues of packets                                                       *)
(***************************************************************************)

\* Only the empty sequence has length 0.
LEMMA EmptySequence ==
  ASSUME NEW S, NEW s \in Seq(S)
  PROVE  s = <<>> <=> Len(s) = 0
OBVIOUS

\* A packet at the end of a queue is the last word about its function and says
\* nothing about the others.
LEMMA AppendPacket ==
  ASSUME NEW q \in Seq(Packet), NEW p \in Packet, NEW f, NEW S
  PROVE  /\ p.name = f /\ (p.trace <=> f \in S) => LastIs(Append(q, p), f, S)
         /\ p.name # f /\ LastIs(q, f, S) => LastIs(Append(q, p), f, S)
         /\ p.name # f /\ Silent(q, f) => Silent(Append(q, p), f)
<1> DEFINE r == Append(q, p)
<1>1. Len(r) = Len(q) + 1 /\ r[Len(q) + 1] = p /\ (\A i \in 1..Len(q) : r[i] = q[i]) /\ Len(q) \in Nat
  OBVIOUS
<1> HIDE DEF r
<1>2. ASSUME p.name = f, p.trace <=> f \in S
      PROVE  LastIs(r, f, S)
  <2>1. /\ Len(q) + 1 \in 1..Len(r) /\ r[Len(q) + 1].name = f /\ (r[Len(q) + 1].trace <=> f \in S)
        /\ \A j \in 1..Len(r) : j > Len(q) + 1 => r[j].name # f
    BY <1>1, <1>2
  <2> QED
    BY <2>1 DEF LastIs
<1>3. ASSUME p.name # f, LastIs(q, f, S)
      PROVE  LastIs(r, f, S)
  <2> PICK i \in 1..Len(q) : q[i].name = f /\ (q[i].trace <=> f \in S) /\ \A j \in 1..Len(q) : j > i => q[j].name # f
    BY <1>3 DEF LastIs
  <2> SUFFICES /\ i \in 1..Len(r) /\ r[i].name = f /\ (r[i].trace <=> f \in S)
               /\ \A j \in 1..Len(r) : j > i => r[j].name # f
    BY DEF LastIs
  <2> QED
    BY <1>1, <1>3
<1>4. ASSUME p.name # f, Silent(q, f)
      PROVE  Silent(r, f)
  BY <1>1, <1>4 DEF Silent
<1> QED
  BY <1>2, <1>3, <1>4 DEF r

\* Taking the first packet of a queue: what the queue says is still said by the rest
\* or was said by that packet.
LEMMA TakePacket ==
  ASSUME NEW q \in Seq(Packet), q # <<>>, NEW f, NEW S
  PROVE  /\ Head(q) \in Packet /\ Tail(q) \in Seq(Packet)
         /\ LastIs(q, f, S) => \/ LastIs(Tail(q), f, S)
                               \/ Head(q).name = f /\ (Head(q).trace <=> f \in S) /\ Silent(Tail(q), f)
         /\ Silent(q, f) => Silent(Tail(q), f) /\ Head(q).name # f
<1> DEFINE r == Tail(q)
<1>1. /\ r \in Seq(Packet) /\ Head(q) = q[1] /\ Len(r) = Len(q) - 1 /\ (\A i \in 1..Len(r) : r[i] = q[i + 1])
      /\ Len(q) \in Nat /\ Len(q) >= 1 /\ Head(q) \in Packet
  OBVIOUS
<1> HIDE DEF r
<1>2. ASSUME LastIs(q, f, S)
      PROVE  LastIs(r, f, S) \/ (Head(q).name = f /\ (Head(q).trace <=> f \in S) /\ Silent(r, f))
  <2> PICK i \in 1..Len(q) : q[i].name = f /\ (q[i].trace <=> f \in S) /\ \A j \in 1..Len(q) : j > i => q[j].name # f
    BY <1>2 DEF LastIs
  <2>1. CASE i = 1
    BY <1>1, <2>1 DEF Silent
  <2>2. CASE i # 1
    <3>1. i - 1 \in 1..Len(r) /\ r[i - 1] = q[i]
      BY <1>1, <2>2
    <3>2. \A j \in 1..Len(r) : j > i - 1 => r[j].name # f
      BY <1>1
    <3> QED
      BY <3>1, <3>2 DEF LastIs
  <2> QED
    BY <2>1, <2>2
<1>3. ASSUME Silent(q, f)
      PROVE  Silent(r, f) /\ Head(q).name # f
  BY <1>1, <1>3 DEF Silent
<1> QED
  BY <1>1, <1>2, <1>3 DEF r

-----------------------------------------------------------------------------
(***************************************************************************)
(* The steps                                                               *)
(***************************************************************************)

\* Nothing is under way before the first command.
LEMMA InitIInv == Init => IInv
<1> SUFFICES ASSUME Init PROVE IInv
  OBVIOUS
<1> USE ControlAssumption
<1>1. TypeOK
  <2>1. Idle \in [target : SUBSET Func, left : Seq(Func)]
    BY DEF Idle
  <2>2. NoInfo \in Info
    BY DEF NoInfo, Info
  <2>3. <<>> \in Seq(SUBSET Func) /\ <<>> \in Seq(Packet) /\ Len(<<>>) = 0
    OBVIOUS
  <2> QED
    <3>1. /\ cInfo \in [Client -> Info] /\ cTries \in [Client -> Nat] /\ \A c \in Client : cTries[c] <= Tries[c]
      BY <2>2 DEF Init
    <3>2. /\ ich \in Seq(SUBSET Func) /\ Len(ich) <= IchCap /\ pch \in Seq(Packet) /\ Len(pch) <= PchCap
          /\ wire \in Seq(Packet) /\ Len(wire) <= WireCap
      BY <2>3 DEF Init
    <3>3. /\ cpc \in [Client -> {"idle", "get", "put", "notify", "done", "conflict"}]
          /\ wpc \in [Watcher -> {"idle", "asked", "waiting", "leaving", "answered", "done", "noContent"}]
          /\ wVersion \in [Watcher -> Nat]
      BY DEF Init
    <3> QED
      BY <2>1, <3>1, <3>2, <3>3 DEF Init, TypeOK
<1>2. CopiesAreFresh
  BY DEF Init, CopiesAreFresh, NoInfo
<1>3. NothingBeforeSymbols
  BY DEF Init, NothingBeforeSymbols, Idle
<1>4. LastSetWins
  BY DEF Init, LastSetWins, WillBe, Silent, Idle
<1> QED
  BY <1>1, <1>2, <1>3, <1>4 DEF IInv, CallsAreLocked, Init

\* A step that leaves the worker, its queues and the process alone.
LEMMA QueuesUnchanged ==
  ASSUME LastSetWins, UNCHANGED <<ich, todo, pch, wire, flags, told>>, connected' => connected
  PROVE  LastSetWins'
BY DEF LastSetWins, WillBe, LastIs, Silent

\* The connection: the symbols arrive, the connection ends.
LEMMA ConnectionIInv ==
  ASSUME IInv, SetSymbolsData \/ Disconnected
  PROVE  IInv'
<1>1. UNCHANGED <<logVars, cmdVars, watchVars, syncVars, procVars>> /\ symbols' \in BOOLEAN /\ connected' \in BOOLEAN
      /\ (symbols => symbols') /\ (connected' => connected)
  BY DEF SetSymbolsData, Disconnected, IInv, TypeOK
<1> USE <1>1 DEF logVars, cmdVars, watchVars, syncVars, procVars
<1>2. TypeOK'
  BY DEF IInv, TypeOK
<1>3. CopiesAreFresh' /\ NothingBeforeSymbols' /\ CallsAreLocked' /\ target' = wanted'
  BY DEF IInv, CopiesAreFresh, NothingBeforeSymbols, CallsAreLocked
<1>4. LastSetWins'
  BY QueuesUnchanged DEF IInv
<1> QED
  BY <1>2, <1>3, <1>4 DEF IInv

\* Watch requests do not touch what the invariant is about.
LEMMA WatchIInv ==
  ASSUME IInv, NEW w \in Watcher, AskWatch(w) \/ Register(w) \/ Timeout(w) \/ Unregister(w)
  PROVE  IInv'
<1>1. UNCHANGED <<logVars, symbols, connected, cmdVars, syncVars, procVars>>
  BY DEF AskWatch, Register, Timeout, Unregister, MoveWatch
<1>2. wVersion' \in [Watcher -> Nat]
  BY DEF AskWatch, Register, Timeout, Unregister, MoveWatch, IInv, TypeOK
<1>3. wpc' \in [Watcher -> {"idle", "asked", "waiting", "leaving", "answered", "done", "noContent"}]
  BY DEF AskWatch, Register, Timeout, Unregister, MoveWatch, IInv, TypeOK
<1> USE <1>1 DEF logVars, cmdVars, syncVars, procVars
<1>4. TypeOK'
  BY <1>2, <1>3 DEF IInv, TypeOK
<1>5. CopiesAreFresh' /\ NothingBeforeSymbols' /\ CallsAreLocked' /\ target' = wanted'
  BY DEF IInv, CopiesAreFresh, NothingBeforeSymbols, CallsAreLocked
<1>6. LastSetWins'
  BY QueuesUnchanged DEF IInv
<1> QED
  BY <1>4, <1>5, <1>6 DEF IInv

\* A command that has not written yet changes only its own state.
LEMMA CommandIInv ==
  ASSUME IInv, NEW c \in Client, BeginCommand(c) \/ GetLogInfo(c) \/ Conflict(c)
  PROVE  IInv'
<1> USE ControlAssumption
<1>1. UNCHANGED <<logVars, symbols, connected, watchVars, syncVars, procVars>>
  BY DEF BeginCommand, GetLogInfo, Conflict
<1>2. /\ cpc' \in [Client -> {"idle", "get", "put", "notify", "done", "conflict"}]
      /\ cInfo' \in [Client -> Info] /\ cTries' \in [Client -> Nat] /\ \A d \in Client : cTries'[d] <= Tries[d]
      /\ (\A d \in Client \ {c} : cpc'[d] = cpc[d] /\ cInfo'[d] = cInfo[d] /\ cTries'[d] = cTries[d])
  <2>1. CASE BeginCommand(c)
    BY <2>1 DEF BeginCommand, IInv, TypeOK
  <2>2. CASE GetLogInfo(c)
    <3>1. Apply(Command[c], target) \subseteq Func
      BY DEF Apply, IInv, TypeOK
    <3>2. cTries[c] + 1 <= Tries[c] /\ cTries[c] + 1 \in Nat
      BY <2>2 DEF GetLogInfo, IInv, TypeOK, CopiesAreFresh
    <3> QED
      BY <2>2, <3>1, <3>2 DEF GetLogInfo, IInv, TypeOK, Info
  <2>3. CASE Conflict(c)
    <3>1. NoInfo \in Info
      BY DEF NoInfo, Info
    <3>2. CASE ReturnCommand(c, "conflict")
      BY <3>1, <3>2 DEF ReturnCommand, IInv, TypeOK
    <3>3. CASE cpc' = [cpc EXCEPT ![c] = "get"] /\ UNCHANGED <<cInfo, cTries>>
      BY <3>3 DEF IInv, TypeOK
    <3> QED
      BY <2>3, <3>2, <3>3 DEF Conflict
  <2> QED
    BY <2>1, <2>2, <2>3
<1>3. /\ cInfo'[c].version <= version
      /\ cpc'[c] = "put" => cInfo'[c].target = Apply(Command[c], target)
      /\ cpc'[c] \in {"idle", "get"} => cTries'[c] < Tries[c]
      /\ ~symbols => Apply(Command[c], {}) = {}
  <2>0. version \in Nat /\ cTries[c] \in Nat /\ cInfo[c].version <= version
    BY DEF IInv, TypeOK, CopiesAreFresh
  <2>1. CASE BeginCommand(c)
    BY <2>0, <2>1 DEF BeginCommand, IInv, TypeOK, CopiesAreFresh, Apply
  <2>2. CASE GetLogInfo(c)
    <3>1. cpc'[c] = "put" /\ cInfo'[c] = [version |-> version, target |-> Apply(Command[c], target)] /\ cpc[c] = "get"
      BY <2>2 DEF GetLogInfo, IInv, TypeOK
    <3> QED
      BY <2>0, <3>1 DEF IInv, NothingBeforeSymbols
  <2>3. CASE Conflict(c)
    <3>1. cpc[c] = "put" /\ (~symbols => Apply(Command[c], {}) = {})
      BY <2>3 DEF Conflict, IInv, NothingBeforeSymbols
    <3>2. CASE ReturnCommand(c, "conflict")
      <4>1. cpc'[c] = "conflict" /\ cInfo'[c] = NoInfo
        BY <3>2 DEF ReturnCommand, IInv, TypeOK
      <4> QED
        BY <2>0, <3>1, <4>1 DEF NoInfo
    <3>3. CASE cTries[c] < Tries[c] /\ cpc' = [cpc EXCEPT ![c] = "get"] /\ UNCHANGED <<cInfo, cTries>>
      <4>1. cpc'[c] = "get"
        BY <3>3 DEF IInv, TypeOK
      <4> QED
        BY <2>0, <3>1, <3>3, <4>1
    <3> QED
      BY <2>3, <3>2, <3>3 DEF Conflict
  <2> QED
    BY <2>1, <2>2, <2>3
<1> USE <1>1 DEF logVars, watchVars, syncVars, procVars
<1>4. TypeOK'
  BY <1>2 DEF IInv, TypeOK
<1>5. CopiesAreFresh'
  BY <1>2, <1>3 DEF IInv, CopiesAreFresh
<1>6. NothingBeforeSymbols'
  BY <1>2, <1>3 DEF IInv, NothingBeforeSymbols
<1>7. LastSetWins'
  BY QueuesUnchanged DEF IInv
<1>8. CallsAreLocked' /\ target' = wanted'
  BY DEF IInv, CallsAreLocked
<1> QED
  BY <1>4, <1>5, <1>6, <1>7, <1>8 DEF IInv

\* A command is accepted: its copy was made from the targets as they are, and every
\* other copy is older now.
LEMMA UpdateMetadataIInv ==
  ASSUME IInv, NEW c \in Client, UpdateMetadata(c)
  PROVE  IInv'
<1> USE ControlAssumption
<1>0. TypeOK /\ version \in Nat
  BY DEF IInv, TypeOK
<1>1. /\ cpc[c] = "put" /\ version = cInfo[c].version /\ version' = version + 1 /\ target' = cInfo[c].target
      /\ wanted' = Apply(Command[c], wanted) /\ holder' = c /\ calls' = Registered /\ cpc' = [cpc EXCEPT ![c] = "notify"]
  BY DEF UpdateMetadata
<1>2. UNCHANGED <<told, symbols, connected, cInfo, cTries, wpc, wVersion, spc, ich, todo, pch, wire, flags>>
  BY DEF UpdateMetadata, watchVars, syncVars, procVars
<1>3. cInfo[c].target = Apply(Command[c], target)
  BY <1>1 DEF IInv, CopiesAreFresh
<1>4. target' = wanted'
  BY <1>1, <1>3 DEF IInv
<1>5. target' \subseteq Func
  BY <1>0, <1>1 DEF TypeOK, Info
<1>6. Registered \subseteq Watcher \cup {Worker} /\ (Worker \in Registered => spc = "watching")
  BY DEF Registered
<1>7. cpc' \in [Client -> {"idle", "get", "put", "notify", "done", "conflict"}]
  BY <1>0, <1>1 DEF TypeOK
<1>8. TypeOK'
  <2>1. /\ version' \in Nat /\ target' \subseteq Func /\ wanted' \subseteq Func /\ holder' \in Client \cup {NoOne}
        /\ calls' \subseteq Watcher \cup {Worker}
    BY <1>0, <1>1, <1>4, <1>5, <1>6
  <2> QED
    BY <1>0, <1>2, <1>7, <2>1 DEF TypeOK
<1>9. CopiesAreFresh'
  <2> SUFFICES ASSUME NEW d \in Client
               PROVE  /\ cInfo[d].version <= version + 1
                      /\ cInfo[d].version # version + 1
                      /\ cpc'[d] \in {"idle", "get"} => cTries[d] < Tries[d]
    BY <1>1, <1>2 DEF CopiesAreFresh
  <2>1. cInfo[d].version \in Nat /\ cInfo[d].version <= version
    BY <1>0 DEF IInv, TypeOK, Info, CopiesAreFresh
  <2>2. cpc'[d] \in {"idle", "get"} => cpc[d] \in {"idle", "get"}
    BY <1>0, <1>1 DEF TypeOK
  <2> QED
    BY <1>0, <2>1, <2>2 DEF IInv, CopiesAreFresh
<1>10. NothingBeforeSymbols'
  <2>1. \A d \in Client : cpc'[d] # "idle" => cpc[d] # "idle"
    BY <1>0, <1>1 DEF TypeOK
  <2>2. \A d \in Client : cpc'[d] = "put" => cpc[d] = "put"
    BY <1>0, <1>1 DEF TypeOK
  <2> QED
    BY <1>1, <1>2, <2>1, <2>2 DEF IInv, NothingBeforeSymbols
<1>11. LastSetWins'
  BY <1>2, QueuesUnchanged DEF IInv
<1>12. CallsAreLocked'
  BY <1>1, <1>2, <1>6 DEF CallsAreLocked
<1> QED
  BY <1>4, <1>8, <1>9, <1>10, <1>11, <1>12 DEF IInv

\* A callback of a watch request.
LEMMA NotifyWatchIInv ==
  ASSUME IInv, NEW w \in Watcher, NotifyWatch(w)
  PROVE  IInv'
<1>1. UNCHANGED <<version, target, holder, wanted, told, symbols, connected, cmdVars, wVersion, syncVars, procVars>>
      /\ calls' = calls \ {w}
  BY DEF NotifyWatch
<1>2. wpc' \in [Watcher -> {"idle", "asked", "waiting", "leaving", "answered", "done", "noContent"}]
  BY DEF NotifyWatch, IInv, TypeOK
<1> USE <1>1 DEF cmdVars, syncVars, procVars
<1>3. TypeOK'
  BY <1>2 DEF IInv, TypeOK
<1>4. CopiesAreFresh' /\ NothingBeforeSymbols' /\ CallsAreLocked' /\ target' = wanted'
  BY DEF IInv, CopiesAreFresh, NothingBeforeSymbols, CallsAreLocked
<1>5. LastSetWins'
  BY QueuesUnchanged DEF IInv
<1> QED
  BY <1>3, <1>4, <1>5 DEF IInv

\* The callback of the worker: without symbols the set is empty, as is what was told.
LEMMA NotifySyncIInv ==
  ASSUME IInv, NotifySync
  PROVE  IInv'
<1>0. TypeOK /\ NothingBeforeSymbols /\ IchCap \in Nat
  BY ControlAssumption DEF IInv
<1>1. /\ UNCHANGED <<version, target, holder, wanted, symbols, connected, cmdVars, watchVars, spc, todo, pch, procVars>>
      /\ calls' = calls \ {Worker} /\ Len(ich) < IchCap /\ ich' = Append(ich, target)
  BY DEF NotifySync
<1>2. told' = target
  BY <1>0 DEF NotifySync, NothingBeforeSymbols
<1>3. ich \in Seq(SUBSET Func) /\ target \in SUBSET Func
  BY <1>0 DEF TypeOK
<1>4. ich' \in Seq(SUBSET Func) /\ Len(ich') = Len(ich) + 1 /\ ich'[Len(ich')] = target /\ ich' # <<>> /\ Len(ich) \in Nat
  BY <1>1, <1>3
<1>5. Len(ich') <= IchCap
  BY <1>0, <1>1, <1>4
<1> USE <1>1 DEF cmdVars, watchVars, procVars
<1>6. TypeOK'
  BY <1>0, <1>2, <1>4, <1>5 DEF TypeOK
<1>7. CopiesAreFresh' /\ CallsAreLocked' /\ target' = wanted'
  BY DEF IInv, CopiesAreFresh, CallsAreLocked
<1>8. NothingBeforeSymbols'
  BY <1>0, <1>2 DEF NothingBeforeSymbols
<1>9. LastSetWins'
  BY <1>2, <1>4 DEF LastSetWins
<1> QED
  BY <1>6, <1>7, <1>8, <1>9 DEF IInv

\* UpdateMetadata returns.
LEMMA EndNotifyIInv ==
  ASSUME IInv, NEW c \in Client, EndNotify(c)
  PROVE  IInv'
<1> USE ControlAssumption
<1>0. TypeOK /\ NoInfo \in Info /\ NoInfo.version = 0
  BY DEF IInv, NoInfo, Info
<1>1. /\ UNCHANGED <<version, target, calls, wanted, told, symbols, connected, watchVars, syncVars, procVars>>
      /\ calls = {} /\ holder' = NoOne /\ cpc[c] = "notify"
  BY DEF EndNotify
<1>2. /\ cpc' \in [Client -> {"idle", "get", "put", "notify", "done", "conflict"}]
      /\ cInfo' \in [Client -> Info] /\ cTries' \in [Client -> Nat] /\ (\A d \in Client : cTries'[d] <= Tries[d])
      /\ (\A d \in Client \ {c} : cpc'[d] = cpc[d] /\ cInfo'[d] = cInfo[d] /\ cTries'[d] = cTries[d])
      /\ cpc'[c] = "done" /\ cInfo'[c] = NoInfo
  BY <1>0 DEF EndNotify, ReturnCommand, TypeOK
<1> USE <1>1 DEF watchVars, syncVars, procVars
<1>3. TypeOK'
  BY <1>0, <1>2 DEF TypeOK
<1>4. CopiesAreFresh'
  <2>1. cInfo'[c].version <= version
    BY <1>0, <1>2 DEF TypeOK
  <2>2. ASSUME NEW d \in Client \ {c}
        PROVE  /\ cInfo'[d].version <= version
               /\ cpc'[d] = "put" /\ cInfo'[d].version = version => cInfo'[d].target = Apply(Command[d], target)
               /\ cpc'[d] \in {"idle", "get"} => cTries'[d] < Tries[d]
    BY <1>2 DEF IInv, CopiesAreFresh
  <2> QED
    BY <1>2, <2>1, <2>2 DEF CopiesAreFresh
<1>5. NothingBeforeSymbols'
  BY <1>2 DEF IInv, NothingBeforeSymbols
<1>6. CallsAreLocked' /\ target' = wanted'
  BY DEF IInv, CallsAreLocked
<1>7. LastSetWins'
  BY QueuesUnchanged DEF IInv
<1> QED
  BY <1>3, <1>4, <1>5, <1>6, <1>7 DEF IInv

\* The worker registers and unregisters its callback, with the log's lock.
LEMMA WatchingIInv ==
  ASSUME IInv, StartWatching \/ StopWatching
  PROVE  IInv'
<1>1. /\ UNCHANGED <<logVars, symbols, connected, cmdVars, watchVars, ich, todo, pch, procVars>>
      /\ holder = NoOne /\ spc' \in {"watching", "stopped"}
  BY DEF StartWatching, StopWatching
<1> USE <1>1 DEF logVars, cmdVars, watchVars, procVars
<1>2. TypeOK'
  BY DEF IInv, TypeOK
<1>3. CopiesAreFresh' /\ NothingBeforeSymbols' /\ CallsAreLocked' /\ target' = wanted'
  BY DEF IInv, CopiesAreFresh, NothingBeforeSymbols, CallsAreLocked
<1>4. LastSetWins'
  BY QueuesUnchanged DEF IInv
<1> QED
  BY <1>2, <1>3, <1>4 DEF IInv

\* Parts that a step of the worker or the process does not touch.
LEMMA WorkerStep ==
  ASSUME IInv, UNCHANGED <<logVars, symbols, connected, cmdVars, watchVars, spc>>,
         TypeOK', LastSetWins', ~symbols => flags' = {} /\ wire' = <<>> /\ pch' = <<>> /\ todo'.left = <<>>
  PROVE  IInv'
BY DEF IInv, CopiesAreFresh, NothingBeforeSymbols, CallsAreLocked, logVars, cmdVars, watchVars

\* A set is taken from the channel: the last one is the one that was told.
LEMMA TakeInfoIInv ==
  ASSUME IInv, TakeInfo
  PROVE  IInv'
<1>0. TypeOK /\ LastSetWins /\ NothingBeforeSymbols
  BY DEF IInv
<1>1. /\ UNCHANGED <<logVars, symbols, connected, cmdVars, watchVars, spc, pch, procVars>> /\ ich # <<>> /\ todo.left = <<>>
      /\ ich' = Tail(ich) /\ todo' = [target |-> Head(ich), left |-> IF symbols THEN Funcs ELSE <<>>]
  BY DEF TakeInfo
<1>2. ich \in Seq(SUBSET Func)
  BY <1>0 DEF TypeOK
<1>3. /\ ich' \in Seq(SUBSET Func) /\ Head(ich) \in SUBSET Func /\ Len(ich') = Len(ich) - 1 /\ Len(ich) \in Nat
      /\ (\A i \in 1..Len(ich') : ich'[i] = ich[i + 1]) /\ Head(ich) = ich[1]
  BY <1>1, <1>2
<1>4. todo' \in [target : SUBSET Func, left : Seq(Func)] /\ todo'.target = Head(ich)
      /\ todo'.left = IF symbols THEN Funcs ELSE <<>>
  BY <1>1, <1>3, ControlAssumption
<1>5. ich' # <<>> => ich'[Len(ich')] = told
  <2> SUFFICES ASSUME ich' # <<>> PROVE ich'[Len(ich')] = told
    OBVIOUS
  <2>1. Len(ich') \in Nat /\ Len(ich') # 0
    BY <1>3
  <2>2. ich'[Len(ich')] = ich[Len(ich)]
    BY <1>3, <2>1
  <2> QED
    BY <1>0, <1>1, <2>2 DEF LastSetWins
<1>6. ich' = <<>> => todo'.target = told
  <2> SUFFICES ASSUME ich' = <<>> PROVE todo'.target = told
    OBVIOUS
  <2>0. Len(ich') = 0
    BY <1>3, EmptySequence
  <2>1. Len(ich) = 1
    BY <1>3, <2>0
  <2> QED
    BY <1>0, <1>1, <1>3, <1>4, <2>1 DEF LastSetWins
<1> USE <1>1 DEF logVars, cmdVars, watchVars, procVars
<1>7. TypeOK'
  <2>1. Len(ich') <= IchCap
    BY <1>0, <1>3, ControlAssumption DEF TypeOK
  <2> QED
    BY <1>0, <1>3, <1>4, <2>1 DEF TypeOK
<1>8. ASSUME NEW f \in Func, \A i \in 1..Len(todo'.left) : todo'.left[i] # f
      PROVE  WillBe(f, told)'
  <2>1. CASE symbols
    <3>1. \E i \in DOMAIN Funcs : Funcs[i] = f
      BY DEF Func
    <3>2. DOMAIN Funcs = 1..Len(Funcs)
      BY ControlAssumption
    <3> QED
      BY <1>4, <1>8, <2>1, <3>1, <3>2
  <2>2. CASE ~symbols
    <3>1. told = {} /\ flags = {} /\ wire = <<>> /\ pch = <<>>
      BY <1>0, <2>2 DEF NothingBeforeSymbols
    <3>2. Silent(<<>>, f)
      BY DEF Silent
    <3>3. Silent(pch', f) /\ Silent(wire', f)
      BY <3>1, <3>2
    <3> QED
      BY <3>1, <3>3 DEF WillBe
  <2> QED
    BY <2>1, <2>2
<1>9. LastSetWins'
  BY <1>5, <1>6, <1>8 DEF LastSetWins
<1>10. ~symbols => flags' = {} /\ wire' = <<>> /\ pch' = <<>> /\ todo'.left = <<>>
  BY <1>0, <1>4 DEF NothingBeforeSymbols
<1> QED
  BY <1>7, <1>9, <1>10, WorkerStep

\* A packet is made for the next function: it becomes the last word about it.
LEMMA EmitPacketIInv ==
  ASSUME IInv, EmitPacket
  PROVE  IInv'
<1>0. TypeOK /\ LastSetWins /\ NothingBeforeSymbols
  BY DEF IInv
<1> DEFINE p == [name |-> Head(todo.left), trace |-> Head(todo.left) \in todo.target]
<1>1. /\ UNCHANGED <<logVars, symbols, connected, cmdVars, watchVars, spc, ich, procVars>>
      /\ todo.left # <<>> /\ Len(pch) < PchCap
      /\ pch' = Append(pch, p) /\ todo' = [todo EXCEPT !.left = Tail(@)]
  BY DEF EmitPacket
<1>2. /\ todo \in [target : SUBSET Func, left : Seq(Func)] /\ todo.left \in Seq(Func) /\ pch \in Seq(Packet)
      /\ todo.target \in SUBSET Func
  BY <1>0 DEF TypeOK
<1>3. /\ Head(todo.left) \in Func /\ Tail(todo.left) \in Seq(Func) /\ Len(Tail(todo.left)) = Len(todo.left) - 1
      /\ Head(todo.left) = todo.left[1] /\ (\A i \in 1..Len(Tail(todo.left)) : Tail(todo.left)[i] = todo.left[i + 1])
      /\ Len(todo.left) \in Nat
  BY <1>1, <1>2
<1>4. p \in Packet /\ p.name = Head(todo.left) /\ (p.trace <=> Head(todo.left) \in todo.target)
  <2>1. (Head(todo.left) \in todo.target) \in BOOLEAN
    OBVIOUS
  <2>2. p \in Packet
    BY <1>3, <2>1, Zenon DEF Packet
  <2> QED
    BY <2>2
<1> HIDE DEF p
<1>5. /\ todo' \in [target : SUBSET Func, left : Seq(Func)] /\ todo'.target = todo.target /\ todo'.left = Tail(todo.left)
  BY <1>1, <1>2, <1>3
<1>6. pch' \in Seq(Packet) /\ Len(pch') <= PchCap
  BY <1>1, <1>2, <1>4, ControlAssumption
<1> USE <1>1 DEF logVars, cmdVars, watchVars, procVars
<1>7. TypeOK'
  BY <1>0, <1>5, <1>6 DEF TypeOK
<1>8. ASSUME connected, ich = <<>>, NEW f \in Func, \A i \in 1..Len(todo'.left) : todo'.left[i] # f
      PROVE  WillBe(f, told)'
  <2>1. todo.target = told
    BY <1>0, <1>8 DEF LastSetWins
  <2>2. CASE p.name = f
    <3>1. LastIs(pch', f, told)
      BY <1>2, <1>4, <2>1, <2>2, AppendPacket
    <3> QED
      BY <3>1 DEF WillBe
  <2>3. CASE p.name # f
    <3>1. \A i \in 1..Len(todo.left) : todo.left[i] # f
      <4> SUFFICES ASSUME NEW i \in 1..Len(todo.left) PROVE todo.left[i] # f
        OBVIOUS
      <4>1. CASE i = 1
        BY <1>3, <1>4, <2>3, <4>1
      <4>2. CASE i # 1
        <5>1. i - 1 \in 1..Len(Tail(todo.left)) /\ (i - 1) + 1 = i
          BY <1>3, <4>2
        <5>2. todo.left[i] = Tail(todo.left)[i - 1]
          BY <1>3, <5>1
        <5> QED
          BY <1>5, <1>8, <5>1, <5>2
      <4> QED
        BY <4>1, <4>2
    <3>2. WillBe(f, told)
      BY <1>0, <1>8, <3>1 DEF LastSetWins
    <3>3. /\ LastIs(pch, f, told) => LastIs(pch', f, told)
          /\ Silent(pch, f) => Silent(pch', f)
      BY <1>2, <1>4, <2>3, AppendPacket
    <3> QED
      BY <3>2, <3>3 DEF WillBe, LastIs, Silent
  <2> QED
    BY <2>2, <2>3
<1>9. LastSetWins'
  <2>1. ich' # <<>> => ich'[Len(ich')] = told'
    BY <1>0 DEF LastSetWins
  <2>2. ich' = <<>> /\ todo'.left # <<>> => todo'.target = told'
    BY <1>0, <1>5 DEF LastSetWins
  <2> QED
    BY <1>8, <2>1, <2>2 DEF LastSetWins
<1>10. symbols
  BY <1>0 DEF NothingBeforeSymbols
<1> QED
  BY <1>7, <1>9, <1>10, WorkerStep

\* A packet goes to the connection, in order; without the connection it is lost.
LEMMA SendPacketIInv ==
  ASSUME IInv, SendPacket
  PROVE  IInv'
<1>0. TypeOK /\ LastSetWins /\ NothingBeforeSymbols /\ pch \in Seq(Packet) /\ wire \in Seq(Packet)
  BY DEF IInv, TypeOK
<1>1. /\ UNCHANGED <<logVars, symbols, connected, cmdVars, watchVars, spc, ich, todo, flags>>
      /\ pch # <<>> /\ (connected => Len(wire) < WireCap) /\ pch' = Tail(pch)
      /\ wire' = IF connected THEN Append(wire, Head(pch)) ELSE wire
  BY DEF SendPacket
<1>2. Head(pch) \in Packet /\ pch' \in Seq(Packet) /\ Len(pch') <= PchCap
  BY <1>0, <1>1, ControlAssumption DEF TypeOK
<1>3. wire' \in Seq(Packet) /\ Len(wire') <= WireCap
  BY <1>0, <1>1, <1>2, ControlAssumption DEF TypeOK
<1> USE <1>1 DEF logVars, cmdVars, watchVars
<1>4. TypeOK'
  BY <1>0, <1>2, <1>3 DEF TypeOK
<1>5. ASSUME connected, NEW f \in Func, WillBe(f, told)
      PROVE  WillBe(f, told)'
  <2>1. wire' = Append(wire, Head(pch))
    BY <1>5
  <2>2. CASE LastIs(pch, f, told)
    <3>1. \/ LastIs(pch', f, told)
          \/ Head(pch).name = f /\ (Head(pch).trace <=> f \in told) /\ Silent(pch', f)
      BY <1>0, <1>1, <2>2, TakePacket
    <3>2. Head(pch).name = f /\ (Head(pch).trace <=> f \in told) => LastIs(wire', f, told)
      <4>1. Head(pch).name = f /\ (Head(pch).trace <=> f \in told) => LastIs(Append(wire, Head(pch)), f, told)
        BY <1>0, <1>2, AppendPacket
      <4> QED
        BY <2>1, <4>1
    <3> QED
      BY <3>1, <3>2 DEF WillBe
  <2>3. CASE Silent(pch, f) /\ (LastIs(wire, f, told) \/ (Silent(wire, f) /\ (f \in flags <=> f \in told)))
    <3>1. Silent(pch', f) /\ Head(pch).name # f
      BY <1>0, <1>1, <2>3, TakePacket
    <3>2. /\ LastIs(wire, f, told) => LastIs(wire', f, told)
          /\ Silent(wire, f) => Silent(wire', f)
      BY <1>0, <1>2, <2>1, <3>1, AppendPacket
    <3> QED
      BY <2>3, <3>1, <3>2 DEF WillBe
  <2> QED
    BY <1>5, <2>2, <2>3 DEF WillBe
<1>6. LastSetWins'
  BY <1>0, <1>5 DEF LastSetWins
<1>7. symbols
  BY <1>0 DEF NothingBeforeSymbols
<1> QED
  BY <1>4, <1>6, <1>7, WorkerStep

\* The process obeys the packets in order.
LEMMA RecvPacketIInv ==
  ASSUME IInv, RecvPacket
  PROVE  IInv'
<1>0. TypeOK /\ LastSetWins /\ NothingBeforeSymbols /\ wire \in Seq(Packet) /\ flags \subseteq Func
  BY DEF IInv, TypeOK
<1>1. /\ UNCHANGED <<logVars, symbols, connected, cmdVars, watchVars, syncVars>> /\ wire # <<>> /\ wire' = Tail(wire)
      /\ flags' = IF Head(wire).trace THEN flags \cup {Head(wire).name} ELSE flags \ {Head(wire).name}
  BY DEF RecvPacket
<1>2. Head(wire) \in Packet /\ wire' \in Seq(Packet) /\ Len(wire') <= WireCap
  BY <1>0, <1>1, ControlAssumption DEF TypeOK
<1>3. flags' \subseteq Func
  BY <1>0, <1>1, <1>2 DEF Packet
<1> USE <1>1 DEF logVars, cmdVars, watchVars, syncVars
<1>4. TypeOK'
  BY <1>0, <1>2, <1>3 DEF TypeOK
<1>5. ASSUME NEW f \in Func, WillBe(f, told)
      PROVE  WillBe(f, told)'
  <2>1. CASE LastIs(pch, f, told)
    <3>1. LastIs(pch', f, told)
      BY <2>1
    <3> QED
      BY <3>1 DEF WillBe
  <2>2. CASE Silent(pch, f) /\ LastIs(wire, f, told)
    <3>1. \/ LastIs(wire', f, told)
          \/ Head(wire).name = f /\ (Head(wire).trace <=> f \in told) /\ Silent(wire', f)
      BY <1>0, <1>1, <2>2, TakePacket
    <3>2. Head(wire).name = f /\ (Head(wire).trace <=> f \in told) => (f \in flags' <=> f \in told)
      BY <1>1
    <3>3. Silent(pch', f)
      BY <2>2
    <3> QED
      BY <3>1, <3>2, <3>3 DEF WillBe
  <2>3. CASE Silent(pch, f) /\ Silent(wire, f) /\ (f \in flags <=> f \in told)
    <3>1. Silent(wire', f) /\ Head(wire).name # f
      BY <1>0, <1>1, <2>3, TakePacket
    <3>2. f \in flags' <=> f \in flags
      BY <1>1, <3>1
    <3>3. Silent(pch', f)
      BY <2>3
    <3> QED
      BY <2>3, <3>1, <3>2, <3>3 DEF WillBe
  <2> QED
    BY <1>5, <2>1, <2>2, <2>3 DEF WillBe
<1>6. LastSetWins'
  BY <1>0, <1>5 DEF LastSetWins
<1>7. symbols
  BY <1>0 DEF NothingBeforeSymbols
<1> QED
  BY <1>4, <1>6, <1>7, WorkerStep

-----------------------------------------------------------------------------
(***************************************************************************)
(* The results                                                             *)
(***************************************************************************)

\* Every step keeps the invariant.
LEMMA NextIInv ==
  ASSUME IInv, [Next]_vars
  PROVE  IInv'
<1>1. CASE SetSymbolsData \/ Disconnected
  BY <1>1, ConnectionIInv
<1>2. ASSUME NEW c \in Client, BeginCommand(c) \/ CommandNext(c)
      PROVE  IInv'
  BY <1>2, CommandIInv, UpdateMetadataIInv, EndNotifyIInv, NotifySyncIInv, NotifyWatchIInv DEF CommandNext
<1>3. ASSUME NEW w \in Watcher, AskWatch(w) \/ Register(w) \/ Timeout(w) \/ Unregister(w)
      PROVE  IInv'
  BY <1>3, WatchIInv
<1>4. CASE SyncNext
  BY <1>4, WatchingIInv, TakeInfoIInv, EmitPacketIInv, SendPacketIInv DEF SyncNext
<1>5. CASE RecvPacket
  BY <1>5, RecvPacketIInv
<1>6. CASE UNCHANGED vars
  <2> USE <1>6 DEF vars, logVars, cmdVars, watchVars, syncVars, procVars
  <2>1. TypeOK'
    BY DEF IInv, TypeOK
  <2>2. LastSetWins'
    BY QueuesUnchanged DEF IInv
  <2>3. CopiesAreFresh' /\ NothingBeforeSymbols' /\ CallsAreLocked' /\ target' = wanted'
    BY DEF IInv, CopiesAreFresh, NothingBeforeSymbols, CallsAreLocked
  <2> QED
    BY <2>1, <2>2, <2>3 DEF IInv
<1> QED
  BY <1>1, <1>2, <1>3, <1>4, <1>5, <1>6 DEF Next

\* The copies of the commands, the channels of tracerSyncWorker and the packets under
\* way stay in the relation of IInv, in whatever order commands, callbacks and the
\* goroutines of the worker take their steps.
THEOREM ControlInvariant == Spec => []IInv
<1>1. Init => IInv
  BY InitIInv
<1>2. IInv /\ [Next]_vars => IInv'
  BY NextIInv
<1> QED
  BY <1>1, <1>2, PTL DEF Spec

\* Any number of commands that update the metadata at the same time: none undoes what
\* another one did (UpdateLogInfo, Log.UpdateMetadata).
THEOREM UpdatesAreNotLost == Spec => []NoLostUpdate
<1>1. IInv => NoLostUpdate
  BY DEF IInv, NoLostUpdate
<1> QED
  BY <1>1, ControlInvariant, PTL

\* When nothing is under way to it the process traces what the worker was told last;
\* and nothing is sent on the channel that the worker has closed.
THEOREM ProcessFollows == Spec => []ProcessInStep
<1>1. IInv => ProcessInStep
  <2> SUFFICES ASSUME IInv PROVE ProcessInStep
    OBVIOUS
  <2>1. ASSUME connected, ich = <<>>, todo.left = <<>>, pch = <<>>, wire = <<>>
        PROVE  flags = told
    <3>1. ASSUME NEW f \in Func
          PROVE  f \in flags <=> f \in told
      <4>1. \A i \in 1..Len(todo.left) : todo.left[i] # f
        BY <2>1
      <4>2. WillBe(f, told)
        BY <2>1, <4>1 DEF IInv, LastSetWins
      <4>3. ~LastIs(<<>>, f, told)
        BY DEF LastIs
      <4> QED
        BY <2>1, <4>2, <4>3 DEF WillBe
    <3>2. flags \subseteq Func /\ told \subseteq Func
      BY DEF IInv, TypeOK
    <3> QED
      BY <3>1, <3>2
  <2> QED
    BY <2>1 DEF IInv, CallsAreLocked, ProcessInStep
<1> QED
  BY <1>1, ControlInvariant, PTL
=============================================================================
