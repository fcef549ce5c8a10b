--------------------------- MODULE LogFilesProofs ---------------------------
(***************************************************************************)
(* What holds of the files of the logs for every set of logs and whatever  *)
(* the bounds on records, metadata updates and server processes.           *)
(***************************************************************************)
EXTENDS LogFiles, TLAPS

USE FilesAssumption

\* The initial state: nothing is on the disk and no server runs.
LEMMA InitIInv == Init => IInv
<1> SUFFICES ASSUME Init PROVE IInv
  OBVIOUS
<1>1. (CHOOSE l \in Logs : TRUE) \in Logs
  OBVIOUS
<1>2. TypeOK
  BY <1>1 DEF Init, TypeOK, NoFile, Empty, Contents, Kinds, NoLog, NoSaved, Phases, Records, Symbols, Metas
<1>3. ServerState /\ StartFailures
  BY DEF Init, ServerState, StartFailures
<1>4. \A l \in Logs : LogInv(l)
  BY DEF Init, LogInv, EarlyLog, WrittenInOrder, SavedLog, VisibleLog, Holds, Exists, NoLog, NoSaved, Early, Kinds
<1> QED
  BY <1>2, <1>3, <1>4 DEF IInv

\* A log whose files, object and histories a step leaves alone stays as it is.
LEMMA OtherLog ==
  ASSUME NEW x \in Logs, LogInv(x),
         disk'[x] = disk[x], mem'[x] = mem[x], saved'[x] = saved[x], x \in deleted' <=> x \in deleted
  PROVE  LogInv(x)'
BY DEF LogInv, EarlyLog, WrittenInOrder, SavedLog, VisibleLog, Holds, Exists

\* The metadata file of a log that can be loaded is there, and so are all others.
LEMMA OpensMeans ==
  ASSUME NEW l \in Logs, OpensReadOnly(l)
  PROVE  /\ Status(l) = "created" 
         /\ \A k \in Kinds : Exists(l, k)
         /\ Loads(l)
<1>1. Exists(l, "func") /\ Exists(l, "raw") /\ Exists(l, "gor")
  BY DEF OpensReadOnly, StoresOpen
<1>2. Status(l) = "created" /\ Loads(l)
  BY <1>1 DEF OpensReadOnly, Status, StatusKinds
<1>3. \A k \in StatusKinds : Exists(l, k)
  BY <1>2 DEF Status
<1> QED
  BY <1>1, <1>2, <1>3 DEF Kinds, StatusKinds

-----------------------------------------------------------------------------
(* Steps that concern the object and the files of one log                  *)

Object == [pc : Phases, recs : Records, syms : Symbols, meta : Metas, idx : {"nil", "loaded"}]
History == [recs : Records, syms : Symbols, meta : Metas] \cup {NoSaved}

\* The parts of the state that belong to one log, and their types.
LEMMA Parts ==
  ASSUME TypeOK, NEW l \in Logs
  PROVE  /\ disk \in [Logs -> [Kinds -> Int]] /\ mem \in [Logs -> Object] /\ saved \in [Logs -> History]
         /\ mem[l] \in Object /\ saved[l] \in History /\ \A k \in Kinds : disk[l][k] \in Contents(k)
BY DEF TypeOK, Object, History

\* What each kind of file can be set to.
LEMMA ContentsAre ==
  /\ Contents("meta") = {NoFile, Empty} \cup Metas
  /\ Contents("index") = {NoFile, Empty, 0}
  /\ Contents("func") = {NoFile} \cup Records
  /\ Contents("sym") = {NoFile, Empty} \cup Symbols
  /\ Contents("raw") = {NoFile, 0} /\ Contents("gor") = {NoFile, 0}
BY DEF Contents

\* Only the given log changes, and what is there of it afterwards is well typed.
OnlyLog(l) ==
  /\ \A x \in Logs \ {l} : disk'[x] = disk[x] /\ mem'[x] = mem[x] /\ saved'[x] = saved[x]
  /\ disk' \in [Logs -> [Kinds -> Int]] /\ mem' \in [Logs -> Object] /\ saved' \in [Logs -> History]
  /\ \A k \in Kinds : disk'[l][k] \in Contents(k)
  /\ files' = files \cup {l} /\ UNCHANGED <<info, srv, starts, rm, deleted>>

\* A step of one log has to show only that this log keeps its part of the invariant.
LEMMA OneLog ==
  ASSUME IInv, NEW l \in Logs, srv \in {"up", "stopping"}, OnlyLog(l), LogInv(l)'
  PROVE  IInv'
<1>1. TypeOK'
  <2>1. \A x \in Logs, k \in Kinds : disk'[x][k] \in Contents(k)
    BY DEF IInv, TypeOK, OnlyLog
  <2> QED
    BY <2>1 DEF IInv, TypeOK, Object, History, OnlyLog
<1>2. ServerState'
  BY DEF IInv, ServerState, OnlyLog
<1>3. StartFailures'
  BY DEF IInv, StartFailures, OnlyLog
<1>4. \A x \in Logs : LogInv(x)'
  BY OtherLog DEF IInv, OnlyLog
<1> QED
  BY <1>1, <1>2, <1>3, <1>4 DEF IInv

\* Setting one file of a log leaves its other files, and all other logs', alone.
LEMMA FileSet ==
  ASSUME TypeOK, NEW l \in Logs, NEW k \in Kinds, NEW v \in Contents(k), v \in Int, SetFile(l, k, v)
  PROVE  /\ disk' \in [Logs -> [Kinds -> Int]] /\ \A x \in Logs \ {l} : disk'[x] = disk[x]
         /\ disk'[l][k] = v /\ \A j \in Kinds \ {k} : disk'[l][j] = disk[l][j]
         /\ \A j \in Kinds : disk'[l][j] \in Contents(j)
<1>1. disk \in [Logs -> [Kinds -> Int]] /\ \A j \in Kinds : disk[l][j] \in Contents(j)
  BY DEF TypeOK
<1> QED
  BY <1>1 DEF SetFile

\* A step of Close() moves the worker on and changes nothing else in the object.
LEMMA CloseStepObject ==
  ASSUME TypeOK, NEW l \in Logs, NEW from \in Phases, NEW to \in Phases, CloseStep(l, from, to)
  PROVE  /\ mem' \in [Logs -> Object] /\ \A x \in Logs \ {l} : mem'[x] = mem[x]
         /\ mem[l].pc = from /\ mem'[l].pc = to /\ mem'[l].recs = mem[l].recs /\ mem'[l].syms = mem[l].syms
         /\ mem'[l].meta = mem[l].meta /\ mem'[l].idx = mem[l].idx
         /\ srv \in {"up", "stopping"} /\ files = files \cup {l}
<1>1. mem \in [Logs -> Object]
  BY Parts
<1>2. mem' = [mem EXCEPT ![l] = [mem[l] EXCEPT !.pc = to]] /\ mem[l].pc = from
  BY DEF CloseStep
<1>3. srv \in {"up", "stopping"} /\ files = files \cup {l}
  BY DEF CloseStep, Up
<1> QED
  BY <1>1, <1>2, <1>3 DEF Object

\* Until the metadata file is created, a step of the log's worker may change the object
\* and the other files, as long as it keeps to the order and removes nothing.
LEMMA EarlyStep ==
  ASSUME IInv, NEW l \in Logs, srv \in {"up", "stopping"}, OnlyLog(l), UNCHANGED saved,
         mem[l].pc \in Early, mem'[l].pc \in Early, disk'[l]["meta"] = disk[l]["meta"],
         \A k \in Kinds : Exists(l, k) => disk'[l][k] # NoFile,
         WrittenInOrder(l)'
  PROVE  IInv'
<1>1. /\ saved[l] = NoSaved /\ l \notin deleted /\ ~Exists(l, "meta")
      /\ Exists(l, "func") /\ Exists(l, "raw") /\ Exists(l, "gor")
  BY DEF IInv, LogInv, EarlyLog
<1>2. /\ saved'[l] = NoSaved /\ l \notin deleted' /\ disk'[l]["meta"] = NoFile
      /\ disk'[l]["func"] # NoFile /\ disk'[l]["raw"] # NoFile /\ disk'[l]["gor"] # NoFile
  BY <1>1 DEF Exists, Kinds, OnlyLog
<1>3. LogInv(l)'
  BY <1>2 DEF LogInv, EarlyLog, SavedLog, VisibleLog, Exists, Early
<1> QED
  BY <1>3, OneLog

\* Until the metadata, a step of Close() writes one file.
LEMMA EarlyClose ==
  ASSUME IInv, NEW l \in Logs, NEW from \in Early, NEW to \in Early, CloseStep(l, from, to),
         NEW k \in Kinds \ {"meta"}, NEW v \in Contents(k), v \in Int, v # NoFile, SetFile(l, k, v),
         UNCHANGED <<Others, srv>>,
         mem'[l].pc = to /\ mem'[l].recs = mem[l].recs /\ mem'[l].syms = mem[l].syms
           /\ disk'[l][k] = v /\ (\A j \in Kinds \ {k} : disk'[l][j] = disk[l][j])
           => WrittenInOrder(l)'
  PROVE  IInv'
<1>0. TypeOK /\ from \in Phases /\ to \in Phases
  BY DEF IInv, Phases
<1>1. /\ mem' \in [Logs -> Object] /\ (\A x \in Logs \ {l} : mem'[x] = mem[x])
      /\ mem[l].pc = from /\ mem'[l].pc = to /\ mem'[l].recs = mem[l].recs /\ mem'[l].syms = mem[l].syms
      /\ srv \in {"up", "stopping"} /\ files = files \cup {l}
  BY <1>0, CloseStepObject
<1>2. /\ disk' \in [Logs -> [Kinds -> Int]] /\ (\A x \in Logs \ {l} : disk'[x] = disk[x])
      /\ disk'[l][k] = v /\ (\A j \in Kinds \ {k} : disk'[l][j] = disk[l][j])
      /\ \A j \in Kinds : disk'[l][j] \in Contents(j)
  BY <1>0, FileSet
<1>3. WrittenInOrder(l)'
  BY <1>1, <1>2
<1>4. OnlyLog(l) /\ UNCHANGED saved
  BY <1>0, <1>1, <1>2, Parts DEF OnlyLog, Others
<1>5. disk'[l]["meta"] = disk[l]["meta"] /\ \A j \in Kinds : Exists(l, j) => disk'[l][j] # NoFile
  BY <1>2 DEF Exists, Kinds
<1> QED
  BY <1>1, <1>3, <1>4, <1>5, EarlyStep

\* A record goes to the buffer, or all that is there to the file of the calls.
LEMMA RecordIInv ==
  ASSUME IInv, NEW l \in Logs, Record(l)
  PROVE  IInv'
<1>0. TypeOK /\ mem \in [Logs -> Object] /\ mem[l].pc = "open"
  BY Parts DEF IInv, Record
<1>1. mem[l].recs + 1 \in Records
  <2>1. mem[l].recs \in 0..MaxRecords /\ mem[l].recs < MaxRecords
    BY <1>0 DEF Record, Object, Records
  <2> QED
    BY <2>1 DEF Records
<1>2. mem' = [mem EXCEPT ![l] = [mem[l] EXCEPT !.recs = mem[l].recs + 1]]
  BY DEF Record
<1>3. mem' \in [Logs -> Object] /\ (\A x \in Logs \ {l} : mem'[x] = mem[x]) /\ mem'[l].pc = "open"
  BY <1>0, <1>1, <1>2 DEF Object
<1>4. mem[l].recs + 1 \in Contents("func") /\ mem[l].recs + 1 \in Int /\ mem[l].recs + 1 # NoFile
  BY <1>1, ContentsAre DEF NoFile, Records
<1>5. /\ disk' \in [Logs -> [Kinds -> Int]] /\ (\A x \in Logs \ {l} : disk'[x] = disk[x])
      /\ disk'[l]["meta"] = disk[l]["meta"] /\ (\A j \in Kinds : Exists(l, j) => disk'[l][j] # NoFile)
      /\ \A j \in Kinds : disk'[l][j] \in Contents(j)
  <2>1. CASE UNCHANGED disk
    BY <1>0, <2>1, Parts DEF Exists
  <2>2. CASE SetFile(l, "func", mem[l].recs + 1)
    BY <1>0, <1>4, <2>2, FileSet DEF Exists, Kinds
  <2> QED
    BY <2>1, <2>2 DEF Record
<1>6. srv \in {"up", "stopping"} /\ OnlyLog(l) /\ UNCHANGED saved
  BY <1>0, <1>3, <1>5, Parts DEF OnlyLog, Record, Others, Up
<1>7. WrittenInOrder(l)'
  BY <1>3 DEF WrittenInOrder
<1> QED
  BY <1>0, <1>3, <1>5, <1>6, <1>7, EarlyStep DEF Early

\* Symbols, the index and the start of Close() touch the object only.
LEMMA ObjectIInv ==
  ASSUME IInv, NEW l \in Logs, SetSymbolsData(l) \/ UseIndex(l) \/ Disconnect(l) \/ EndTimestamps(l)
  PROVE  IInv'
<1>0. TypeOK /\ mem \in [Logs -> Object] /\ disk' = disk
  BY Parts DEF IInv, SetSymbolsData, UseIndex, Disconnect, EndTimestamps
<1>1. /\ mem' \in [Logs -> Object] /\ (\A x \in Logs \ {l} : mem'[x] = mem[x]) /\ mem[l].pc \in Early
      /\ mem'[l].pc \in {"open", "closing", "index"} /\ (mem'[l].pc = "index" => mem'[l].idx = "loaded")
  <2>1. CASE SetSymbolsData(l)
    BY <1>0, <2>1 DEF SetSymbolsData, Object, Symbols, Phases, Early
  <2>2. CASE UseIndex(l)
    BY <1>0, <2>2 DEF UseIndex, Object, Phases, Early
  <2>3. CASE Disconnect(l)
    BY <1>0, <2>3 DEF Disconnect, CloseStep, Object, Phases, Early
  <2>4. CASE EndTimestamps(l)
    BY <1>0, <2>4 DEF EndTimestamps, Object, Phases, Early
  <2> QED
    BY <2>1, <2>2, <2>3, <2>4
<1>2. srv \in {"up", "stopping"} /\ UNCHANGED <<Others, srv>> /\ files = files \cup {l}
  BY DEF SetSymbolsData, UseIndex, Disconnect, EndTimestamps, CloseStep, Up
<1>3. OnlyLog(l) /\ UNCHANGED saved
  BY <1>0, <1>1, <1>2, Parts DEF OnlyLog, Others
<1>4. WrittenInOrder(l)'
  BY <1>1 DEF WrittenInOrder
<1> QED
  BY <1>0, <1>1, <1>2, <1>3, <1>4, EarlyStep DEF Early, Exists

\* The files before the metadata, in the order of Log.Close().
LEMMA CloseFilesIInv ==
  ASSUME IInv, NEW l \in Logs,
         CreateIndex(l) \/ EncodeIndex(l) \/ CreateSymbols(l) \/ FlushSymbols(l) \/ CloseStores(l)
  PROVE  IInv'
<1>0. TypeOK /\ WrittenInOrder(l) /\ mem[l] \in Object
  BY Parts DEF IInv, LogInv
<1>1. CASE CreateIndex(l)
  <2>1. CloseStep(l, "index", "encode index") /\ SetFile(l, "index", Empty) /\ UNCHANGED <<Others, srv>>
    BY <1>0, <1>1 DEF CreateIndex, CloseStep, WrittenInOrder
  <2>0. mem[l].pc = "index"
    BY <2>1 DEF CloseStep
  <2>2. Empty \in Contents("index") /\ Empty \in Int /\ Empty # NoFile
    BY <1>0, ContentsAre DEF Empty, NoFile
  <2>3. mem'[l].pc = "encode index" /\ mem'[l].recs = mem[l].recs /\ mem'[l].syms = mem[l].syms
          /\ disk'[l]["index"] = Empty /\ (\A j \in Kinds \ {"index"} : disk'[l][j] = disk[l][j])
        => WrittenInOrder(l)'
    BY <1>0, <2>0 DEF WrittenInOrder, Kinds
  <2> QED
    BY <2>1, <2>2, <2>3, EarlyClose DEF Early, Kinds
<1>2. CASE EncodeIndex(l)
  <2>1. CloseStep(l, "encode index", "symbols") /\ SetFile(l, "index", 0) /\ UNCHANGED <<Others, srv>>
    BY <1>0, <1>2 DEF EncodeIndex, CloseStep, WrittenInOrder
  <2>0. mem[l].pc = "encode index"
    BY <2>1 DEF CloseStep
  <2>2. 0 \in Contents("index") /\ 0 \in Int /\ 0 # NoFile
    BY <1>0, ContentsAre DEF NoFile
  <2>3. mem'[l].pc = "symbols" /\ mem'[l].recs = mem[l].recs /\ mem'[l].syms = mem[l].syms
          /\ disk'[l]["index"] = 0 /\ (\A j \in Kinds \ {"index"} : disk'[l][j] = disk[l][j])
        => WrittenInOrder(l)'
    BY <1>0, <2>0 DEF WrittenInOrder, Kinds
  <2> QED
    BY <2>1, <2>2, <2>3, EarlyClose DEF Early, Kinds
<1>3. CASE CreateSymbols(l)
  <2>1. CloseStep(l, "symbols", "flush symbols") /\ SetFile(l, "sym", Empty) /\ UNCHANGED <<Others, srv>>
    BY <1>0, <1>3 DEF CreateSymbols, CloseStep, WrittenInOrder
  <2>0. mem[l].pc = "symbols"
    BY <2>1 DEF CloseStep
  <2>2. Empty \in Contents("sym") /\ Empty \in Int /\ Empty # NoFile
    BY <1>0, ContentsAre DEF Empty, NoFile
  <2>3. mem'[l].pc = "flush symbols" /\ mem'[l].recs = mem[l].recs /\ mem'[l].syms = mem[l].syms
          /\ disk'[l]["sym"] = Empty /\ (\A j \in Kinds \ {"sym"} : disk'[l][j] = disk[l][j])
        => WrittenInOrder(l)'
    BY <1>0, <2>0 DEF WrittenInOrder, Kinds
  <2> QED
    BY <2>1, <2>2, <2>3, EarlyClose DEF Early, Kinds
<1>4. CASE FlushSymbols(l)
  <2>1. CloseStep(l, "flush symbols", "stores") /\ SetFile(l, "sym", mem[l].syms) /\ UNCHANGED <<Others, srv>>
    BY <1>0, <1>4 DEF FlushSymbols, CloseStep, WrittenInOrder
  <2>0. mem[l].pc = "flush symbols"
    BY <2>1 DEF CloseStep
  <2>2. mem[l].syms \in Contents("sym") /\ mem[l].syms \in Int /\ mem[l].syms # NoFile
    BY <1>0, ContentsAre DEF Object, Symbols, NoFile
  <2>3. mem'[l].pc = "stores" /\ mem'[l].recs = mem[l].recs /\ mem'[l].syms = mem[l].syms
          /\ disk'[l]["sym"] = mem[l].syms /\ (\A j \in Kinds \ {"sym"} : disk'[l][j] = disk[l][j])
        => WrittenInOrder(l)'
    BY <1>0, <2>0 DEF WrittenInOrder, Kinds
  <2> QED
    BY <2>1, <2>2, <2>3, EarlyClose DEF Early, Kinds
<1>5. CASE CloseStores(l)
  <2>1. CloseStep(l, "stores", "meta") /\ SetFile(l, "func", mem[l].recs) /\ UNCHANGED <<Others, srv>>
    BY <1>0, <1>5 DEF CloseStores, CloseStep, WrittenInOrder
  <2>0. mem[l].pc = "stores"
    BY <2>1 DEF CloseStep
  <2>2. mem[l].recs \in Contents("func") /\ mem[l].recs \in Int /\ mem[l].recs # NoFile
    BY <1>0, ContentsAre DEF Object, Records, NoFile
  <2>3. mem'[l].pc = "meta" /\ mem'[l].recs = mem[l].recs /\ mem'[l].syms = mem[l].syms
          /\ disk'[l]["func"] = mem[l].recs /\ (\A j \in Kinds \ {"func"} : disk'[l][j] = disk[l][j])
        => WrittenInOrder(l)'
    BY <1>0, <2>0 DEF WrittenInOrder, Kinds
  <2> QED
    BY <2>1, <2>2, <2>3, EarlyClose DEF Early, Kinds
<1> QED
  BY <1>1, <1>2, <1>3, <1>4, <1>5

\* An update of the metadata stays in memory: no file and no history changes.
LEMMA UpdateMetadataIInv ==
  ASSUME IInv, NEW l \in Logs, UpdateMetadata(l)
  PROVE  IInv'
<1>0. TypeOK /\ LogInv(l) /\ mem \in [Logs -> Object]
  BY Parts DEF IInv
<1>1. mem[l].meta + 1 \in Metas
  <2>1. mem[l].meta \in 0..MaxMeta /\ mem[l].meta < MaxMeta
    BY <1>0 DEF UpdateMetadata, Object, Metas
  <2> QED
    BY <2>1 DEF Metas
<1>2. mem' = [mem EXCEPT ![l] = [mem[l] EXCEPT !.meta = mem[l].meta + 1]]
  BY DEF UpdateMetadata
<1>3. /\ mem' \in [Logs -> Object] /\ (\A x \in Logs \ {l} : mem'[x] = mem[x]) /\ mem'[l].pc = mem[l].pc
      /\ mem'[l].recs = mem[l].recs /\ mem'[l].syms = mem[l].syms /\ mem'[l].idx = mem[l].idx
  BY <1>0, <1>1, <1>2 DEF Object
<1>4. /\ srv \in {"up", "stopping"} /\ files = files \cup {l}
      /\ UNCHANGED <<info, disk, srv, starts, files, rm, saved, deleted>>
  BY DEF UpdateMetadata, Up, Others
<1>5. OnlyLog(l)
  BY <1>0, <1>3, <1>4, Parts DEF OnlyLog
<1>6. LogInv(l)'
  BY <1>0, <1>3, <1>4 DEF LogInv, EarlyLog, WrittenInOrder, SavedLog, VisibleLog, Holds, Exists
<1> QED
  BY <1>4, <1>5, <1>6, OneLog

\* The metadata file is created behind every other file of the log.
LEMMA CreateMetaIInv ==
  ASSUME IInv, NEW l \in Logs, CreateMeta(l)
  PROVE  IInv'
<1>0. TypeOK /\ LogInv(l) /\ mem[l] \in Object
  BY Parts DEF IInv
<1>1. /\ mem' \in [Logs -> Object] /\ (\A x \in Logs \ {l} : mem'[x] = mem[x])
      /\ mem[l].pc = "meta" /\ mem'[l].pc = "encode meta" /\ mem'[l].recs = mem[l].recs /\ mem'[l].syms = mem[l].syms
      /\ srv \in {"up", "stopping"} /\ files = files \cup {l}
  BY <1>0, CloseStepObject DEF CreateMeta, Phases, Early
<1>2. /\ disk' \in [Logs -> [Kinds -> Int]] /\ (\A x \in Logs \ {l} : disk'[x] = disk[x])
      /\ disk'[l]["meta"] = Empty /\ (\A j \in Kinds \ {"meta"} : disk'[l][j] = disk[l][j])
      /\ \A j \in Kinds : disk'[l][j] \in Contents(j)
  <2>1. Empty \in Contents("meta") /\ Empty \in Int /\ "meta" \in Kinds
    BY ContentsAre DEF Empty, Kinds
  <2> QED
    BY <1>0, <2>1, FileSet DEF CreateMeta
<1>3. UNCHANGED <<info, srv, starts, files, rm, saved, deleted>>
  BY DEF CreateMeta, Others
<1>4. /\ saved[l] = NoSaved /\ l \notin deleted /\ disk[l]["raw"] # NoFile /\ disk[l]["gor"] # NoFile
      /\ disk[l]["index"] = 0 /\ disk[l]["sym"] = mem[l].syms /\ disk[l]["func"] = mem[l].recs
  BY <1>0, <1>1 DEF LogInv, EarlyLog, WrittenInOrder, Exists, Early
<1>5. mem[l].syms # NoFile /\ mem[l].recs # NoFile /\ Empty # NoFile /\ 0 # NoFile
  BY <1>0 DEF Object, Symbols, Records, NoFile, Empty
<1>6. Holds(l, mem[l].recs, mem[l].syms)'
  BY <1>1, <1>2, <1>3, <1>4, <1>5 DEF Holds, Exists, Kinds
<1>7. LogInv(l)'
  BY <1>1, <1>2, <1>3, <1>4, <1>5, <1>6
     DEF LogInv, EarlyLog, WrittenInOrder, SavedLog, VisibleLog, Exists, Early, Kinds
<1>8. OnlyLog(l)
  BY <1>0, <1>1, <1>2, <1>3, Parts DEF OnlyLog
<1> QED
  BY <1>1, <1>7, <1>8, OneLog

\* The metadata is written, unless its file was removed meanwhile: the log is saved.
LEMMA EncodeMetaIInv ==
  ASSUME IInv, NEW l \in Logs, EncodeMeta(l)
  PROVE  IInv'
<1>0. TypeOK /\ LogInv(l) /\ mem[l] \in Object /\ saved \in [Logs -> History]
  BY Parts DEF IInv
<1>1. /\ mem' \in [Logs -> Object] /\ (\A x \in Logs \ {l} : mem'[x] = mem[x]) /\ mem[l].pc = "encode meta"
      /\ mem'[l].pc = "reopen" /\ mem'[l].recs = mem[l].recs /\ mem'[l].syms = mem[l].syms
      /\ srv \in {"up", "stopping"} /\ files = files \cup {l}
  BY <1>0, CloseStepObject DEF EncodeMeta, Phases
<1>2. /\ disk' \in [Logs -> [Kinds -> Int]] /\ (\A x \in Logs \ {l} : disk'[x] = disk[x])
      /\ (Exists(l, "meta") => disk'[l]["meta"] = mem[l].meta) /\ (~Exists(l, "meta") => disk'[l]["meta"] = NoFile)
      /\ (\A j \in Kinds \ {"meta"} : disk'[l][j] = disk[l][j])
      /\ \A j \in Kinds : disk'[l][j] \in Contents(j)
  <2>1. mem[l].meta \in Contents("meta") /\ mem[l].meta \in Int /\ "meta" \in Kinds
    BY <1>0, ContentsAre DEF Object, Metas, Kinds
  <2>2. CASE Exists(l, "meta")
    BY <1>0, <2>1, <2>2, FileSet DEF EncodeMeta
  <2>3. CASE ~Exists(l, "meta")
    BY <1>0, <2>3, Parts DEF EncodeMeta, Exists
  <2> QED
    BY <2>2, <2>3
<1>3. /\ saved' \in [Logs -> History] /\ (\A x \in Logs \ {l} : saved'[x] = saved[x]) /\ saved'[l] # NoSaved
      /\ saved'[l].recs = mem[l].recs /\ saved'[l].syms = mem[l].syms /\ saved'[l].meta = mem[l].meta
  <2> DEFINE s == [recs |-> mem[l].recs, syms |-> mem[l].syms, meta |-> mem[l].meta]
  <2>1. s \in History /\ s # NoSaved /\ s.recs = mem[l].recs /\ s.syms = mem[l].syms /\ s.meta = mem[l].meta
    BY <1>0 DEF Object, NoSaved, Records, History
  <2>2. saved' = [saved EXCEPT ![l] = s]
    BY DEF EncodeMeta
  <2> HIDE DEF s
  <2> QED
    BY <1>0, <2>1, <2>2
<1>4. UNCHANGED <<info, srv, starts, files, rm, deleted>>
  BY DEF EncodeMeta
<1>5. Holds(l, mem[l].recs, mem[l].syms) /\ (l \notin deleted => disk[l]["meta"] = Empty) /\ VisibleLog(l)
  BY <1>1 DEF IInv, LogInv, WrittenInOrder
<1>6. Empty # NoFile /\ mem[l].meta # NoFile
  BY <1>0 DEF Empty, NoFile, Object, Metas
<1>7. Holds(l, saved[l].recs, saved[l].syms)'
  BY <1>2, <1>3, <1>4, <1>5, <1>6 DEF Holds, Exists, Kinds
<1>8. l \notin deleted => disk'[l]["meta"] = saved'[l].meta
  BY <1>2, <1>3, <1>5, <1>6 DEF Exists
<1>9. VisibleLog(l)'
  BY <1>2, <1>3, <1>4, <1>5, <1>6 DEF VisibleLog, Exists, Holds, Kinds
<1>10. LogInv(l)'
  BY <1>1, <1>3, <1>4, <1>7, <1>8, <1>9 DEF LogInv, EarlyLog, WrittenInOrder, SavedLog, Early
<1>11. OnlyLog(l)
  BY <1>1, <1>2, <1>3, <1>4 DEF OnlyLog
<1> QED
  BY <1>1, <1>10, <1>11, OneLog

\* Storage.New() draws an identifier that no saved, visible or deleted log has had.
LEMMA ConnectIInv ==
  ASSUME IInv, NEW l \in Logs, Connect(l)
  PROVE  IInv'
<1>0. TypeOK /\ LogInv(l) /\ disk \in [Logs -> [Kinds -> Int]] /\ mem \in [Logs -> Object] /\ saved \in [Logs -> History]
  BY Parts DEF IInv
<1>1. saved[l] = NoSaved /\ l \notin deleted
  <2>1. ~Exists(l, "gor")
    BY DEF Connect, Kinds
  <2> QED
    BY <1>0, <2>1 DEF LogInv, VisibleLog
<1>2. /\ disk' \in [Logs -> [Kinds -> Int]] /\ (\A x \in Logs \ {l} : disk'[x] = disk[x])
      /\ disk'[l]["meta"] = NoFile /\ disk'[l]["index"] = NoFile /\ disk'[l]["sym"] = NoFile
      /\ disk'[l]["func"] = 0 /\ disk'[l]["raw"] = 0 /\ disk'[l]["gor"] = 0
  <2> DEFINE d == [k \in Kinds |-> IF k \in {"func", "raw", "gor"} THEN 0 ELSE NoFile]
  <2>1. /\ d \in [Kinds -> Int] /\ d["meta"] = NoFile /\ d["index"] = NoFile /\ d["sym"] = NoFile
        /\ d["func"] = 0 /\ d["raw"] = 0 /\ d["gor"] = 0
    BY DEF Kinds, NoFile
  <2>2. disk' = [disk EXCEPT ![l] = d]
    BY DEF Connect
  <2> HIDE DEF d
  <2> QED
    BY <1>0, <2>1, <2>2
<1>3. \A k \in Kinds : disk'[l][k] \in Contents(k)
  BY <1>2, ContentsAre DEF Kinds, Records
<1>4. mem' \in [Logs -> Object] /\ (\A x \in Logs \ {l} : mem'[x] = mem[x]) /\ mem'[l].pc = "open"
  <2> DEFINE o == [NoLog EXCEPT !.pc = "open"]
  <2>1. o \in Object /\ o.pc = "open"
    <3>1. o = [pc |-> "open", recs |-> 0, syms |-> 0, meta |-> 0, idx |-> "nil"]
      BY DEF NoLog
    <3>2. "open" \in Phases /\ 0 \in Records /\ 0 \in Symbols /\ 0 \in Metas
      BY DEF Phases, Early, Records, Symbols, Metas
    <3> HIDE DEF o
    <3> QED
      BY <3>1, <3>2 DEF Object
  <2>2. mem' = [mem EXCEPT ![l] = o]
    BY DEF Connect
  <2> HIDE DEF o
  <2> QED
    BY <1>0, <2>1, <2>2
<1>5. LogInv(l)'
  <2>1. saved'[l] = NoSaved /\ l \notin deleted' /\ 0 # NoFile
    BY <1>1 DEF Connect, NoFile
  <2> QED
    BY <1>2, <1>4, <2>1 DEF LogInv, EarlyLog, WrittenInOrder, SavedLog, VisibleLog, Exists
<1>6. OnlyLog(l) /\ srv \in {"up", "stopping"}
  BY <1>0, <1>2, <1>3, <1>4 DEF OnlyLog, Connect
<1> QED
  BY <1>5, <1>6, OneLog

-----------------------------------------------------------------------------
(* Opening                                                                 *)

\* A log that was saved and that no DELETE request has touched can be opened.
LEMMA SavedOpens ==
  ASSUME TypeOK, NEW l \in Logs, LogInv(l), saved[l] # NoSaved, l \notin deleted
  PROVE  OpensReadOnly(l)
<1>1. \A k \in Kinds : Exists(l, k)
  BY DEF LogInv, SavedLog, Holds
<1>2. disk[l]["index"] = 0 /\ disk[l]["sym"] = saved[l].syms
  BY <1>1 DEF LogInv, SavedLog, Holds, Exists, Kinds
<1>3. saved[l].syms # Empty /\ 0 # Empty
  BY Parts DEF History, Symbols, Empty
<1>4. Loads(l)
  BY <1>2, <1>3 DEF Loads
<1>5. StoresOpen(l) /\ \A k \in StatusKinds : Exists(l, k)
  BY <1>1 DEF StoresOpen, StatusKinds, Kinds
<1>6. Status(l) = "created"
  BY <1>5 DEF Status, StatusKinds
<1> QED
  BY <1>4, <1>5, <1>6 DEF OpensReadOnly

\* What Open() reads of a saved log is what the log held when it was saved.
LEMMA LoadedIsSaved ==
  ASSUME TypeOK, NEW l \in Logs, LogInv(l), saved[l] # NoSaved, OpensReadOnly(l)
  PROVE  /\ disk[l]["func"] = saved[l].recs /\ disk[l]["sym"] = saved[l].syms
         /\ saved[l].recs \in Records /\ saved[l].syms \in Symbols
<1>1. Exists(l, "func") /\ Exists(l, "sym")
  BY OpensMeans DEF Kinds
<1> QED
  BY <1>1, Parts DEF LogInv, SavedLog, Holds, Exists, History

\* When a server process ends, its memory is gone and the disk stays.
LEMMA ProcessEnds ==
  ASSUME IInv, srv' \in {"down", "panicked"},
         files' = {}, mem' = [x \in Logs |-> NoLog], rm' = [rm EXCEPT !.pc = "idle"],
         UNCHANGED <<info, disk, starts, saved, deleted>>
  PROVE  IInv'
<1>1. NoLog \in Object /\ NoLog.pc = "absent"
  BY DEF NoLog, Object, Phases, Records, Symbols, Metas
<1>2. rm' \in [pc : {"idle", "meta", "index", "raw", "func", "sym"}, log : Logs] /\ rm'.pc = "idle"
  BY DEF IInv, TypeOK
<1>3. TypeOK'
  BY <1>1, <1>2 DEF IInv, TypeOK, Object
<1>4. ServerState'
  BY <1>2 DEF ServerState
<1>5. StartFailures'
  BY DEF StartFailures
<1>6. \A l \in Logs : LogInv(l)'
  <2> SUFFICES ASSUME NEW l \in Logs PROVE LogInv(l)'
    OBVIOUS
  <2>1. mem'[l].pc = "absent" /\ LogInv(l)
    BY <1>1 DEF IInv
  <2> QED
    BY <2>1 DEF LogInv, EarlyLog, WrittenInOrder, SavedLog, VisibleLog, Holds, Exists, Early
<1> QED
  BY <1>3, <1>4, <1>5, <1>6 DEF IInv

\* The worker's Open() behind Close() shows what was saved, or ends the process.
LEMMA ReopenIInv ==
  ASSUME IInv, NEW l \in Logs, Reopen(l)
  PROVE  IInv'
<1>0. TypeOK /\ LogInv(l) /\ mem \in [Logs -> Object] /\ mem[l] \in Object
  BY Parts DEF IInv
<1>1. saved[l] # NoSaved
  BY DEF IInv, LogInv, SavedLog, Reopen
<1>2. CASE OpensReadOnly(l)
  <2>1. /\ disk[l]["func"] = saved[l].recs /\ disk[l]["sym"] = saved[l].syms
        /\ saved[l].recs \in Records /\ saved[l].syms \in Symbols
    BY <1>0, <1>1, <1>2, LoadedIsSaved
  <2>2. /\ mem' \in [Logs -> Object] /\ (\A x \in Logs \ {l} : mem'[x] = mem[x])
        /\ mem'[l].pc = "readonly" /\ mem'[l].recs = saved[l].recs /\ mem'[l].syms = saved[l].syms
    <3> DEFINE o == [pc |-> "readonly", recs |-> disk[l]["func"], syms |-> disk[l]["sym"], meta |-> mem[l].meta, idx |-> "loaded"]
    <3>1. o \in Object /\ o.pc = "readonly" /\ o.recs = disk[l]["func"] /\ o.syms = disk[l]["sym"]
      BY <1>0, <2>1 DEF Object, Phases
    <3>2. mem' = [mem EXCEPT ![l] = o]
      BY <1>2 DEF Reopen, Loaded
    <3> HIDE DEF o
    <3> QED
      BY <1>0, <2>1, <3>1, <3>2
  <2>3. /\ srv \in {"up", "stopping"} /\ files = files \cup {l}
        /\ UNCHANGED <<info, disk, srv, starts, files, rm, saved, deleted>>
    BY <1>2 DEF Reopen, Up
  <2>4. OnlyLog(l)
    BY <1>0, <2>2, <2>3, Parts DEF OnlyLog
  <2>5. LogInv(l)'
    BY <1>0, <1>1, <2>2, <2>3 DEF LogInv, EarlyLog, WrittenInOrder, SavedLog, VisibleLog, Holds, Exists, Early
  <2> QED
    BY <2>3, <2>4, <2>5, OneLog
<1>3. CASE ~OpensReadOnly(l)
  BY <1>3, ProcessEnds DEF Reopen
<1> QED
  BY <1>2, <1>3

-----------------------------------------------------------------------------
(* The server process and DELETE requests                                  *)

\* A step that leaves the logs alone keeps every log's part of the invariant.
LEMMA LogsUnchanged ==
  ASSUME IInv, UNCHANGED <<disk, mem, saved, deleted>>
  PROVE  \A l \in Logs : LogInv(l)'
BY OtherLog DEF IInv

\* A server starts, and writes the version of the format when the storage is new.
LEMMA StartIInv ==
  ASSUME IInv, Start \/ WriteInfo
  PROVE  IInv'
<1>1. srv \notin {"up", "stopping"} /\ srv' \in {"init", "load", "failed"} /\ info' \in {NoFile, Empty, 0} /\ starts' \in 0..MaxStarts
      /\ (srv' = "failed" => info' = Empty)
  <2>1. CASE Start
    <3>1. starts' \in 0..MaxStarts
      BY <2>1 DEF Start, IInv, TypeOK
    <3>2. info \in {NoFile, Empty, 0} /\ Empty # NoFile
      BY DEF IInv, TypeOK, Empty, NoFile
    <3> QED
      BY <2>1, <3>1, <3>2 DEF Start
  <2>2. CASE WriteInfo
    BY <2>2 DEF WriteInfo, IInv, TypeOK
  <2> QED
    BY <2>1, <2>2
<1>2. UNCHANGED <<disk, files, mem, rm, saved, deleted>>
  BY DEF Start, WriteInfo
<1>3. TypeOK'
  BY <1>1, <1>2 DEF IInv, TypeOK
<1>4. ServerState' /\ StartFailures'
  BY <1>1, <1>2 DEF IInv, ServerState, StartFailures
<1> QED
  BY <1>2, <1>3, <1>4, LogsUnchanged DEF IInv

\* Storage.Load(): every visible log was saved, or its metadata file is empty.
LEMMA LoadIInv ==
  ASSUME IInv, Load
  PROVE  IInv'
<1>0. TypeOK /\ (\A l \in Logs : LogInv(l)) /\ srv = "load" /\ UNCHANGED <<info, disk, starts, rm, saved, deleted>>
  BY DEF IInv, Load
<1>1. \A l \in Visible : disk[l]["meta"] # Empty => saved[l] # NoSaved /\ l \notin deleted /\ OpensReadOnly(l)
  <2> SUFFICES ASSUME NEW l \in Visible, disk[l]["meta"] # Empty
               PROVE  saved[l] # NoSaved /\ l \notin deleted /\ OpensReadOnly(l)
    OBVIOUS
  <2>1. l \in Logs /\ saved[l] # NoSaved /\ l \notin deleted
    BY <1>0 DEF Visible, LogInv, VisibleLog
  <2> QED
    BY <1>0, <2>1, SavedOpens
<1>2. CASE srv' = "failed" /\ (\E l \in Visible : LoadFails(l)) /\ UNCHANGED <<files, mem>>
  <2>1. \E l \in Logs : disk[l]["meta"] = Empty
    BY <1>1, <1>2 DEF LoadFails, Visible
  <2>2. TypeOK' /\ ServerState' /\ StartFailures'
    BY <1>0, <1>2, <2>1 DEF IInv, TypeOK, ServerState, StartFailures
  <2> QED
    BY <1>0, <1>2, <2>2, LogsUnchanged DEF IInv
<1>3. CASE /\ \A l \in Visible : ~LoadFails(l)
           /\ srv' = "up" /\ files' = Visible
           /\ mem' = [l \in Logs |-> IF l \in Visible THEN Loaded(l) ELSE NoLog]
  <2>1. ASSUME NEW l \in Visible
        PROVE  /\ l \in Logs /\ saved[l] # NoSaved /\ mem'[l] \in Object /\ mem'[l].pc = "readonly"
               /\ mem'[l].recs = saved[l].recs /\ mem'[l].syms = saved[l].syms
    <3>1. l \in Logs /\ saved[l] # NoSaved /\ OpensReadOnly(l) /\ disk[l]["meta"] # Empty
      BY <1>1, <1>3, <2>1 DEF LoadFails, Visible
    <3>2. /\ disk[l]["func"] = saved[l].recs /\ disk[l]["sym"] = saved[l].syms
          /\ saved[l].recs \in Records /\ saved[l].syms \in Symbols
      BY <1>0, <3>1, LoadedIsSaved
    <3>3. disk[l]["meta"] \in Metas
      <4>1. disk[l]["meta"] \in Contents("meta")
        BY <1>0, <3>1, Parts DEF Kinds
      <4> QED
        BY <3>1, <4>1, ContentsAre DEF Visible, Exists
    <3>4. mem'[l] = Loaded(l)
      BY <1>3, <3>1
    <3> QED
      BY <3>1, <3>2, <3>3, <3>4 DEF Loaded, Object, Phases
  <2>2. ASSUME NEW l \in Logs, l \notin Visible
        PROVE  mem'[l] \in Object /\ mem'[l].pc = "absent"
    <3>1. mem'[l] = NoLog
      BY <1>3, <2>2
    <3> QED
      BY <3>1 DEF NoLog, Object, Phases, Records, Symbols, Metas
  <2>3. mem' \in [Logs -> Object]
    <3> DEFINE m == [l \in Logs |-> IF l \in Visible THEN Loaded(l) ELSE NoLog]
    <3>1. mem' = m /\ \A l \in Logs : mem'[l] \in Object
      BY <1>3, <2>1, <2>2
    <3> QED
      BY <3>1
  <2>4. TypeOK'
    BY <1>0, <1>3, <2>3 DEF IInv, TypeOK, Object, Visible
  <2>5. ServerState'
    <3>1. rm'.pc = "idle"
      BY <1>0 DEF IInv, ServerState
    <3>2. ASSUME NEW l \in Logs, l \notin deleted, saved[l] # NoSaved
          PROVE  l \in Visible
      <4>1. OpensReadOnly(l)
        BY <1>0, <3>2, SavedOpens
      <4> QED
        BY <4>1, OpensMeans DEF Kinds, Visible
    <3> QED
      BY <1>0, <1>3, <3>1, <3>2 DEF ServerState
  <2>6. StartFailures'
    BY <1>3 DEF StartFailures
  <2>7. ASSUME NEW l \in Logs
        PROVE  LogInv(l)'
    <3>1. mem'[l].pc \in {"absent", "readonly"}
          /\ (mem'[l].pc = "readonly" => saved[l] # NoSaved /\ mem'[l].recs = saved[l].recs /\ mem'[l].syms = saved[l].syms)
      BY <2>1, <2>2
    <3>2. LogInv(l)
      BY <1>0
    <3> QED
      BY <1>0, <3>1, <3>2 DEF LogInv, EarlyLog, WrittenInOrder, SavedLog, VisibleLog, Holds, Exists, Early
  <2> QED
    BY <2>4, <2>5, <2>6, <2>7 DEF IInv
<1> QED
  BY <1>2, <1>3 DEF Load

\* A signal turns every recording into a close.
LEMMA SignalIInv ==
  ASSUME IInv, Signal
  PROVE  IInv'
<1>0. TypeOK /\ mem \in [Logs -> Object] /\ srv = "up" /\ srv' = "stopping"
      /\ UNCHANGED <<info, disk, starts, files, rm, saved, deleted>>
  BY DEF IInv, TypeOK, Object, Signal, Others
<1>1. ASSUME NEW l \in Logs
      PROVE  /\ mem'[l] \in Object /\ mem'[l].recs = mem[l].recs /\ mem'[l].syms = mem[l].syms /\ mem'[l].idx = mem[l].idx
             /\ mem'[l].pc = IF mem[l].pc = "open" THEN "closing" ELSE mem[l].pc
  <2>1. mem'[l] = IF mem[l].pc = "open" THEN [mem[l] EXCEPT !.pc = "closing"] ELSE mem[l]
    BY DEF Signal
  <2>2. mem[l] \in Object /\ "closing" \in Phases
    BY <1>0 DEF Phases, Early
  <2>3. CASE mem[l].pc = "open"
    BY <2>1, <2>2, <2>3 DEF Object
  <2>4. CASE mem[l].pc # "open"
    BY <2>1, <2>2, <2>4
  <2> QED
    BY <2>3, <2>4
<1>2. mem' \in [Logs -> Object]
  <2> DEFINE m == [l \in Logs |-> IF mem[l].pc = "open" THEN [mem[l] EXCEPT !.pc = "closing"] ELSE mem[l]]
  <2>1. mem' = m
    BY DEF Signal
  <2>2. \A l \in Logs : m[l] \in Object
    BY <1>1, <2>1
  <2> QED
    BY <2>1, <2>2
<1>3. TypeOK'
  BY <1>0, <1>2 DEF TypeOK, Object
<1>4. ServerState' /\ StartFailures'
  BY <1>0 DEF IInv, ServerState, StartFailures
<1>5. ASSUME NEW l \in Logs
      PROVE  LogInv(l)'
  <2>1. LogInv(l)
    BY DEF IInv
  <2>2. CASE mem[l].pc = "open"
    <3>1. mem'[l].pc = "closing"
      BY <1>1, <2>2
    <3>2. EarlyLog(l)'
      BY <1>0, <2>1, <2>2 DEF LogInv, EarlyLog, Exists, Early
    <3> QED
      BY <1>0, <2>1, <3>1, <3>2 DEF LogInv, WrittenInOrder, SavedLog, VisibleLog, Holds, Exists
  <2>3. CASE mem[l].pc # "open"
    <3>1. mem'[l].pc = mem[l].pc /\ mem'[l].recs = mem[l].recs /\ mem'[l].syms = mem[l].syms /\ mem'[l].idx = mem[l].idx
      BY <1>1, <2>3
    <3> QED
      BY <1>0, <2>1, <3>1 DEF LogInv, EarlyLog, WrittenInOrder, SavedLog, VisibleLog, Holds, Exists
  <2> QED
    BY <2>2, <2>3
<1> QED
  BY <1>3, <1>4, <1>5 DEF IInv

\* A DELETE request begins.
LEMMA DeleteIInv ==
  ASSUME IInv, NEW l \in Logs, Delete(l)
  PROVE  IInv'
<1>1. UNCHANGED <<info, disk, srv, starts, files, mem, saved, deleted>> /\ srv = "up" /\ rm' = [pc |-> "meta", log |-> l]
  BY DEF Delete
<1>2. TypeOK' /\ ServerState' /\ StartFailures'
  BY <1>1 DEF IInv, TypeOK, ServerState, StartFailures
<1> QED
  BY <1>1, <1>2, LogsUnchanged DEF IInv

\* Remove() takes one file away, the metadata before any other.
LEMMA RemoveIInv ==
  ASSUME IInv, Remove
  PROVE  IInv'
<1> PICK l \in Logs : l = rm.log
  BY DEF IInv, TypeOK
<1>0. /\ TypeOK /\ rm \in [pc : {"idle", "meta", "index", "raw", "func", "sym"}, log : Logs] /\ l \in Logs /\ LogInv(l)
      /\ rm.pc \in {"meta", "index", "raw", "func", "sym"} /\ (rm.pc # "meta" => l \in deleted)
      /\ srv \in {"up", "stopping"}
  <2>1. TypeOK /\ rm \in [pc : {"idle", "meta", "index", "raw", "func", "sym"}, log : Logs]
    BY DEF IInv, TypeOK
  <2> QED
    BY <2>1 DEF IInv, ServerState, Remove, Up
<1>1. UNCHANGED <<info, srv, starts, files, mem, saved>>
  BY DEF Remove
<1>2. CASE ~Exists(l, rm.pc)
  <2>1. /\ rm' \in [pc : {"idle", "meta", "index", "raw", "func", "sym"}, log : Logs] /\ rm'.pc \in {"idle", "sym"}
        /\ (rm'.pc = "sym" => rm'.log \in deleted) /\ UNCHANGED <<disk, deleted>>
    BY <1>0, <1>2 DEF Remove
  <2>2. TypeOK'
    BY <1>0, <1>1, <2>1 DEF TypeOK
  <2>3. ServerState' /\ StartFailures'
    BY <1>0, <1>1, <2>1 DEF IInv, ServerState, StartFailures
  <2> QED
    BY <1>1, <2>1, <2>2, <2>3, LogsUnchanged DEF IInv
<1>3. CASE Exists(l, rm.pc)
  <2>1. /\ rm' \in [pc : {"idle", "meta", "index", "raw", "func", "sym"}, log : Logs] /\ rm'.log = l
        /\ deleted' = deleted \cup {l} /\ SetFile(l, rm.pc, NoFile)
    BY <1>0, <1>3 DEF Remove, AfterRemove
  <2>2. rm.pc \in Kinds /\ NoFile \in Contents(rm.pc) /\ NoFile \in Int /\ rm.pc # "gor"
    BY <1>0, ContentsAre DEF Kinds, NoFile
  <2>3. /\ disk' \in [Logs -> [Kinds -> Int]] /\ (\A x \in Logs \ {l} : disk'[x] = disk[x])
        /\ disk'[l][rm.pc] = NoFile /\ (\A j \in Kinds \ {rm.pc} : disk'[l][j] = disk[l][j])
        /\ \A j \in Kinds : disk'[l][j] \in Contents(j)
    BY <1>0, <2>1, <2>2, FileSet
  <2>4. TypeOK'
    <3>1. \A x \in Logs, k \in Kinds : disk'[x][k] \in Contents(k)
      BY <1>0, <2>3 DEF TypeOK
    <3> QED
      BY <1>0, <1>1, <2>1, <2>3, <3>1 DEF TypeOK
  <2>5. ServerState' /\ StartFailures'
    BY <1>0, <1>1, <2>1 DEF IInv, ServerState, StartFailures
  <2>6. LogInv(l)'
    <3>1. /\ mem[l].pc \notin Early /\ disk[l]["gor"] # NoFile
      BY <1>0, <1>3 DEF LogInv, EarlyLog, VisibleLog, Exists
    <3>2. \A k \in Kinds : disk'[l][k] \in {NoFile, disk[l][k]}
      BY <2>3
    <3>3. disk'[l]["meta"] = NoFile
      <4>1. CASE rm.pc = "meta"
        BY <2>3, <4>1
      <4>2. CASE rm.pc # "meta"
        BY <1>0, <3>2, <4>2 DEF LogInv, VisibleLog, Exists, Kinds
      <4> QED
        BY <4>1, <4>2
    <3>4. disk'[l]["gor"] # NoFile
      BY <2>2, <2>3, <3>1 DEF Kinds
    <3>5. \A recs, syms : Holds(l, recs, syms) => /\ disk'[l]["index"] \in {NoFile, 0} /\ disk'[l]["func"] \in {NoFile, recs}
                                                  /\ disk'[l]["sym"] \in {NoFile, syms}
      BY <3>2 DEF Holds, Kinds
    <3>6. WrittenInOrder(l)'
      BY <1>0, <1>1, <2>1, <3>1, <3>5 DEF LogInv, WrittenInOrder, Holds, Early
    <3>7. SavedLog(l)'
      BY <1>0, <1>1, <2>1, <3>5 DEF LogInv, SavedLog, Holds
    <3> QED
      BY <1>1, <2>1, <3>1, <3>3, <3>4, <3>6, <3>7 DEF LogInv, EarlyLog, VisibleLog, Exists
  <2>7. ASSUME NEW x \in Logs \ {l}
        PROVE  LogInv(x)'
    BY <1>1, <2>1, <2>3, OtherLog DEF IInv
  <2> QED
    BY <2>4, <2>5, <2>6, <2>7 DEF IInv
<1> QED
  BY <1>2, <1>3

-----------------------------------------------------------------------------
(* The results                                                             *)

\* Every step keeps the invariant.
LEMMA NextIInv ==
  ASSUME IInv, [Next]_vars
  PROVE  IInv'
<1>1. CASE Start \/ WriteInfo
  BY <1>1, StartIInv
<1>2. CASE Load
  BY <1>2, LoadIInv
<1>3. CASE Signal
  BY <1>3, SignalIInv
<1>4. CASE Exit
  BY <1>4, ProcessEnds DEF Exit
<1>5. CASE Remove
  BY <1>5, RemoveIInv
<1>6. ASSUME NEW l \in Logs, Connect(l) \/ Record(l) \/ UpdateMetadata(l) \/ CreateMeta(l) \/ EncodeMeta(l) \/ Reopen(l) \/ Delete(l)
      PROVE  IInv'
  BY <1>6, ConnectIInv, RecordIInv, UpdateMetadataIInv, CreateMetaIInv, EncodeMetaIInv, ReopenIInv, DeleteIInv
<1>7. ASSUME NEW l \in Logs, SetSymbolsData(l) \/ UseIndex(l) \/ Disconnect(l) \/ EndTimestamps(l)
      PROVE  IInv'
  BY <1>7, ObjectIInv
<1>8. ASSUME NEW l \in Logs, CreateIndex(l) \/ EncodeIndex(l) \/ CreateSymbols(l) \/ FlushSymbols(l) \/ CloseStores(l)
      PROVE  IInv'
  BY <1>8, CloseFilesIInv
<1>9. CASE UNCHANGED vars
  BY <1>9, LogsUnchanged DEF vars, IInv, TypeOK, ServerState, StartFailures
<1> QED
  BY <1>1, <1>2, <1>3, <1>4, <1>5, <1>6, <1>7, <1>8, <1>9 DEF Next

\* The files of every log, its object, the histories and the state of the server stay
\* in the relation of IInv, whenever servers are killed and started again
\* (Log.Close, Log.Open, Log.Remove, Storage.Load).
THEOREM FilesInvariant == Spec => []IInv
<1>1. Init => IInv
  BY InitIInv
<1>2. IInv /\ [Next]_vars => IInv'
  BY NextIInv
<1> QED
  BY <1>1, <1>2, PTL DEF Spec

\* A log that a server shows holds what it held when Close() was complete, and a log
\* that was closed and not deleted is found by every later server.
THEOREM SavedLogsSurvive == Spec => []LogsSurviveRestarts
<1>1. IInv => LogsSurviveRestarts
  BY DEF IInv, LogsSurviveRestarts, LogInv, SavedLog, ServerState
<1> QED
  BY <1>1, FilesInvariant, PTL

\* A server that does not start met a file that was being written when an earlier one
\* ended; the worker's Open() panics only for a log from which a DELETE request has
\* removed files after Close() created its metadata file.
THEOREM EveryFailureIsExplained == Spec => []FailuresAreExplained
<1>1. IInv => FailuresAreExplained
  <2> SUFFICES ASSUME IInv PROVE FailuresAreExplained
    OBVIOUS
  <2>1. ASSUME NEW l \in Logs, mem[l].pc = "reopen", ~OpensReadOnly(l) PROVE l \in deleted
    <3>1. TypeOK /\ LogInv(l) /\ saved[l] # NoSaved
      BY <2>1 DEF IInv, LogInv, SavedLog
    <3> QED
      BY <2>1, <3>1, SavedOpens
  <2>2. ASSUME NEW l \in deleted PROVE mem[l].pc \notin Early
    BY <2>2 DEF IInv, TypeOK, LogInv, EarlyLog
  <2> QED
    BY <2>1, <2>2 DEF IInv, FailuresAreExplained
<1> QED
  BY <1>1, FilesInvariant, PTL

\* No step brings back the metadata file of a log that was deleted.
THEOREM DeletedLogsStayAway == Spec => DeletedStaysAway
<1>1. IInv' => \A l \in deleted : deleted \subseteq deleted' => (~Exists(l, "meta"))'
  BY DEF IInv, TypeOK, LogInv, VisibleLog
<1>2. IInv /\ IInv' /\ [Next]_vars => [\A l \in deleted : ~Exists(l, "meta") => disk'[l]["meta"] = NoFile]_vars
  <2> SUFFICES ASSUME IInv, IInv', Next
               PROVE  \A l \in deleted : disk'[l]["meta"] = NoFile
    OBVIOUS
  <2>1. deleted \subseteq deleted'
    BY DEF Next, Start, WriteInfo, Load, Signal, Exit, Connect, Record, SetSymbolsData, UpdateMetadata, UseIndex,
           Disconnect, EndTimestamps, CreateIndex, EncodeIndex, CreateSymbols, FlushSymbols, CloseStores, CreateMeta,
           EncodeMeta, Reopen, Delete, Remove, Others
  <2> QED
    BY <1>1, <2>1 DEF Exists
<1> QED
  BY <1>2, FilesInvariant, PTL DEF Spec, DeletedStaysAway
=============================================================================
