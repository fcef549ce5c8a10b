------------------------------ MODULE LogFiles ------------------------------
(***************************************************************************)
(* The files of the logs over the life of several server processes: a log  *)
(* is created when a traced process connects, written out and closed file  *)
(* by file when it disconnects, opened again for reading, perhaps deleted  *)
(* through the API, and found again by the next server.  A server can be   *)
(* killed between any two steps; its own shutdown does not wait for the    *)
(* workers that close the logs either.                                     *)
(***************************************************************************)
EXTENDS Integers, FiniteSets, Sequences

CONSTANTS Logs,       \* the identifiers that New() draws
          MaxRecords, \* bound on the calls written to a log
          MaxMeta,    \* bound on the updates of a log's metadata
          MaxStarts   \* bound on the server processes

ASSUME FilesAssumption == Logs # {} /\ MaxRecords \in Nat /\ MaxMeta \in Nat /\ MaxStarts \in Nat \ {0}

VARIABLES info,    \* info.json of the storage
          disk,    \* the files of every log
          srv,     \* the server process
          starts,  \* how many server processes were started
          files,   \* Storage.files: the logs that the server knows
          mem,     \* the Log objects
          rm,      \* a DELETE request
          saved,   \* history: what a log held when its Close() was complete
          deleted  \* history: the logs that a DELETE request has touched

vars == <<info, disk, srv, starts, files, mem, rm, saved, deleted>>

\* The contents of a file: absent, created and still empty, or a value.
NoFile == -2
Empty  == -1

Kinds == {"meta", "index", "raw", "func", "gor", "sym"}

NoLog   == [pc |-> "absent", recs |-> 0, syms |-> 0, meta |-> 0, idx |-> "nil"]
NoSaved == [recs |-> -1, syms |-> -1, meta |-> -1]

Exists(l, k) == disk[l][k] # NoFile
SetFile(l, k, v) == disk' = [disk EXCEPT ![l][k] = v]

Init ==
  /\ info = NoFile
  /\ disk = [l \in Logs |-> [k \in Kinds |-> NoFile]]
  /\ srv = "down" /\ starts = 0 /\ files = {}
  /\ mem = [l \in Logs |-> NoLog]
  /\ rm = [pc |-> "idle", log |-> CHOOSE l \in Logs : TRUE]
  /\ saved = [l \in Logs |-> NoSaved] /\ deleted = {}

-----------------------------------------------------------------------------
(* Opening.  Log.Status() looks only at which files exist, and not at the  *)
(* file of the goroutines.                                                 *)

StatusKinds == {"meta", "func", "raw", "index", "sym"}

Status(l) ==
  CASE \A k \in StatusKinds : Exists(l, k)  -> "created"
    [] \A k \in StatusKinds : ~Exists(l, k) -> "notcreated"
    [] OTHER                                -> "broken"

\* The stores, opened for reading only, need their files.
StoresOpen(l) == \A k \in {"func", "raw", "gor"} : Exists(l, k)

\* SymbolsStore.Read keeps the last value of the file and panics when there is none.
Loads(l) == disk[l]["index"] # Empty /\ disk[l]["sym"] # Empty

\* Open() of a log that is read-only.
OpensReadOnly(l) == StoresOpen(l) /\ (Status(l) = "notcreated" \/ (Status(l) = "created" /\ Loads(l)))

\* Storage.Load(): the logs whose metadata file exists.
Visible == {l \in Logs : Exists(l, "meta")}
LoadFails(l) == disk[l]["meta"] = Empty \/ ~OpensReadOnly(l)

Loaded(l) == [pc |-> "readonly", recs |-> disk[l]["func"], syms |-> disk[l]["sym"], meta |-> disk[l]["meta"], idx |-> "loaded"]

Others == <<info, starts, files, rm, saved, deleted>>

\* runServerRun: Storage.Init() with DirLayout.Init(), which checks the version of
\* the format or writes it, in two steps, and then Load().
Start ==
  /\ srv \in {"down", "failed", "panicked"} /\ starts < MaxStarts
  /\ starts' = starts + 1
  /\ info' = IF info = NoFile THEN Empty ELSE info
  /\ srv' = CASE info = NoFile -> "init" [] info = Empty -> "failed" [] OTHER -> "load"
  /\ UNCHANGED <<disk, files, mem, rm, saved, deleted>>

WriteInfo ==
  /\ srv = "init"
  /\ info' = 0 /\ srv' = "load"
  /\ UNCHANGED <<disk, starts, files, mem, rm, saved, deleted>>

\* One log that cannot be opened ends the start.
Load ==
  /\ srv = "load"
  /\ \/ /\ \E l \in Visible : LoadFails(l)
        /\ srv' = "failed"
        /\ UNCHANGED <<files, mem>>
     \/ /\ \A l \in Visible : ~LoadFails(l)
        /\ srv' = "up" /\ files' = Visible
        /\ mem' = [l \in Logs |-> IF l \in Visible THEN Loaded(l) ELSE NoLog]
  /\ UNCHANGED <<info, disk, starts, rm, saved, deleted>>

-----------------------------------------------------------------------------
(* Recording *)

\* Storage.New(): the log's files do not exist, and Open() creates those of the stores.
Connect(l) ==
  /\ srv = "up" /\ l \notin files /\ \A k \in Kinds : ~Exists(l, k)
  /\ disk' = [disk EXCEPT ![l] = [k \in Kinds |-> IF k \in {"func", "raw", "gor"} THEN 0 ELSE NoFile]]
  /\ mem' = [mem EXCEPT ![l] = [NoLog EXCEPT !.pc = "open"]]
  /\ files' = files \cup {l}
  /\ UNCHANGED <<info, srv, starts, rm, saved, deleted>>

Up(l) == srv \in {"up", "stopping"} /\ l \in files

\* A record stays in the write buffer, or all that is there goes to the file.
Record(l) ==
  /\ Up(l) /\ mem[l].pc = "open" /\ mem[l].recs < MaxRecords
  /\ mem' = [mem EXCEPT ![l].recs = @ + 1]
  /\ UNCHANGED disk \/ SetFile(l, "func", mem[l].recs + 1)
  /\ UNCHANGED <<Others, srv>>

SetSymbolsData(l) ==
  /\ Up(l) /\ mem[l].pc = "open"
  /\ mem' = [mem EXCEPT ![l].syms = 1]
  /\ UNCHANGED <<Others, disk, srv>>

\* PUT of a log: also after it was closed, when nothing writes it any more.
UpdateMetadata(l) ==
  /\ Up(l) /\ mem[l].meta < MaxMeta
  /\ mem' = [mem EXCEPT ![l].meta = @ + 1]
  /\ UNCHANGED <<Others, disk, srv>>

\* A tick of timestampUpdateWorker, or a query with bounds, asks the index for its
\* length, which makes it an empty index in memory.
UseIndex(l) ==
  /\ Up(l) /\ mem[l].pc = "open" /\ mem[l].idx = "nil"
  /\ mem' = [mem EXCEPT ![l].idx = "loaded"]
  /\ UNCHANGED <<Others, disk, srv>>

-----------------------------------------------------------------------------
(* Log.Close() and the Open() behind it, file by file.                     *)

CloseStep(l, from, to) ==
  /\ Up(l) /\ mem[l].pc = from
  /\ mem' = [mem EXCEPT ![l].pc = to]

Disconnect(l) == CloseStep(l, "open", "closing") /\ UNCHANGED <<Others, disk, srv>>

\* timestampUpdateWorker ends with one more update, which uses the index: an
\* index that nobody has used is not saved.  Seeded bug: it ends at once.
EndTimestamps_AtOnce(l) == CloseStep(l, "closing", "index") /\ UNCHANGED <<Others, disk, srv>>
EndTimestamps(l) ==
  /\ Up(l) /\ mem[l].pc = "closing"
  /\ mem' = [mem EXCEPT ![l].pc = "index", ![l].idx = "loaded"]
  /\ UNCHANGED <<Others, disk, srv>>

\* Index.Close()
CreateIndex(l) ==
  /\ CloseStep(l, "index", IF mem[l].idx = "nil" THEN "symbols" ELSE "encode index")
  /\ IF mem[l].idx = "nil" THEN UNCHANGED disk ELSE SetFile(l, "index", Empty)
  /\ UNCHANGED <<Others, srv>>

EncodeIndex(l) == CloseStep(l, "encode index", "symbols") /\ SetFile(l, "index", 0) /\ UNCHANGED <<Others, srv>>

\* SymbolsStore.Write(): the file is created, the value is written by the flush.
CreateSymbols(l) == CloseStep(l, "symbols", "flush symbols") /\ SetFile(l, "sym", Empty) /\ UNCHANGED <<Others, srv>>
FlushSymbols(l)  == CloseStep(l, "flush symbols", "stores") /\ SetFile(l, "sym", mem[l].syms) /\ UNCHANGED <<Others, srv>>

\* Seeded bug: the write buffer is not flushed.
CloseStores_NoFlush(l) == CloseStep(l, "stores", "meta") /\ UNCHANGED <<Others, disk, srv>>
CloseStores(l) == CloseStep(l, "stores", "meta") /\ SetFile(l, "func", mem[l].recs) /\ UNCHANGED <<Others, srv>>

CreateMeta(l) == CloseStep(l, "meta", "encode meta") /\ SetFile(l, "meta", Empty) /\ UNCHANGED <<Others, srv>>

\* The file may have been removed since it was opened: then nobody sees what is
\* written.  Seeded bug: the file is written by its name.
EncodeMeta_ByName(l) ==
  /\ CloseStep(l, "encode meta", "reopen")
  /\ SetFile(l, "meta", mem[l].meta)
  /\ saved' = [saved EXCEPT ![l] = [recs |-> mem[l].recs, syms |-> mem[l].syms, meta |-> mem[l].meta]]
  /\ UNCHANGED <<info, srv, starts, files, rm, deleted>>
EncodeMeta(l) ==
  /\ CloseStep(l, "encode meta", "reopen")
  /\ IF Exists(l, "meta") THEN SetFile(l, "meta", mem[l].meta) ELSE UNCHANGED disk
  /\ saved' = [saved EXCEPT ![l] = [recs |-> mem[l].recs, syms |-> mem[l].syms, meta |-> mem[l].meta]]
  /\ UNCHANGED <<info, srv, starts, files, rm, deleted>>

\* The worker's Open(): the metadata in memory stays, and a failure is a panic.
Reopen(l) ==
  /\ Up(l) /\ mem[l].pc = "reopen"
  /\ \/ /\ OpensReadOnly(l)
        /\ mem' = [mem EXCEPT ![l] = [Loaded(l) EXCEPT !.meta = mem[l].meta]]
        /\ UNCHANGED <<srv, files, rm>>
     \/ /\ ~OpensReadOnly(l)
        /\ srv' = "panicked" /\ files' = {} /\ mem' = [x \in Logs |-> NoLog] /\ rm' = [rm EXCEPT !.pc = "idle"]
  /\ UNCHANGED <<info, disk, starts, saved, deleted>>

-----------------------------------------------------------------------------
(* DELETE of a log: Remove() ends at the first file it does not find.      *)

Delete(l) ==
  /\ srv = "up" /\ l \in files /\ rm.pc = "idle"
  /\ rm' = [pc |-> "meta", log |-> l]
  /\ UNCHANGED <<info, disk, srv, starts, files, mem, saved, deleted>>

AfterRemove(k) == CASE k = "meta" -> "index" [] k = "index" -> "raw" [] k = "raw" -> "func" [] k = "func" -> "sym" [] OTHER -> "idle"

Remove ==
  /\ rm.pc # "idle" /\ Up(rm.log)
  /\ IF Exists(rm.log, rm.pc)
       THEN /\ SetFile(rm.log, rm.pc, NoFile) /\ deleted' = deleted \cup {rm.log}
            /\ rm' = [rm EXCEPT !.pc = AfterRemove(@)]
       ELSE /\ rm' = [rm EXCEPT !.pc = IF @ = "raw" THEN "sym" ELSE "idle"]
            /\ UNCHANGED <<disk, deleted>>
  /\ UNCHANGED <<info, srv, starts, files, mem, saved>>

-----------------------------------------------------------------------------
(* The end of a server.  A signal disconnects everyone; nothing waits for  *)
(* the workers.                                                            *)

Signal ==
  /\ srv = "up"
  /\ srv' = "stopping"
  /\ mem' = [l \in Logs |-> IF mem[l].pc = "open" THEN [mem[l] EXCEPT !.pc = "closing"] ELSE mem[l]]
  /\ UNCHANGED <<Others, disk>>

\* The process ends, killed or not.
Exit ==
  /\ srv \in {"init", "load", "up", "stopping"}
  /\ srv' = "down" /\ files' = {} /\ mem' = [l \in Logs |-> NoLog] /\ rm' = [rm EXCEPT !.pc = "idle"]
  /\ UNCHANGED <<info, disk, starts, saved, deleted>>

Next ==
  \/ Start \/ WriteInfo \/ Load \/ Signal \/ Exit
  \/ \E l \in Logs : \/ Connect(l) \/ Record(l) \/ SetSymbolsData(l) \/ UpdateMetadata(l) \/ UseIndex(l)
                     \/ Disconnect(l) \/ EndTimestamps(l) \/ CreateIndex(l) \/ EncodeIndex(l)
                     \/ CreateSymbols(l) \/ FlushSymbols(l) \/ CloseStores(l) \/ CreateMeta(l) \/ EncodeMeta(l)
                     \/ Reopen(l) \/ Delete(l)
  \/ Remove

Spec == Init /\ [][Next]_vars
-----------------------------------------------------------------------------
(* Properties *)

\* Where the worker of a log is: until the metadata file is created, and behind that.
Early == {"open", "closing", "index", "encode index", "symbols", "flush symbols", "stores", "meta"}
Phases == Early \cup {"absent", "encode meta", "reopen", "readonly"}

Records == 0..MaxRecords
Symbols == {0, 1}
Metas   == 0..MaxMeta

\* What a file of each kind can hold.
Contents(k) ==
  CASE k = "meta"  -> {NoFile, Empty} \cup Metas
    [] k = "index" -> {NoFile, Empty, 0}
    [] k = "func"  -> {NoFile} \cup Records
    [] k = "sym"   -> {NoFile, Empty} \cup Symbols
    [] OTHER       -> {NoFile, 0}

TypeOK ==
  /\ info \in {NoFile, Empty, 0}
  /\ disk \in [Logs -> [Kinds -> Int]] /\ \A l \in Logs, k \in Kinds : disk[l][k] \in Contents(k)
  /\ srv \in {"down", "init", "load", "up", "stopping", "failed", "panicked"}
  /\ starts \in 0..MaxStarts /\ files \subseteq Logs /\ deleted \subseteq Logs
  /\ mem \in [Logs -> [pc : Phases, recs : Records, syms : Symbols, meta : Metas, idx : {"nil", "loaded"}]]
  /\ rm \in [pc : {"idle", "meta", "index", "raw", "func", "sym"}, log : Logs]
  /\ saved \in [Logs -> [recs : Records, syms : Symbols, meta : Metas] \cup {NoSaved}]

\* A log that a server shows for reading holds what it held when Close() was
\* complete, however often servers were stopped in the middle of something; and a
\* log that was closed and not deleted is found by every later server, with the
\* metadata of that moment in its file (Log.Close, Log.Open, Storage.Load).
LogsSurviveRestarts ==
  /\ TypeOK
  /\ \A l \in Logs : mem[l].pc = "readonly" => mem[l].recs = saved[l].recs /\ mem[l].syms = saved[l].syms
  /\ \A l \in Logs \ deleted : saved[l] # NoSaved =>
       /\ disk[l]["meta"] = saved[l].meta
       /\ srv \in {"up", "stopping"} => l \in files

StartFailures == srv = "failed" => info = Empty \/ \E l \in Logs : disk[l]["meta"] = Empty

\* A server that does not start found a file that an earlier one was stopped in the
\* middle of writing, the metadata of a log or the format version, and nothing else:
\* the order of the steps of Close() and Remove() leaves no other broken log visible.
\* The worker's Open() behind Close() fails, which is a panic, only when a DELETE
\* request has removed files of this very log, and it has done so after Close()
\* created the metadata file: Close() itself leaves every file that Open() needs.
FailuresAreExplained ==
  /\ StartFailures
  /\ \A l \in Logs : mem[l].pc = "reopen" /\ ~OpensReadOnly(l) => l \in deleted
  /\ \A l \in deleted : mem[l].pc \notin Early

\* Once its metadata file is removed, a log does not become visible again, although
\* a worker may be writing that file just then.
DeletedStaysAway ==
  [][\A l \in deleted : ~Exists(l, "meta") => disk'[l]["meta"] = NoFile]_vars

-----------------------------------------------------------------------------
(***************************************************************************)
(* The inductive invariant: how far a log's files are written when its     *)
(* worker is at a step of Close(), and what is left of them once the log   *)
(* was closed, whoever removes files and whatever server is running.       *)
(***************************************************************************)

\* Behind Close(): each file is what it was written to be or is removed, and only a
\* DELETE request removes one. The file of the goroutines always stays.
Holds(l, recs, syms) ==
  /\ disk[l]["index"] \in {NoFile, 0} /\ disk[l]["func"] \in {NoFile, recs} /\ disk[l]["sym"] \in {NoFile, syms}
  /\ l \notin deleted => \A k \in Kinds : Exists(l, k)

\* A log that is being recorded or closed has not been saved, and nobody sees it yet.
EarlyLog(l) ==
  mem[l].pc \in Early => /\ saved[l] = NoSaved /\ l \notin deleted /\ ~Exists(l, "meta")
                         /\ \A k \in {"func", "raw", "gor"} : Exists(l, k)

\* Close() goes through the files in an order in which the metadata is last.
WrittenInOrder(l) ==
  /\ mem[l].pc = "index" => mem[l].idx = "loaded"
  /\ mem[l].pc \in {"symbols", "flush symbols", "stores", "meta"} => disk[l]["index"] = 0
  /\ mem[l].pc \in {"stores", "meta"} => disk[l]["sym"] = mem[l].syms
  /\ mem[l].pc = "meta" => disk[l]["func"] = mem[l].recs
  /\ mem[l].pc = "encode meta" => /\ saved[l] = NoSaved /\ Holds(l, mem[l].recs, mem[l].syms)
                                  /\ l \notin deleted => disk[l]["meta"] = Empty

\* A log that was saved keeps what it held; its object in memory agrees with it.
SavedLog(l) ==
  /\ saved[l] # NoSaved => /\ Holds(l, saved[l].recs, saved[l].syms)
                           /\ l \notin deleted => disk[l]["meta"] = saved[l].meta
  /\ mem[l].pc \in {"reopen", "readonly"} =>
       saved[l] # NoSaved /\ mem[l].recs = saved[l].recs /\ mem[l].syms = saved[l].syms

\* What is visible was saved, or its metadata file is still empty; what was deleted is
\* not visible; and the identifier of neither is used again.
VisibleLog(l) ==
  /\ Exists(l, "meta") => disk[l]["meta"] = Empty \/ saved[l] # NoSaved
  /\ l \in deleted => ~Exists(l, "meta")
  /\ (saved[l] # NoSaved \/ Exists(l, "meta") \/ l \in deleted) => Exists(l, "gor")

\* A server that does not run has nothing in memory; one that runs knows every saved
\* log; and Remove() goes on only behind the metadata file that it has removed.
ServerState ==
  /\ srv \notin {"up", "stopping"} => files = {} /\ rm.pc = "idle" /\ mem = [l \in Logs |-> NoLog]
  /\ srv \in {"up", "stopping"} => \A l \in Logs \ deleted : saved[l] # NoSaved => l \in files
  /\ rm.pc \notin {"idle", "meta"} => rm.log \in deleted

LogInv(l) == EarlyLog(l) /\ WrittenInOrder(l) /\ SavedLog(l) /\ VisibleLog(l)

IInv == TypeOK /\ ServerState /\ StartFailures /\ \A l \in Logs : LogInv(l)
=============================================================================
