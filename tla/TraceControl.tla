---------------------------- MODULE TraceControl ----------------------------
(***************************************************************************)
(* How a command reaches the traced process. `trace start` and `trace      *)
(* stop` change the set of traced functions in the log's metadata through  *)
(* the API (a read, then a conditional write with the version that was     *)
(* read, retried on conflict). Log.UpdateMetadata runs the callbacks that  *)
(* are registered with the log while it holds the log's locks: those of    *)
(* watch requests, and the one of the connection's tracerSyncWorker, which *)
(* turns the new set into packets for the process.                         *)
(*                                                                         *)
(* One log with one connection. version counts from the one that Connected *)
(* leaves behind. Names are members of Func; the list of targets is a set. *)
(***************************************************************************)
EXTENDS Integers, Sequences, FiniteSets

CONSTANTS
  Funcs,    \* names of the functions of the traced program, in the order of its symbols
  Client,   \* commands
  Command,  \* what each of them asks for
  Watcher,  \* watch requests
  Tries,    \* attempts of each command's UpdateLogInfo (10 in the code)
  IchCap, PchCap,  \* capacities of the worker's channels (10 in the code)
  WireCap,  \* packets that the connection takes before Send() blocks
  Worker,   \* the callback of tracerSyncWorker, among those of the watch requests
  NoOne

Func == {Funcs[i] : i \in DOMAIN Funcs}

ASSUME ControlAssumption ==
  /\ Funcs \in Seq(Func)
  /\ Command \in [Client -> [op : {"start", "stop"}, names : SUBSET Func]]
  /\ Tries \in [Client -> Nat \ {0}] /\ IchCap \in Nat \ {0} /\ PchCap \in Nat \ {0} /\ WireCap \in Nat \ {0}
  /\ NoOne \notin Client /\ Worker \notin Watcher

VARIABLES
  version, target,  \* Log.Version and Metadata.TraceTarget.Funcs
  holder,           \* the command that holds the locks inside Notify()
  calls,            \* the callbacks that Notify() has still to run
  symbols,          \* the log has its symbols
  connected,
  cpc, cInfo, cTries,    \* commands
  wpc, wVersion,      \* watch requests
  spc, ich, todo, pch,        \* tracerSyncWorker
  wire, flags,      \* packets under way; funcIsTracingMap of the process
  wanted,           \* history: the commands applied one after the other
  told              \* history: the set handed to the worker last, symbols known

logVars == <<version, target, holder, calls, wanted, told>>
cmdVars == <<cpc, cInfo, cTries>>
watchVars == <<wpc, wVersion>>
syncVars == <<spc, ich, todo, pch>>
procVars == <<wire, flags>>
vars == <<logVars, symbols, connected, cmdVars, watchVars, syncVars, procVars>>

Info == [version : Nat, target : SUBSET Func]
Packet == [name : Func, trace : BOOLEAN]
Idle == [target |-> {}, left |-> <<>>]
NoInfo == [version |-> 0, target |-> {}]

TypeOK ==
  /\ version \in Nat /\ target \subseteq Func /\ holder \in Client \cup {NoOne}
  /\ calls \subseteq Watcher \cup {Worker}
  /\ symbols \in BOOLEAN /\ connected \in BOOLEAN
  /\ cpc \in [Client -> {"idle", "get", "put", "notify", "done", "conflict"}]
  /\ cInfo \in [Client -> Info]
  /\ cTries \in [Client -> Nat] /\ \A c \in Client : cTries[c] <= Tries[c]
  /\ wpc \in [Watcher -> {"idle", "asked", "waiting", "leaving", "answered", "done", "noContent"}]
  /\ wVersion \in [Watcher -> Nat]
  /\ spc \in {"starting", "watching", "stopped"}
  /\ ich \in Seq(SUBSET Func) /\ Len(ich) <= IchCap
  /\ todo \in [target : SUBSET Func, left : Seq(Func)]
  /\ pch \in Seq(Packet) /\ Len(pch) <= PchCap
  /\ wire \in Seq(Packet) /\ Len(wire) <= WireCap
  /\ flags \subseteq Func
  /\ wanted \subseteq Func /\ told \subseteq Func

Init ==
  /\ version = 0 /\ target = {} /\ holder = NoOne /\ calls = {} /\ wanted = {} /\ told = {}
  /\ symbols = FALSE /\ connected = TRUE
  /\ cpc = [c \in Client |-> "idle"]
  /\ cInfo = [c \in Client |-> NoInfo]
  /\ cTries = [c \in Client |-> 0]
  /\ wpc = [w \in Watcher |-> "idle"]
  /\ wVersion = [w \in Watcher |-> 0]
  /\ spc = "starting" /\ ich = <<>> /\ todo = Idle /\ pch = <<>>
  /\ wire = <<>> /\ flags = {}

-----------------------------------------------------------------------------
(* The connection *)

SetSymbolsData ==
  /\ connected /\ ~symbols /\ holder = NoOne
  /\ symbols' = TRUE
  /\ UNCHANGED <<logVars, connected, cmdVars, watchVars, syncVars, procVars>>

\* The handler also cancels the worker's context.
Disconnected ==
  /\ connected
  /\ connected' = FALSE
  /\ UNCHANGED <<logVars, symbols, cmdVars, watchVars, syncVars, procVars>>

-----------------------------------------------------------------------------
(* A command: UpdateLogInfo of the API client *)

\* fn: what the command does to the list of targets.
Apply(command, old) ==
  IF command.op = "start" THEN old \cup command.names ELSE old \ command.names

\* `trace start` finds the names in the symbols that the server has by now.
BeginCommand(c) ==
  /\ cpc[c] = "idle"
  /\ Command[c].op = "start" /\ Command[c].names # {} => symbols
  /\ cpc' = [cpc EXCEPT ![c] = "get"]
  /\ UNCHANGED <<logVars, symbols, connected, cInfo, cTries, watchVars, syncVars, procVars>>

GetLogInfo(c) ==
  /\ cpc[c] = "get"
  /\ holder = NoOne
  /\ cpc' = [cpc EXCEPT ![c] = "put"]
  /\ cInfo' = [cInfo EXCEPT ![c] = [version |-> version, target |-> Apply(Command[c], target)]]
  /\ cTries' = [cTries EXCEPT ![c] = @ + 1]
  /\ UNCHANGED <<logVars, symbols, connected, watchVars, syncVars, procVars>>

\* UpdateLogInfo returns; what it had read is forgotten.
ReturnCommand(c, result) ==
  /\ cpc' = [cpc EXCEPT ![c] = result]
  /\ cInfo' = [cInfo EXCEPT ![c] = NoInfo]
  /\ cTries' = [cTries EXCEPT ![c] = 0]

Conflict(c) ==
  /\ cpc[c] = "put"
  /\ holder = NoOne
  /\ version # cInfo[c].version
  /\ \/ /\ cTries[c] < Tries[c]
        /\ cpc' = [cpc EXCEPT ![c] = "get"]
        /\ UNCHANGED <<cInfo, cTries>>
     \/ cTries[c] = Tries[c] /\ ReturnCommand(c, "conflict")
  /\ UNCHANGED <<logVars, symbols, connected, watchVars, syncVars, procVars>>

\* The callbacks that are registered with the log.
Registered ==
  {w \in Watcher : wpc[w] \in {"waiting", "leaving", "answered"}}
    \cup (IF spc = "watching" THEN {Worker} ELSE {})

\* Seeded bug: the version is not compared.
UpdateMetadata_Unconditional(c) ==
  /\ cpc[c] = "put" /\ holder = NoOne
  /\ version' = version + 1
  /\ target' = cInfo[c].target
  /\ wanted' = Apply(Command[c], wanted)
  /\ holder' = c
  /\ calls' = Registered
  /\ cpc' = [cpc EXCEPT ![c] = "notify"]
  /\ UNCHANGED <<told, symbols, connected, cInfo, cTries, watchVars, syncVars, procVars>>

\* Notify() then runs the callbacks in any order, with the locks held.
UpdateMetadata(c) ==
  /\ cpc[c] = "put"
  /\ holder = NoOne
  /\ version = cInfo[c].version
  /\ version' = version + 1
  /\ target' = cInfo[c].target
  /\ wanted' = Apply(Command[c], wanted)
  /\ holder' = c
  /\ calls' = Registered
  /\ cpc' = [cpc EXCEPT ![c] = "notify"]
  /\ UNCHANGED <<told, symbols, connected, cInfo, cTries, watchVars, syncVars, procVars>>

\* The callback of a watch request answers and cancels the request's context. It may be
\* run once more, or after the timeout, before the request takes the lock to unregister.
NotifyWatch(w) ==
  /\ w \in calls
  /\ calls' = calls \ {w}
  /\ wpc' = [wpc EXCEPT ![w] = IF version > wVersion[w] THEN "answered" ELSE @]
  /\ UNCHANGED <<version, target, holder, wanted, told, symbols, connected, cmdVars, wVersion,
                 syncVars, procVars>>

\* Seeded bug: an update that finds ich full is dropped.
NotifySync_Drops ==
  /\ Worker \in calls
  /\ calls' = calls \ {Worker}
  /\ ich' = IF Len(ich) < IchCap THEN Append(ich, target) ELSE ich
  /\ told' = IF symbols THEN target ELSE told
  /\ UNCHANGED <<version, target, holder, wanted, symbols, connected, cmdVars, watchVars, spc,
                 todo, pch, procVars>>

\* The callback of the worker waits for room in ich.
NotifySync ==
  /\ Worker \in calls
  /\ Len(ich) < IchCap
  /\ calls' = calls \ {Worker}
  /\ ich' = Append(ich, target)
  /\ told' = IF symbols THEN target ELSE told
  /\ UNCHANGED <<version, target, holder, wanted, symbols, connected, cmdVars, watchVars, spc,
                 todo, pch, procVars>>

\* UpdateMetadata returns and the command is done.
EndNotify(c) ==
  /\ cpc[c] = "notify"
  /\ calls = {}
  /\ holder' = NoOne
  /\ ReturnCommand(c, "done")
  /\ UNCHANGED <<version, target, calls, wanted, told, symbols, connected, watchVars, syncVars,
                 procVars>>

CommandNext(c) ==
  \/ GetLogInfo(c) \/ Conflict(c) \/ UpdateMetadata(c) \/ EndNotify(c)
  \/ cpc[c] = "notify" /\ (NotifySync \/ \E w \in Watcher : NotifyWatch(w))

-----------------------------------------------------------------------------
(* A watch request, with the version that its client knows *)

AskWatch(w) ==
  /\ wpc[w] = "idle"
  /\ holder = NoOne
  /\ wpc' = [wpc EXCEPT ![w] = "asked"]
  /\ wVersion' = [wVersion EXCEPT ![w] = version]
  /\ UNCHANGED <<logVars, symbols, connected, cmdVars, syncVars, procVars>>

MoveWatch(w, from, to) ==
  /\ wpc[w] = from
  /\ wpc' = [wpc EXCEPT ![w] = to]
  /\ UNCHANGED <<logVars, symbols, connected, cmdVars, wVersion, syncVars, procVars>>

Register(w) == holder = NoOne /\ MoveWatch(w, "asked", "waiting")

Timeout(w) == MoveWatch(w, "waiting", "leaving")

\* The request ends, with 204 when nothing was written.
Unregister(w) ==
  /\ wpc[w] \in {"leaving", "answered"} /\ holder = NoOne
  /\ wpc' = [wpc EXCEPT ![w] = IF @ = "answered" THEN "done" ELSE "noContent"]
  /\ wVersion' = [wVersion EXCEPT ![w] = 0]
  /\ UNCHANGED <<logVars, symbols, connected, cmdVars, syncVars, procVars>>

-----------------------------------------------------------------------------
(* tracerSyncWorker *)

StartWatching ==
  /\ spc = "starting" /\ holder = NoOne
  /\ spc' = "watching"
  /\ UNCHANGED <<logVars, symbols, connected, cmdVars, watchVars, ich, todo, pch, procVars>>

\* Watch() returns: the callback is unregistered and ich closed.
StopWatching ==
  /\ spc = "watching" /\ ~connected /\ holder = NoOne
  /\ spc' = "stopped"
  /\ UNCHANGED <<logVars, symbols, connected, cmdVars, watchVars, ich, todo, pch, procVars>>

TakeInfo ==
  /\ ich # <<>> /\ todo.left = <<>>
  /\ ich' = Tail(ich)
  /\ todo' = [target |-> Head(ich), left |-> IF symbols THEN Funcs ELSE <<>>]
  /\ UNCHANGED <<logVars, symbols, connected, cmdVars, watchVars, spc, pch, procVars>>

\* A packet for each function of the symbols: start it or stop it.
EmitPacket ==
  /\ todo.left # <<>> /\ Len(pch) < PchCap
  /\ pch' = Append(pch, [name |-> Head(todo.left), trace |-> Head(todo.left) \in todo.target])
  /\ todo' = [todo EXCEPT !.left = Tail(@)]
  /\ UNCHANGED <<logVars, symbols, connected, cmdVars, watchVars, spc, ich, procVars>>

\* Seeded bug: Send() waits on a connection that is gone.
SendPacket_Blocks ==
  /\ pch # <<>> /\ Len(wire) < WireCap /\ connected
  /\ pch' = Tail(pch)
  /\ wire' = Append(wire, Head(pch))
  /\ UNCHANGED <<logVars, symbols, connected, cmdVars, watchVars, spc, ich, todo, flags>>

\* Send() fails once the connection is gone; the error is only logged.
SendPacket ==
  /\ pch # <<>>
  /\ connected => Len(wire) < WireCap
  /\ pch' = Tail(pch)
  /\ wire' = IF connected THEN Append(wire, Head(pch)) ELSE wire
  /\ UNCHANGED <<logVars, symbols, connected, cmdVars, watchVars, spc, ich, todo, flags>>

SyncNext == StartWatching \/ StopWatching \/ TakeInfo \/ EmitPacket \/ SendPacket

\* The traced process: EnableTrace or DisableTrace.
RecvPacket ==
  /\ wire # <<>>
  /\ wire' = Tail(wire)
  /\ flags' = IF Head(wire).trace THEN flags \cup {Head(wire).name} ELSE flags \ {Head(wire).name}
  /\ UNCHANGED <<logVars, symbols, connected, cmdVars, watchVars, syncVars>>

-----------------------------------------------------------------------------
Next ==
  \/ SetSymbolsData
  \/ Disconnected
  \/ \E c \in Client : BeginCommand(c) \/ CommandNext(c)
  \/ \E w \in Watcher : AskWatch(w) \/ Register(w) \/ Timeout(w) \/ Unregister(w)
  \/ SyncNext
  \/ RecvPacket

(***************************************************************************)
(* The goroutines of the server run when they can; a command that has      *)
(* begun goes on; the traced process reads from its connection. Nothing    *)
(* forces commands, requests, symbols or a disconnect. A mutex that is     *)
(* free again and again is got at last (Go's mutexes hand over to a waiter *)
(* that starves), hence SF.                                                *)
(***************************************************************************)
Fairness ==
  /\ \A c \in Client : SF_vars(CommandNext(c))
  /\ SF_vars(StartWatching) /\ SF_vars(StopWatching)
  /\ WF_vars(TakeInfo) /\ WF_vars(EmitPacket) /\ WF_vars(SendPacket)
  /\ WF_vars(RecvPacket)

Spec == Init /\ [][Next]_vars /\ Fairness

-----------------------------------------------------------------------------
\* No command undoes what another one did: the metadata is the result of the
\* successful commands applied in the order of their versions, although each
\* works on a copy that may be stale by the time it is written.
NoLostUpdate == TypeOK /\ target = wanted

\* The process follows in order: when nothing is under way to it, it traces
\* what the worker was told last (never an older set), provided that the
\* connection is up and the symbols were known. The worker's callback is never
\* called after the worker has unregistered it: nothing is sent on the closed
\* channel.
ProcessInStep ==
  /\ (connected /\ ich = <<>> /\ todo.left = <<>> /\ pch = <<>> /\ wire = <<>> /\ holder = NoOne)
       => flags = told
  /\ Worker \in calls => spc = "watching"

\* Every command ends, although it holds the log's locks while it waits for the
\* worker's channels to drain into the connection. What the worker was told last
\* reaches the process; after a disconnect the worker's goroutines end, and no update
\* blocks on them. (Each command is given once, so things come to rest.)
CommandsSettle ==
  <>[](/\ \A c \in Client : cpc[c] \in {"idle", "done", "conflict"}
       /\ connected => flags = told
       /\ ~connected => (spc = "stopped" /\ ich = <<>> /\ todo.left = <<>> /\ pch = <<>>))

-----------------------------------------------------------------------------
(***************************************************************************)
(* The inductive invariant                                                 *)
(***************************************************************************)

\* A command that would still be accepted holds the result of applying it to the
\* targets as they are; one that was overtaken holds an older version.
CopiesAreFresh ==
  \A c \in Client :
    /\ cInfo[c].version <= version
    /\ cpc[c] = "put" /\ cInfo[c].version = version => cInfo[c].target = Apply(Command[c], target)
    /\ cpc[c] \in {"idle", "get"} => cTries[c] < Tries[c]

\* Before the log has its symbols no command can start anything: an update that
\* the worker drops for want of symbols says nothing new.
NothingBeforeSymbols ==
  ~symbols => /\ target = {} /\ told = {} /\ flags = {} /\ wire = <<>> /\ pch = <<>> /\ todo.left = <<>>
              /\ \A c \in Client : /\ cpc[c] # "idle" => Apply(Command[c], {}) = {}
                                   /\ cpc[c] = "put" => cInfo[c].target = {}

\* The last word of a queue of packets about a function, if it has one, is to trace
\* it just when it is in the set S.
LastIs(q, f, S) ==
  \E i \in 1..Len(q) : q[i].name = f /\ (q[i].trace <=> f \in S) /\ \A j \in 1..Len(q) : j > i => q[j].name # f
Silent(q, f) == \A i \in 1..Len(q) : q[i].name # f

\* When the packets under way have arrived, the flag of a function will be as S says.
WillBe(f, S) ==
  \/ LastIs(pch, f, S)
  \/ Silent(pch, f) /\ (LastIs(wire, f, S) \/ (Silent(wire, f) /\ (f \in flags <=> f \in S)))

\* The set that the worker was told last is the last one in its channel; when the
\* channel is empty, it is what the packets that are left to make and those that are
\* made already amount to.
LastSetWins ==
  /\ ich # <<>> => ich[Len(ich)] = told
  /\ ich = <<>> /\ todo.left # <<>> => todo.target = told
  /\ connected /\ ich = <<>> =>
       \A f \in Func : (\A i \in 1..Len(todo.left) : todo.left[i] # f) => WillBe(f, told)

\* The callbacks are run with the log's locks held.
CallsAreLocked ==
  /\ calls # {} => holder # NoOne
  /\ Worker \in calls => spc = "watching"

IInv == TypeOK /\ target = wanted /\ CopiesAreFresh /\ NothingBeforeSymbols /\ LastSetWins /\ CallsAreLocked
=============================================================================
