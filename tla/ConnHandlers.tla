---------------------------- MODULE ConnHandlers ----------------------------
(***************************************************************************)
(* The server with several connections at once: protocol.Server, which     *)
(* makes a handler for each connection, the handlers, which share a map of *)
(* channels under one RWMutex, the workers behind the channels, and the    *)
(* end of the server: a signal stops the log server, then the API server,  *)
(* then the process.                                                       *)
(*                                                                         *)
(* The network libraries are external.  The events of one connection come  *)
(* one after the other; a connection that is stopped gets one last event,  *)
(* EventClosed; stopping the server gracefully waits for those events.     *)
(***************************************************************************)
EXTENDS Integers, FiniteSets, Sequences, SequencesExt

CONSTANTS Conns,       \* connections
          ChanCap,     \* DefaultReceiveBufferSize (128)
          MaxItems,    \* bound on the items of a connection
          MaxRequests, \* bound on the API requests that are served at a time
          NoConn

ASSUME HandlersAssumption == ChanCap \in Nat \ {0} /\ MaxItems \in Nat /\ MaxRequests \in Nat /\ NoConn \notin Conns

VARIABLES
  net,      \* per connection: "none", "up", "stopped" or "closed"
  id,       \* per connection: ConnID of its ServerConn, -1 before there is one
  nextConnID,
  neg,      \* per connection: isNegotiated
  pc,       \* per connection: where the handler of its current event is
  readers, writer, pending,  \* the RWMutex: pending has announced itself and waits for the readers
  chMap,    \* a map: per ConnID that is in it, the connection whose channel it is
  queue,    \* per connection: the items in its channel
  closed,   \* the channels that are closed
  worker,   \* per connection: "none", "run" or "ended"
  sync,     \* per connection, its tracerSyncWorker: "none", "run", "cancelled" or "ended"
  received, \* history: per connection, the number of items given to its handler
  taken,    \* history: per connection, what its worker took: connection and number
  main,     \* runServerRun: "run", "close", "stop", "wait", "exit"
  api,      \* the API server
  panicked

netVars == <<net, id, nextConnID, neg>>
lockVars == <<readers, writer, pending>>
chanVars == <<chMap, queue, closed>>
workVars == <<worker, sync, taken>>
srvVars == <<main, api>>
vars == <<netVars, pc, lockVars, chanVars, workVars, received, srvVars, panicked>>

Init ==
  /\ net = [c \in Conns |-> "none"] /\ id = [c \in Conns |-> -1] /\ nextConnID = 0
  /\ neg = [c \in Conns |-> FALSE] /\ pc = [c \in Conns |-> "ready"]
  /\ readers = {} /\ writer = NoConn /\ pending = NoConn
  /\ chMap = [i \in {} |-> NoConn]
  /\ queue = [c \in Conns |-> <<>>] /\ closed = {}
  /\ worker = [c \in Conns |-> "none"] /\ sync = [c \in Conns |-> "none"]
  /\ received = [c \in Conns |-> 0] /\ taken = [c \in Conns |-> <<>>]
  /\ main = "run" /\ panicked = FALSE
  /\ api = [serve |-> "serving", requests |-> 0, stopping |-> FALSE, cancelled |-> FALSE, sig |-> "wait"]

Alive == main # "exit" /\ ~panicked

\* A read of the map: nil for a key that is not there.
Chan(i) == IF i \in DOMAIN chMap THEN chMap[i] ELSE NoConn

Goto(c, l) == pc' = [pc EXCEPT ![c] = l]

-----------------------------------------------------------------------------
(* protocol.Server and ServerConn.OnEvent *)

\* EventAccept: getServerConn() makes the handler, under its own lock.  Seeded bug:
\* the next connection gets the same identifier.
Accept_SameID(c) ==
  /\ Alive /\ main = "run" /\ net[c] = "none"
  /\ net' = [net EXCEPT ![c] = "up"] /\ id' = [id EXCEPT ![c] = nextConnID]
  /\ UNCHANGED <<nextConnID, neg, pc, lockVars, chanVars, workVars, received, srvVars, panicked>>
Accept(c) ==
  /\ Alive /\ main = "run" /\ net[c] = "none"
  /\ net' = [net EXCEPT ![c] = "up"] /\ id' = [id EXCEPT ![c] = nextConnID]
  /\ nextConnID' = nextConnID + 1
  /\ UNCHANGED <<neg, pc, lockVars, chanVars, workVars, received, srvVars, panicked>>

\* The peer goes away, or the connection is lost.
PeerCloses(c) ==
  /\ Alive /\ net[c] = "up"
  /\ net' = [net EXCEPT ![c] = "stopped"]
  /\ UNCHANGED <<id, nextConnID, neg, pc, lockVars, chanVars, workVars, received, srvVars, panicked>>

Idle(c) == Alive /\ pc[c] = "ready" /\ net[c] \in {"up", "stopped"}

\* EventRecv of a compatible hello: Connected() makes the log and starts the
\* workers.  The ServerHello may fail when the connection is gone.
Hello(c) ==
  /\ Idle(c) /\ ~neg[c]
  /\ \/ /\ neg' = [neg EXCEPT ![c] = TRUE]
        /\ worker' = [worker EXCEPT ![c] = "run"] /\ sync' = [sync EXCEPT ![c] = "run"]
        /\ Goto(c, "connected") /\ UNCHANGED net
     \/ /\ net[c] = "stopped"
        /\ UNCHANGED <<net, neg, worker, sync, pc>>
  /\ UNCHANGED <<id, nextConnID, lockVars, chanVars, taken, received, srvVars, panicked>>

\* EventRecv of anything that is not expected: an error, and the connection is stopped.
Unexpected(c) ==
  /\ Idle(c) /\ net[c] = "up"
  /\ net' = [net EXCEPT ![c] = "stopped"]
  /\ UNCHANGED <<id, nextConnID, neg, pc, lockVars, chanVars, workVars, received, srvVars, panicked>>

\* EventRecv of symbols or of an event: Symbols(), RawFuncLog().
Item(c) ==
  /\ Idle(c) /\ neg[c] /\ received[c] < MaxItems
  /\ received' = [received EXCEPT ![c] = @ + 1]
  /\ Goto(c, "rlock")
  /\ UNCHANGED <<netVars, lockVars, chanVars, workVars, srvVars, panicked>>

\* EventClosed
Closed(c) ==
  /\ Idle(c) /\ net[c] = "stopped"
  /\ net' = [net EXCEPT ![c] = "closed"] /\ Goto(c, "disconnected")
  /\ UNCHANGED <<id, nextConnID, neg, lockVars, chanVars, workVars, received, srvVars, panicked>>

-----------------------------------------------------------------------------
(* The handlers and their RWMutex.  A writer that waits keeps out readers  *)
(* that come later; when it unlocks, those go before the next writer.      *)

RLock(c) ==
  /\ Alive /\ pc[c] = "rlock"
  /\ IF writer = NoConn /\ pending = NoConn
       THEN readers' = readers \cup {c} /\ Goto(c, "send")
       ELSE UNCHANGED readers /\ Goto(c, "rwait")
  /\ UNCHANGED <<netVars, writer, pending, chanVars, workVars, received, srvVars, panicked>>

\* The handler sends with the read lock held, however long that takes.
SendItem(c) ==
  /\ Alive /\ pc[c] = "send"
  /\ LET ch == Chan(id[c]) IN
       /\ ch # NoConn /\ Len(queue[ch]) < ChanCap
       /\ queue' = [queue EXCEPT ![ch] = Append(@, <<c, received[c]>>)]
  /\ readers' = readers \ {c} /\ Goto(c, "ready")
  /\ UNCHANGED <<netVars, writer, pending, chMap, closed, workVars, received, srvVars, panicked>>

Lock(c) ==
  /\ Alive /\ pc[c] \in {"connected", "disconnected"} /\ writer = NoConn
  /\ \/ pending = NoConn /\ pending' = c /\ UNCHANGED <<writer, pc>>
     \/ /\ pending = c /\ readers = {}
        /\ pending' = NoConn /\ writer' = c
        /\ Goto(c, IF pc[c] = "connected" THEN "register" ELSE "close")
  /\ UNCHANGED <<netVars, readers, chanVars, workVars, received, srvVars, panicked>>

\* Unlock(): the readers that wait get the lock.
Unlock(c, next) ==
  /\ writer' = NoConn
  /\ readers' = readers \cup {x \in Conns : pc[x] = "rwait"}
  /\ pc' = [x \in Conns |-> CASE x = c -> next [] x # c /\ pc[x] = "rwait" -> "send" [] OTHER -> pc[x]]

Register(c) ==
  /\ Alive /\ pc[c] = "register"
  /\ chMap' = [i \in DOMAIN chMap \cup {id[c]} |-> IF i = id[c] THEN c ELSE chMap[i]]
  /\ Unlock(c, "ready")
  /\ UNCHANGED <<netVars, pending, queue, closed, workVars, received, srvVars, panicked>>

\* Disconnected(): closing the channel of a connection that was never negotiated is
\* a panic, and so is closing one twice.  Seeded bug: the lock is not released.
CloseChannel_NoUnlock(c) ==
  /\ Alive /\ pc[c] = "close"
  /\ LET ch == Chan(id[c]) IN
       IF ch = NoConn \/ ch \in closed
         THEN panicked' = TRUE /\ UNCHANGED <<chMap, closed, lockVars, pc, sync>>
         ELSE /\ closed' = closed \cup {ch} /\ chMap' = [i \in DOMAIN chMap \ {id[c]} |-> chMap[i]]
              /\ Goto(c, "ready") /\ UNCHANGED lockVars
              /\ sync' = [sync EXCEPT ![c] = IF @ = "run" THEN "cancelled" ELSE @]
              /\ UNCHANGED panicked
  /\ UNCHANGED <<netVars, queue, worker, taken, received, srvVars>>
CloseChannel(c) ==
  /\ Alive /\ pc[c] = "close"
  /\ LET ch == Chan(id[c]) IN
       IF ch = NoConn \/ ch \in closed
         THEN panicked' = TRUE /\ UNCHANGED <<chMap, closed, lockVars, pc, sync>>
         ELSE /\ closed' = closed \cup {ch} /\ chMap' = [i \in DOMAIN chMap \ {id[c]} |-> chMap[i]]
              /\ Unlock(c, "ready") /\ UNCHANGED pending
              /\ sync' = [sync EXCEPT ![c] = IF @ = "run" THEN "cancelled" ELSE @]
              /\ UNCHANGED panicked
  /\ UNCHANGED <<netVars, queue, worker, taken, received, srvVars>>

-----------------------------------------------------------------------------
(* The workers behind the handlers *)

\* Seeded bug: the worker takes the handlers' read lock before it receives.
Take_RLock(c) ==
  /\ Alive /\ worker[c] = "run" /\ queue[c] # <<>> /\ writer = NoConn /\ pending = NoConn
  /\ taken' = [taken EXCEPT ![c] = Append(@, Head(queue[c]))]
  /\ queue' = [queue EXCEPT ![c] = Tail(@)]
  /\ UNCHANGED <<netVars, pc, lockVars, chMap, closed, worker, sync, received, srvVars, panicked>>
Take(c) ==
  /\ Alive /\ worker[c] = "run" /\ queue[c] # <<>>
  /\ taken' = [taken EXCEPT ![c] = Append(@, Head(queue[c]))]
  /\ queue' = [queue EXCEPT ![c] = Tail(@)]
  /\ UNCHANGED <<netVars, pc, lockVars, chMap, closed, worker, sync, received, srvVars, panicked>>

WorkerEnds(c) ==
  /\ Alive /\ worker[c] = "run" /\ queue[c] = <<>> /\ c \in closed
  /\ worker' = [worker EXCEPT ![c] = "ended"]
  /\ UNCHANGED <<netVars, pc, lockVars, chanVars, sync, taken, received, srvVars, panicked>>

SyncWorkerEnds(c) ==
  /\ Alive /\ sync[c] = "cancelled"
  /\ sync' = [sync EXCEPT ![c] = "ended"]
  /\ UNCHANGED <<netVars, pc, lockVars, chanVars, worker, taken, received, srvVars, panicked>>

-----------------------------------------------------------------------------
(* The end of the server *)

Rest == <<netVars, pc, lockVars, chanVars, workVars, received, panicked>>

\* SIGTERM, which runServerRun gets, and the API server's own goroutine too when it
\* waits for it just then: the log server is closed, which stops every connection.
Signal ==
  /\ Alive /\ main = "run"
  /\ main' = "close"
  /\ \E got \in {"wait", "stop"} : api' = [api EXCEPT !.sig = got]
  /\ net' = [c \in Conns |-> IF net[c] = "up" THEN "stopped" ELSE net[c]]
  /\ UNCHANGED <<id, nextConnID, neg, pc, lockVars, chanVars, workVars, received, panicked>>

\* Server.Close() and Wait() return when every connection has had its last event.
LogServerClosed ==
  /\ Alive /\ main = "close"
  /\ \A c \in Conns : net[c] \in {"none", "closed"} /\ pc[c] = "ready"
  /\ main' = "stop" /\ UNCHANGED <<api, Rest>>

\* HttpServer.Stop(): Shutdown() makes Serve() return and waits for the requests, or
\* for the context, which the next line cancels.
BeginStop == api' = [api EXCEPT !.stopping = TRUE, !.serve = IF @ = "serving" THEN "returned" ELSE @]
MayCancel == api.stopping /\ (api.requests = 0 \/ api.cancelled)

SigStops ==
  /\ Alive /\ api.sig = "stop" /\ ~api.stopping
  /\ BeginStop /\ UNCHANGED <<main, Rest>>
SigCancels ==
  /\ Alive /\ api.sig = "stop" /\ MayCancel
  /\ api' = [api EXCEPT !.cancelled = TRUE, !.sig = "ended"] /\ UNCHANGED <<main, Rest>>
MainStops ==
  /\ Alive /\ main = "stop" /\ ~api.stopping
  /\ BeginStop /\ UNCHANGED <<main, Rest>>
MainCancels ==
  /\ Alive /\ main = "stop" /\ MayCancel
  /\ main' = "wait" /\ api' = [api EXCEPT !.cancelled = TRUE] /\ UNCHANGED Rest

\* The goroutine of Serve() waits until someone takes its error.  Wait() does, and
\* the process ends, whatever the workers are doing.
ApiWait ==
  /\ Alive /\ main = "wait" /\ api.serve = "returned"
  /\ main' = "exit" /\ api' = [api EXCEPT !.serve = "ended"] /\ UNCHANGED Rest

\* Serve() can fail by itself; nobody notices before the end.
ServeFails ==
  /\ Alive /\ api.serve = "serving"
  /\ api' = [api EXCEPT !.serve = "returned"] /\ UNCHANGED <<main, Rest>>

Request ==
  /\ Alive /\ api.serve = "serving" /\ api.requests < MaxRequests
  /\ api' = [api EXCEPT !.requests = @ + 1] /\ UNCHANGED <<main, Rest>>
RequestEnds ==
  /\ Alive /\ api.requests > 0
  /\ api' = [api EXCEPT !.requests = @ - 1] /\ UNCHANGED <<main, Rest>>

-----------------------------------------------------------------------------
HandlerStep(c) == RLock(c) \/ SendItem(c) \/ Lock(c) \/ Register(c) \/ CloseChannel(c)
WorkerStep(c)  == Take(c) \/ WorkerEnds(c) \/ SyncWorkerEnds(c)
Stopping == LogServerClosed \/ SigStops \/ SigCancels \/ MainStops \/ MainCancels \/ ApiWait

Next ==
  \/ \E c \in Conns : Accept(c) \/ PeerCloses(c) \/ Hello(c) \/ Unexpected(c) \/ Item(c) \/ Closed(c) \/ HandlerStep(c) \/ WorkerStep(c)
  \/ Signal \/ Stopping \/ ServeFails \/ Request \/ RequestEnds

\* Goroutines that can go on do; a stopped connection gets its last event; a request
\* ends, since the longest wait of a handler has a timeout.
Fairness ==
  /\ \A c \in Conns : WF_vars(HandlerStep(c)) /\ WF_vars(Take(c)) /\ WF_vars(WorkerEnds(c)) /\ WF_vars(SyncWorkerEnds(c)) /\ WF_vars(Closed(c))
  /\ WF_vars(Stopping) /\ WF_vars(RequestEnds)

Spec == Init /\ [][Next]_vars /\ Fairness
-----------------------------------------------------------------------------
(* Properties *)

TypeOK ==
  /\ net \in [Conns -> {"none", "up", "stopped", "closed"}] /\ neg \in [Conns -> BOOLEAN]
  /\ id \in [Conns -> Int] /\ nextConnID \in Nat
  /\ pc \in [Conns -> {"ready", "connected", "register", "rlock", "rwait", "send", "disconnected", "close"}]
  /\ readers \subseteq Conns /\ writer \in Conns \cup {NoConn} /\ pending \in Conns \cup {NoConn}
  /\ DOMAIN chMap \subseteq Nat /\ (\A i \in DOMAIN chMap : chMap[i] \in Conns) /\ closed \subseteq Conns
  /\ queue \in [Conns -> Seq(Conns \X Nat)] /\ taken \in [Conns -> Seq(Conns \X Nat)]
  /\ worker \in [Conns -> {"none", "run", "ended"}]
  /\ received \in [Conns -> Nat] /\ \A c \in Conns : Len(queue[c]) <= ChanCap /\ received[c] <= MaxItems

OnlyUnnegotiatedPanic == panicked => \E c \in Conns : pc[c] = "close" /\ ~neg[c]

\* Every connection has its own channel: what a worker has taken and what waits in
\* its channel are the items of its own connection, all of them and in their order;
\* a handler never waits on a channel that is not there; while one changes the map
\* of the channels no other reads or changes it; and the server panics only
\* when a connection ends that was never negotiated (ServerHandlerMaker.NewConnHandler,
\* Server.getServerConn).
ConnectionsAreIsolated ==
  /\ TypeOK
  /\ \A c \in Conns :
       /\ LET seen == taken[c] \o queue[c]
          IN /\ seen = [i \in 1..Len(seen) |-> <<c, i>>]
             /\ Len(seen) = received[c] - (IF pc[c] \in {"rlock", "rwait", "send"} THEN 1 ELSE 0)
       /\ pc[c] = "send" => Chan(id[c]) = c /\ c \notin closed
       /\ worker[c] = "ended" => Len(taken[c]) = received[c]
  /\ \A c, d \in Conns : pc[c] \in {"register", "close"} => pc[d] # "send" /\ (pc[d] \in {"register", "close"} => c = d)
  /\ OnlyUnnegotiatedPanic

\* A handler returns, although it sends with the read lock held and another
\* connection's handler may be waiting for the write lock; and the workers of a
\* connection that has ended end, unless the process does.
HandlersReturn ==
  \A c \in Conns : /\ pc[c] # "ready" ~> (pc[c] = "ready" \/ ~Alive)
                   /\ (net[c] = "closed" /\ neg[c]) ~> ((worker[c] = "ended" /\ sync[c] = "ended") \/ ~Alive)

\* After a signal the process ends, whatever connections and requests there are
\* (runServerRun's deferred functions, Server.Close, HttpServer.Stop and Wait).
ShutdownCompletes == main = "close" ~> ~Alive

-----------------------------------------------------------------------------
(***************************************************************************)
(* The inductive invariant                                                 *)
(***************************************************************************)

\* ConnIDs are given once, and the map has the channel of a connection under its own.
OwnIDs ==
  /\ \A c \in Conns : /\ net[c] # "none" => id[c] \in 0..(nextConnID - 1)
                      /\ \A d \in Conns : c # d /\ net[c] # "none" /\ net[d] # "none" => id[c] # id[d]
  /\ \A i \in DOMAIN chMap : net[chMap[i]] # "none" /\ id[chMap[i]] = i /\ chMap[i] \notin closed

\* Where a handler can be in the life of its connection; between Connected() and
\* Disconnected() the channel is in the map.
Life(c) ==
  /\ pc[c] # "ready" => net[c] # "none"
  /\ pc[c] \in {"disconnected", "close"} => net[c] = "closed"
  /\ pc[c] \in {"connected", "register", "rlock", "rwait", "send"} => neg[c]
  /\ neg[c] => net[c] # "none"
  /\ c \in closed => net[c] = "closed" /\ pc[c] = "ready"
  /\ neg[c] /\ pc[c] \notin {"connected", "register"} /\ c \notin closed => id[c] \in DOMAIN chMap
  /\ worker[c] = "ended" => c \in closed /\ queue[c] = <<>>

\* What was sent and what was taken, item by item.
Items(c) ==
  /\ \A i \in 1..Len(taken[c]) : taken[c][i] = <<c, i>>
  /\ \A i \in 1..Len(queue[c]) : queue[c][i] = <<c, Len(taken[c]) + i>>
  /\ Len(taken[c]) + Len(queue[c]) = received[c] - (IF pc[c] \in {"rlock", "rwait", "send"} THEN 1 ELSE 0)

\* The RWMutex protects the map: it is changed by the one handler that has the write
\* lock, and then no handler reads it.
MapIsLocked ==
  /\ \A c \in Conns : /\ pc[c] \in {"register", "close"} <=> writer = c
                      /\ pc[c] = "send" <=> c \in readers
                      /\ pending = c => pc[c] \in {"connected", "disconnected"}
  /\ writer # NoConn => readers = {}

IInv == TypeOK /\ OwnIDs /\ (\A c \in Conns : Life(c) /\ Items(c)) /\ MapIsLocked /\ OnlyUnnegotiatedPanic
=============================================================================
