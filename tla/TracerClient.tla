---------------------------- MODULE TracerClient ----------------------------
(***************************************************************************)
(* The connection between a traced process and the log server:             *)
(* logger.init(), sendLog() and Close() under the logger's lock, the       *)
(* RetrySender and LogServerSender below them, protocol.Client with its    *)
(* mergeSender, its ping worker and its refresh worker, and the server's   *)
(* side of it (ServerConn.OnEvent).                                        *)
(*                                                                         *)
(* The network library is external: Send() takes a packet into a send list *)
(* of bounded length, waits while that is full and fails once the          *)
(* connection is gone; packets arrive in order; a graceful stop lets the   *)
(* list drain. Events are numbered in the order in which sendLog() gets    *)
(* the logger's lock.                                                      *)
(***************************************************************************)
EXTENDS Integers, Sequences, SequencesExt

CONSTANTS
  MaxEvents,    \* bound: events that the process emits
  MaxPings,     \* bound: pings that the ping worker sends
  MergeCap,     \* packets that fill a MergePacket (1 MiB in the code)
  SendListLen,  \* packets in the connection's send list (30 in the code)
  MaxSessions   \* bound: sessions that the sender opens

ASSUME ClientAssumption ==
  /\ MaxEvents \in Nat /\ MaxPings \in Nat
  /\ MergeCap \in Nat \ {0} /\ SendListLen \in Nat \ {0} /\ MaxSessions \in Nat \ {0}

VARIABLES
  phase,       \* where the logger is
  retrying,    \* the phase in which a send has failed: RetrySender repeats it
  nextEvent,   \* number of the next event
  initBuffer,  \* events that found no sender
  merge,       \* the MergePacket under construction
  stopped,     \* mergeSender.stopped
  ctxDone,     \* the client's worker context is cancelled
  ping, refresh,  \* the client's two workers
  pings,       \* pings sent so far
  session,     \* number of the current client, hence of its connection
  conn,        \* per session: "none", "up", "stopping", "closed" or "lost"
  sendList,    \* per session: packets under way to the server, each a sequence
  hello,       \* per session: the ServerHello is under way to the client
  compatible,  \* the two ends have the same protocol version
  srv,         \* ServerConn, per session: "accepted", "negotiated", "disconnected"
  received,    \* per session: what the server has received
  dead,        \* the traced process has panicked
  srvDead      \* the server has panicked

logVars == <<phase, retrying, nextEvent, initBuffer>>
mergeVars == <<merge, stopped>>
workVars == <<ctxDone, ping, refresh, pings>>
netVars == <<conn, sendList, hello>>
srvVars == <<compatible, srv, received, srvDead>>
vars == <<logVars, mergeVars, workVars, session, netVars, srvVars, dead>>

Sessions == 1 .. MaxSessions

(***************************************************************************)
(* "init"      before logger.init() takes the lock                         *)
(* "opening"   Open() waits for the negotiation                            *)
(* "symbols", "large", "flush"   init() sends the symbols (in two steps,   *)
(*             with mergeSender's lock in between), the buffered events    *)
(* "running"   there is a sender; the lock is free unless retrying         *)
(* "shutdown", "cancel", "wait", "stop"   inside Client.Close()            *)
(* "closed"    the sender is closed                                        *)
(***************************************************************************)
Phase == {"init", "opening", "symbols", "large", "flush", "running", "shutdown", "cancel", "wait",
          "stop", "closed"}

Event(n) == <<"event", n>>
Hello == <<"hello", 0>>
SymbolData == <<"symbols", 0>>
Ping == <<"ping", 0>>
Shutdown == <<"shutdown", 0>>
Packets == {Event(n) : n \in 1 .. MaxEvents} \cup {Hello, SymbolData, Ping, Shutdown}

TypeOK ==
  /\ phase \in Phase /\ retrying \in {"no", "symbols", "flush", "running"}
  /\ session \in Sessions
  /\ nextEvent \in 1 .. MaxEvents + 1 /\ initBuffer \in Seq(1 .. MaxEvents)
  /\ merge \in Seq(Packets) /\ Len(merge) < MergeCap /\ stopped \in BOOLEAN
  /\ ctxDone \in BOOLEAN /\ pings \in 0 .. MaxPings
  /\ ping \in {"off", "run", "done"} /\ refresh \in {"off", "run", "last", "done"}
  /\ conn \in [Sessions -> {"none", "up", "stopping", "closed", "lost"}]
  /\ sendList \in [Sessions -> Seq(Seq(Packets))]
  /\ \A s \in Sessions : Len(sendList[s]) <= SendListLen
  /\ hello \in [Sessions -> BOOLEAN] /\ compatible \in BOOLEAN
  /\ srv \in [Sessions -> {"accepted", "negotiated", "disconnected"}]
  /\ received \in [Sessions -> Seq(Packets)] /\ dead \in BOOLEAN /\ srvDead \in BOOLEAN

Init ==
  /\ phase = "init" /\ retrying = "no" /\ nextEvent = 1 /\ initBuffer = <<>>
  /\ merge = <<>> /\ stopped = FALSE
  /\ ctxDone = FALSE /\ ping = "off" /\ refresh = "off" /\ pings = 0
  /\ session = 1
  /\ conn = [s \in Sessions |-> "none"] /\ sendList = [s \in Sessions |-> <<>>]
  /\ hello = [s \in Sessions |-> FALSE]
  /\ compatible \in BOOLEAN
  /\ srv = [s \in Sessions |-> "accepted"] /\ received = [s \in Sessions |-> <<>>]
  /\ dead = FALSE /\ srvDead = FALSE

-----------------------------------------------------------------------------
(* Sending *)

Panic ==
  /\ dead' = TRUE
  /\ UNCHANGED <<logVars, mergeVars, workVars, session, netVars, srvVars>>

\* xtcp.Conn.Send(); failed: it returns an error.
ConnSend(packet, failed) ==
  /\ conn[session] = "up" => Len(sendList[session]) < SendListLen
  /\ failed = (conn[session] # "up")
  /\ sendList' = IF failed THEN sendList ELSE [sendList EXCEPT ![session] = Append(@, packet)]

\* mergeSender.sendNolock(), when it is not stopped.
MergeSend(packet, failed) ==
  LET merged == Append(merge, packet) IN
  IF Len(merged) < MergeCap
  THEN merge' = merged /\ failed = FALSE /\ UNCHANGED sendList
  ELSE merge' = <<>> /\ ConnSend(merged, failed)

\* mergeSender.refreshNolock(), when it is not stopped, and refreshLast().
SendPending(failed) ==
  IF merge = <<>> THEN failed = FALSE /\ UNCHANGED <<merge, sendList>>
  ELSE merge' = <<>> /\ ConnSend(merge, failed)

\* RetrySender.retrySend() after an attempt in the phase from: when it has
\* failed, the client is closed and opened again before the next attempt.
RetrySend(from, next, failed) ==
  /\ phase' = IF failed THEN "shutdown" ELSE next
  /\ retrying' = IF failed THEN from ELSE "no"

-----------------------------------------------------------------------------
(* logger.init() *)

\* sendLog() without a sender.
BufferEvent ==
  /\ phase = "init" \/ (phase = "closed" /\ retrying = "no")
  /\ nextEvent <= MaxEvents
  /\ initBuffer' = Append(initBuffer, nextEvent)
  /\ nextEvent' = nextEvent + 1
  /\ UNCHANGED <<phase, retrying, mergeVars, workVars, session, netVars, srvVars, dead>>

BeginInit ==
  /\ phase = "init"
  /\ phase' = "opening"
  /\ UNCHANGED <<retrying, nextEvent, initBuffer, mergeVars, workVars, session, netVars,
                 srvVars, dead>>

\* Serve() dials; the handler of EventConnected sends the ClientHello.
Dial ==
  /\ phase = "opening" /\ conn[session] = "none"
  /\ conn' = [conn EXCEPT ![session] = "up"]
  /\ sendList' = [sendList EXCEPT ![session] = <<<<Hello>>>>]
  /\ UNCHANGED <<logVars, mergeVars, workVars, session, hello, srvVars, dead>>

\* The last attempt to dial has failed (the earlier ones change nothing).
DialFails ==
  /\ phase = "opening" /\ conn[session] = "none"
  /\ Panic

\* The first packet from the server. A client of another version stops the
\* connection, but its server has done so before.
RecvServerHello ==
  /\ hello[session]
  /\ hello' = [hello EXCEPT ![session] = FALSE]
  /\ ping' = "run" /\ refresh' = "run"
  /\ phase' = IF retrying = "no" THEN "symbols" ELSE retrying
  /\ UNCHANGED <<retrying, nextEvent, initBuffer, mergeVars, ctxDone, pings, session,
                 conn, sendList, srvVars, dead>>

\* mergeSender.SendLarge(): what is pending goes first.
SendSymbols ==
  /\ phase = "symbols" /\ ~stopped
  /\ \E failed \in BOOLEAN : SendPending(failed) /\ RetrySend("symbols", "large", failed)
  /\ UNCHANGED <<nextEvent, initBuffer, stopped, workVars, session, conn, hello, srvVars,
                 dead>>

SendLarge ==
  /\ phase = "large"
  /\ \E failed \in BOOLEAN :
       ConnSend(<<SymbolData>>, failed) /\ RetrySend("symbols", "flush", failed)
  /\ UNCHANGED <<nextEvent, initBuffer, mergeVars, workVars, session, conn, hello,
                 srvVars, dead>>

SendBuffered ==
  /\ phase = "flush" /\ initBuffer # <<>> /\ ~stopped
  /\ \E failed \in BOOLEAN :
       /\ MergeSend(Event(Head(initBuffer)), failed)
       /\ RetrySend("flush", "flush", failed)
       /\ initBuffer' = IF failed THEN initBuffer ELSE Tail(initBuffer)
  /\ UNCHANGED <<nextEvent, stopped, workVars, session, conn, hello, srvVars, dead>>

\* Seeded bug of FinishInit: init() lets go of the lock before the buffer is sent.
FinishInit_Early ==
  /\ phase = "flush"
  /\ phase' = "running"
  /\ UNCHANGED <<retrying, nextEvent, initBuffer, mergeVars, workVars, session, netVars,
                 srvVars, dead>>

FinishInit ==
  /\ phase = "flush" /\ initBuffer = <<>>
  /\ phase' = "running"
  /\ UNCHANGED <<retrying, nextEvent, initBuffer, mergeVars, workVars, session, netVars,
                 srvVars, dead>>

-----------------------------------------------------------------------------
(* sendLog() and Close() *)

SendLog ==
  /\ phase = "running" /\ ~stopped
  /\ nextEvent <= MaxEvents
  /\ \E failed \in BOOLEAN :
       /\ MergeSend(Event(nextEvent), failed)
       /\ RetrySend("running", "running", failed)
       /\ nextEvent' = IF failed THEN nextEvent ELSE nextEvent + 1
  /\ UNCHANGED <<initBuffer, stopped, workVars, session, conn, hello, srvVars, dead>>

BeginClose ==
  /\ phase = "running" /\ retrying = "no"
  /\ phase' = "shutdown"
  /\ UNCHANGED <<retrying, nextEvent, initBuffer, mergeVars, workVars, session, netVars,
                 srvVars, dead>>

\* Client.Close() only remembers that its own send failed.
SendShutdown ==
  /\ phase = "shutdown" /\ ~stopped
  /\ \E failed \in BOOLEAN : MergeSend(Shutdown, failed)
  /\ phase' = "cancel"
  /\ UNCHANGED <<retrying, nextEvent, initBuffer, stopped, workVars, session, conn, hello,
                 srvVars, dead>>

\* A send after the refresh worker's last one panics.
SendStopped ==
  /\ stopped
  /\ \/ phase \in {"symbols", "shutdown"}
     \/ phase = "flush" /\ initBuffer # <<>>
     \/ phase = "running" /\ nextEvent <= MaxEvents
  /\ Panic

CancelWorkers ==
  /\ phase = "cancel"
  /\ ctxDone' = TRUE
  /\ phase' = "wait"
  /\ UNCHANGED <<retrying, nextEvent, initBuffer, mergeVars, ping, refresh, pings,
                 session, netVars, srvVars, dead>>

WaitWorkers ==
  /\ phase = "wait" /\ ping = "done" /\ refresh = "done"
  /\ phase' = "stop"
  /\ UNCHANGED <<retrying, nextEvent, initBuffer, mergeVars, workVars, session, netVars,
                 srvVars, dead>>

\* StopGracefullyAndWait hands the send list to the network. RetrySender.Close()
\* repeats a Close() that returned an error; the second one does nothing.
StopConn ==
  /\ phase = "stop"
  /\ phase' = "closed"
  /\ conn' = [conn EXCEPT ![session] = IF @ = "up" THEN "stopping" ELSE @]
  /\ UNCHANGED <<retrying, nextEvent, initBuffer, mergeVars, workVars, session, sendList,
                 hello, srvVars, dead>>

\* RetrySender opens a new client, with nothing of the old one.
Reopen ==
  /\ phase = "closed" /\ retrying # "no" /\ session < MaxSessions
  /\ phase' = "opening" /\ session' = session + 1
  /\ merge' = <<>> /\ stopped' = FALSE
  /\ ctxDone' = FALSE /\ ping' = "off" /\ refresh' = "off"
  /\ UNCHANGED <<retrying, nextEvent, initBuffer, pings, netVars, srvVars, dead>>

-----------------------------------------------------------------------------
(* The client's workers. SendLarge() keeps mergeSender's lock. *)

PingTick ==
  /\ ping = "run" /\ pings < MaxPings /\ phase # "large"
  /\ pings' = pings + 1
  /\ IF stopped
     THEN dead' = TRUE /\ UNCHANGED <<merge, sendList>>
     ELSE \E failed \in BOOLEAN : MergeSend(Ping, failed) /\ dead' = failed
  /\ UNCHANGED <<logVars, stopped, ctxDone, ping, refresh, session, conn, hello, srvVars>>

PingStops ==
  /\ ping = "run" /\ ctxDone
  /\ ping' = "done"
  /\ UNCHANGED <<logVars, mergeVars, ctxDone, refresh, pings, session, netVars, srvVars, dead>>

\* Seeded bug of RefreshTick: a packet that is alone waits for company.
RefreshTick_NotOne ==
  /\ refresh = "run" /\ Len(merge) > 1 /\ phase # "large"
  /\ \E failed \in BOOLEAN : SendPending(failed) /\ dead' = failed
  /\ UNCHANGED <<logVars, stopped, workVars, session, conn, hello, srvVars>>

RefreshTick ==
  /\ refresh = "run" /\ merge # <<>> /\ phase # "large"
  /\ \E failed \in BOOLEAN : SendPending(failed) /\ dead' = failed
  /\ UNCHANGED <<logVars, stopped, workVars, session, conn, hello, srvVars>>

\* refreshLast() sets the flag before it takes the lock.
RefreshStops ==
  /\ refresh = "run" /\ ctxDone
  /\ refresh' = "last"
  /\ stopped' = TRUE
  /\ UNCHANGED <<logVars, merge, ctxDone, ping, pings, session, netVars, srvVars, dead>>

\* Seeded bugs of RefreshLast: the worker ends without a last refresh; with an
\* empty buffer it returns before it has told the wait group.
RefreshLast_Skips ==
  /\ refresh = "last" /\ phase # "large"
  /\ refresh' = "done"
  /\ UNCHANGED <<logVars, mergeVars, ctxDone, ping, pings, session, netVars, srvVars, dead>>

RefreshLast_NotDone ==
  /\ refresh = "last" /\ merge # <<>> /\ phase # "large"
  /\ \E failed \in BOOLEAN : SendPending(failed) /\ dead' = failed
  /\ refresh' = "done"
  /\ UNCHANGED <<logVars, stopped, ctxDone, ping, pings, session, conn, hello, srvVars>>

RefreshLast ==
  /\ refresh = "last" /\ phase # "large"
  /\ \E failed \in BOOLEAN : SendPending(failed) /\ dead' = failed
  /\ refresh' = "done"
  /\ UNCHANGED <<logVars, stopped, ctxDone, ping, pings, session, conn, hello, srvVars>>

\* EventClosed at the client: no packet is received after it.
ClientClosed ==
  /\ conn[session] \in {"closed", "lost"} /\ ~ctxDone
  /\ ctxDone' = TRUE
  /\ hello' = [hello EXCEPT ![session] = FALSE]
  /\ UNCHANGED <<logVars, mergeVars, ping, refresh, pings, session, conn, sendList, srvVars, dead>>

-----------------------------------------------------------------------------
(* The server *)

Stopped(state) == IF state = "lost" THEN "lost" ELSE "closed"

\* EventRecv, one packet of a merged one at a time. A Shutdown is decoded as a
\* PingPacket (createPacket), and a ping does nothing; received keeps the two
\* apart. noticed: the ServerHello could not be sent.
ServerRecv(s, noticed) ==
  LET packet == Head(Head(sendList[s]))
      rest == Tail(Head(sendList[s]))
      left == IF rest = <<>> THEN Tail(sendList[s]) ELSE <<rest>> \o Tail(sendList[s])
      refused == srv[s] = "accepted" /\ (packet # Hello \/ ~compatible \/ noticed)
  IN
  /\ srv[s] # "disconnected" /\ sendList[s] # <<>> /\ conn[s] # "closed"
  /\ noticed => srv[s] = "accepted" /\ conn[s] = "lost"
  /\ received' = [received EXCEPT ![s] = Append(@, packet)]
  /\ IF refused
     THEN /\ conn' = [conn EXCEPT ![s] = Stopped(@)]
          /\ sendList' = [sendList EXCEPT ![s] = <<>>]
          /\ UNCHANGED <<srv, hello>>
     ELSE /\ srv' = [srv EXCEPT ![s] = "negotiated"]
          /\ hello' = [hello EXCEPT ![s] = @ \/ (srv[s] = "accepted" /\ s = session /\ ~ctxDone)]
          /\ sendList' = [sendList EXCEPT ![s] = left]
          /\ UNCHANGED conn
  /\ UNCHANGED <<logVars, mergeVars, workVars, session, compatible, srvDead, dead>>

\* EventClosed: the handler closes the connection's channel, which is nil when
\* the connection was never negotiated.
ServerClosed(s) ==
  /\ srv[s] # "disconnected"
  /\ conn[s] \in {"closed", "lost"} \/ (conn[s] = "stopping" /\ sendList[s] = <<>>)
  /\ srv' = [srv EXCEPT ![s] = "disconnected"]
  /\ conn' = [conn EXCEPT ![s] = Stopped(@)]
  /\ sendList' = [sendList EXCEPT ![s] = <<>>]
  /\ srvDead' = (srv[s] = "accepted")
  /\ UNCHANGED <<logVars, mergeVars, workVars, session, hello, compatible, received, dead>>

\* The network fails, or the server goes away.
ConnLost(s) ==
  /\ conn[s] \in {"up", "stopping"}
  /\ conn' = [conn EXCEPT ![s] = "lost"]
  /\ UNCHANGED <<logVars, mergeVars, workVars, session, sendList, hello, srvVars, dead>>

-----------------------------------------------------------------------------
OpenNext ==
  \/ BeginInit \/ Dial \/ DialFails \/ RecvServerHello \/ SendSymbols \/ SendLarge \/ SendBuffered
  \/ FinishInit \/ Reopen

CloseNext == SendShutdown \/ SendStopped \/ CancelWorkers \/ WaitWorkers \/ StopConn

ClientNext ==
  \/ OpenNext \/ CloseNext \/ BufferEvent \/ SendLog \/ BeginClose
  \/ PingTick \/ PingStops \/ RefreshTick \/ RefreshStops \/ RefreshLast \/ ClientClosed

ServerNext(s) == ServerClosed(s) \/ \E noticed \in BOOLEAN : ServerRecv(s, noticed)

Next ==
  \/ ~dead /\ ClientNext
  \/ ~srvDead /\ \E s \in Sessions : ServerNext(s)
  \/ \E s \in Sessions : ConnLost(s)

(***************************************************************************)
(* The workers, the server and a logger that has begun run when they can;  *)
(* the tickers fire; Go's select takes a case that is ready again and      *)
(* again, and its mutexes do not starve. Nothing forces the process to     *)
(* emit events or to close, nor the network to fail.                       *)
(***************************************************************************)
Fairness ==
  /\ SF_vars(~dead /\ RefreshTick) /\ WF_vars(~dead /\ RefreshStops)
  /\ SF_vars(~dead /\ RefreshLast)
  /\ WF_vars(~dead /\ PingStops) /\ WF_vars(~dead /\ ClientClosed)
  /\ SF_vars(~dead /\ OpenNext) /\ SF_vars(~dead /\ CloseNext)
  /\ \A s \in Sessions : WF_vars(~srvDead /\ ServerNext(s))

Spec == Init /\ [][Next]_vars /\ Fairness

-----------------------------------------------------------------------------
IsEvent(packet) == packet[1] = "event"

Delivered(packet) == \E s \in Sessions : Contains(received[s], packet)

UnderWay(packet) == \E s \in Sessions : \E k \in 1 .. Len(sendList[s]) : Contains(sendList[s][k], packet)

\* The events reach the server in the order in which sendLog() took them and
\* none twice, also over the sessions of a sender that had to open again; and
\* a session that follows no other leaves none out and has the symbols first,
\* also when the early events waited in initBuffer.
ReceivedInOrder ==
  /\ TypeOK
  /\ \A s, t \in Sessions : \A i \in 1 .. Len(received[s]), j \in 1 .. Len(received[t]) :
       /\ s < t \/ (s = t /\ i < j)
       /\ IsEvent(received[s][i]) /\ IsEvent(received[t][j])
       => received[s][i][2] < received[t][j][2]
  /\ \A i \in 1 .. Len(received[1]) : IsEvent(received[1][i]) =>
       \A packet \in {SymbolData} \cup {Event(n) : n \in 1 .. received[1][i][2] - 1} :
         \E j \in 1 .. i - 1 : received[1][j] = packet

\* "全てのログを送信してからプログラムを終了させる" (logger.go): after Close()
\* over a connection that did not fail, every event given to the sender has
\* arrived or is on its way, also those that were in the merge buffer.
CloseDelivers ==
  phase = "closed" /\ (\A s \in Sessions : conn[s] # "lost") =>
    \A n \in 1 .. nextEvent - 1 : Delivered(Event(n)) \/ UnderWay(Event(n)) \/ Contains(initBuffer, n)

\* "バッファに滞留してしまい、いつまでもサーバにパケットが届かなくなる問題を防ぐ"
\* (RefreshWorker): what is in the merge buffer reaches the server, unless
\* the connection is lost or a process has panicked.
MergedGetsSent ==
  \A n \in 1 .. MaxEvents :
    Contains(merge, Event(n)) ~> (Delivered(Event(n)) \/ dead \/ srvDead \/ \E s \in Sessions : conn[s] = "lost")

\* Close() returns, or the process has panicked: with the send list full, with
\* pings under way, and over a lost connection.
CloseEnds == phase = "shutdown" ~> (phase = "closed" \/ dead)

-----------------------------------------------------------------------------
(***************************************************************************)
(* The inductive invariant. The symbols, the events and the Shutdown of a  *)
(* session are the marks of its stream, numbered in the order in which     *)
(* they are to be sent; pings may be anywhere between them. The stream of  *)
(* a session is what the server has received, the send list and, for the   *)
(* current session, the merge buffer.                                      *)
(***************************************************************************)
Final == MaxEvents + 1
Mark(n) == IF n = 0 THEN SymbolData ELSE IF n = Final THEN Shutdown ELSE Event(n)
Marks(q) == {n \in 0 .. Final : Contains(q, Mark(n))}
Before(A, B) == \A a \in A, b \in B : a < b
Sorted(q) == \A i, j \in 1 .. Len(q) : \A m, n \in 0 .. Final : i < j /\ q[i] = Mark(m) /\ q[j] = Mark(n) => m < n

ListMarks(list) == UNION {Marks(list[k]) : k \in 1 .. Len(list)}
ListSorted(list) ==
  \A k \in 1 .. Len(list) :
    /\ list[k] # <<>> /\ Sorted(list[k])
    /\ \A l \in 1 .. Len(list) : k < l => Before(Marks(list[k]), Marks(list[l]))

Stream(s) == Marks(received[s]) \cup ListMarks(sendList[s])
Own(s) == IF s = session THEN Stream(s) \cup Marks(merge) ELSE Stream(s)

\* The mark that is to be sent next, when the logger is not closing.
SymbolsFirst == retrying = "symbols" \/ (retrying = "no" /\ phase \in {"init", "opening", "symbols", "large"})
Upcoming == IF SymbolsFirst THEN 0 ELSE nextEvent - Len(initBuffer)

Closing == {"cancel", "wait", "stop", "closed"}

\* The events that wait for a sender are the last ones, and all of them until the
\* symbols are sent.
LoggerInv ==
  /\ Len(initBuffer) < nextEvent
  /\ \A i \in 1 .. Len(initBuffer) : initBuffer[i] = nextEvent - 1 - Len(initBuffer) + i
  /\ SymbolsFirst => Len(initBuffer) = nextEvent - 1
  /\ phase = "running" \/ retrying = "running" => initBuffer = <<>>
  /\ phase \in {"init", "large"} => retrying = "no"
  /\ phase \in {"symbols", "flush", "running"} => retrying \in {"no", phase}
  /\ retrying = "flush" => initBuffer # <<>>

\* A client's workers run from the ServerHello on; when the last refresh is done
\* the merge buffer is empty for good.
WorkersInv ==
  /\ phase \in {"init", "opening"} => ping = "off" /\ refresh = "off" /\ merge = <<>>
  /\ phase \in {"stop", "closed"} => ping = "done" /\ refresh = "done"
  /\ refresh \in {"last", "done"} => stopped
  /\ refresh = "done" => merge = <<>>

\* How far a session is at the logger, on the wire and at the server.
SessionsInv ==
  /\ \A s \in Sessions : s > session => conn[s] = "none" /\ srv[s] = "accepted" /\ ~hello[s]
  /\ \A s \in Sessions : conn[s] = "none" => received[s] = <<>> /\ sendList[s] = <<>>
  /\ \A s \in Sessions : conn[s] = "closed" => sendList[s] = <<>>
  /\ conn[session] = "none" => phase \in {"init", "opening"}
  /\ phase = "init" => conn[session] = "none"
  /\ srv[session] = "accepted" => phase \in {"init", "opening"}
  /\ hello[session] => phase = "opening" /\ srv[session] # "accepted" /\ conn[session] \in {"up", "lost"}
  /\ conn[session] = "stopping" => phase = "closed"
  /\ conn[session] = "closed" => phase \in {"opening", "closed"}
  /\ retrying # "no" \/ session > 1 => \E s \in Sessions : conn[s] = "lost"

\* Every stream is sorted, those of later sessions continue those of earlier ones.
OrderInv ==
  /\ \A s \in Sessions :
       /\ Sorted(received[s]) /\ ListSorted(sendList[s]) /\ Before(Marks(received[s]), ListMarks(sendList[s]))
       /\ \A t \in Sessions : s < t => Before(Stream(s) \ {Final}, Own(t))
       /\ \A n \in Own(s) : n < Upcoming \/ (n = Final /\ (s = session => phase \in Closing))
  /\ Sorted(merge) /\ Before(Stream(session), Marks(merge))

\* The first session leaves nothing out, and has everything while it is not lost.
CompleteInv ==
  /\ \A n \in Stream(1) \ {Final} : 0 .. n \subseteq Stream(1)
  /\ session = 1 /\ conn[1] # "lost" => 0 .. Upcoming - 1 \subseteq Own(1)

IInv == TypeOK /\ LoggerInv /\ WorkersInv /\ SessionsInv /\ OrderInv /\ CompleteInv
=============================================================================
