------------------------- MODULE ConnHandlersProofs -------------------------
(***************************************************************************)
(* What holds of the handlers for every number of connections, every       *)
(* capacity of their channels and every number of items and requests.      *)
(***************************************************************************)
EXTENDS ConnHandlers, TLAPS

\* No connection, nothing in the map and no lock held.
LEMMA InitIInv == Init => IInv
<1> SUFFICES ASSUME Init PROVE IInv
  OBVIOUS
<1>1. <<>> \in Seq(Conns \X Nat) /\ Len(<<>>) = 0
  OBVIOUS
<1>2. TypeOK
  BY <1>1, HandlersAssumption DEF Init, TypeOK
<1>3. OwnIDs
  BY DEF Init, OwnIDs
<1>4. \A c \in Conns : Life(c) /\ Items(c)
  BY <1>1 DEF Init, Life, Items
<1>5. MapIsLocked /\ OnlyUnnegotiatedPanic
  BY HandlersAssumption DEF Init, MapIsLocked, OnlyUnnegotiatedPanic
<1> QED
  BY <1>2, <1>3, <1>4, <1>5 DEF IInv

(***************************************************************************)
(* Each part of the invariant depends on a few variables only.             *)
(***************************************************************************)

\* The identifiers stay as they are when connections are only stopped or closed.
LEMMA SameIDs ==
  ASSUME IInv, UNCHANGED <<id, nextConnID, chMap, closed>>, net' \in [Conns -> {"none", "up", "stopped", "closed"}],
         \A c \in Conns : net'[c] = "none" <=> net[c] = "none"
  PROVE  OwnIDs'
BY DEF IInv, TypeOK, OwnIDs

\* The items of a connection whose handler stays on its side of the send.
LEMMA SameItems ==
  ASSUME NEW c \in Conns, Items(c), taken'[c] = taken[c], queue'[c] = queue[c], received'[c] = received[c],
         pc'[c] \in {"rlock", "rwait", "send"} <=> pc[c] \in {"rlock", "rwait", "send"}
  PROVE  Items(c)'
BY DEF Items

\* The lock, as long as no handler moves to or from a step that holds it.
LEMMA SameLock ==
  ASSUME MapIsLocked, UNCHANGED lockVars,
         \A c \in Conns : /\ pc'[c] \in {"register", "close"} <=> pc[c] \in {"register", "close"}
                          /\ pc'[c] = "send" <=> pc[c] = "send"
                          /\ pc[c] \in {"connected", "disconnected"} => pc'[c] = pc[c]
  PROVE  MapIsLocked'
BY DEF MapIsLocked, lockVars

\* A step that a running server takes is no panic.
LEMMA NoPanic ==
  ASSUME Alive, UNCHANGED panicked
  PROVE  OnlyUnnegotiatedPanic'
BY DEF Alive, OnlyUnnegotiatedPanic

\* A step of the API server, of the shutdown or of a tracerSyncWorker.
LEMMA RestUnchanged ==
  ASSUME IInv, UNCHANGED <<net, id, nextConnID, neg, pc, lockVars, chanVars, worker, taken, received, panicked>>
  PROVE  IInv'
<1> USE DEF chanVars, lockVars
<1>1. TypeOK'
  BY DEF IInv, TypeOK
<1>2. OwnIDs'
  BY DEF IInv, OwnIDs
<1>3. \A c \in Conns : Life(c)'
  BY DEF IInv, Life
<1>4. \A c \in Conns : Items(c)'
  BY SameItems DEF IInv
<1>5. MapIsLocked' /\ OnlyUnnegotiatedPanic'
  BY DEF IInv, MapIsLocked, OnlyUnnegotiatedPanic
<1> QED
  BY <1>1, <1>2, <1>3, <1>4, <1>5 DEF IInv

\* Connections are stopped, by their peers, by an unexpected packet or by a signal.
LEMMA StoppedIInv ==
  ASSUME IInv, Alive, net' \in [Conns -> {"none", "up", "stopped", "closed"}],
         \A c \in Conns : net'[c] = net[c] \/ (net[c] = "up" /\ net'[c] = "stopped"),
         UNCHANGED <<id, nextConnID, neg, pc, lockVars, chanVars, worker, taken, received, panicked>>
  PROVE  IInv'
<1> USE DEF chanVars
<1>1. TypeOK'
  BY DEF IInv, TypeOK, lockVars
<1>2. OwnIDs'
  BY SameIDs
<1>3. \A c \in Conns : Life(c)'
  BY DEF IInv, Life
<1>4. \A c \in Conns : Items(c)'
  BY SameItems DEF IInv
<1>5. MapIsLocked'
  BY SameLock DEF IInv
<1> QED
  BY <1>1, <1>2, <1>3, <1>4, <1>5, NoPanic DEF IInv

\* A connection gets an identifier that no other has.
LEMMA AcceptIInv ==
  ASSUME IInv, NEW c \in Conns, Accept(c)
  PROVE  IInv'
<1>0. /\ Alive /\ net[c] = "none" /\ net' = [net EXCEPT ![c] = "up"] /\ id' = [id EXCEPT ![c] = nextConnID]
      /\ nextConnID' = nextConnID + 1
      /\ UNCHANGED <<neg, pc, lockVars, chMap, queue, closed, worker, taken, received, panicked>>
  BY DEF Accept, chanVars, workVars
<1>1. net \in [Conns -> {"none", "up", "stopped", "closed"}] /\ id \in [Conns -> Int] /\ nextConnID \in Nat
      /\ \A i \in DOMAIN chMap : chMap[i] \in Conns
  BY DEF IInv, TypeOK
<1>2. /\ net' \in [Conns -> {"none", "up", "stopped", "closed"}] /\ id' \in [Conns -> Int] /\ nextConnID' \in Nat
      /\ net'[c] = "up" /\ id'[c] = nextConnID
      /\ \A d \in Conns \ {c} : net'[d] = net[d] /\ id'[d] = id[d]
  BY <1>0, <1>1
<1>3. TypeOK'
  BY <1>0, <1>2 DEF IInv, TypeOK, lockVars
<1>4. OwnIDs'
  <2>1. \A d \in Conns : net'[d] # "none" => id'[d] \in 0..(nextConnID' - 1)
    BY <1>0, <1>1, <1>2 DEF IInv, OwnIDs
  <2>2. \A d, e \in Conns : d # e /\ net'[d] # "none" /\ net'[e] # "none" => id'[d] # id'[e]
    BY <1>0, <1>1, <1>2 DEF IInv, OwnIDs
  <2>3. \A i \in DOMAIN chMap : net'[chMap[i]] # "none" /\ id'[chMap[i]] = i /\ chMap[i] \notin closed
    BY <1>0, <1>1, <1>2 DEF IInv, OwnIDs
  <2> QED
    BY <1>0, <2>1, <2>2, <2>3 DEF OwnIDs
<1>5. \A d \in Conns : Life(d)'
  BY <1>0, <1>2 DEF IInv, Life
<1>6. \A d \in Conns : Items(d)'
  BY <1>0, SameItems DEF IInv
<1>7. MapIsLocked'
  BY <1>0, SameLock DEF IInv
<1> QED
  BY <1>0, <1>3, <1>4, <1>5, <1>6, <1>7, NoPanic DEF IInv

-----------------------------------------------------------------------------
(* The handler of one connection                                           *)

PCs == {"ready", "connected", "register", "rlock", "rwait", "send", "disconnected", "close"}

\* A step moves the handler of one connection.
LEMMA GotoPC ==
  ASSUME TypeOK, NEW c \in Conns, NEW l \in PCs, Goto(c, l)
  PROVE  pc' \in [Conns -> PCs] /\ pc'[c] = l /\ \A d \in Conns \ {c} : pc'[d] = pc[d]
BY DEF TypeOK, Goto, PCs

\* The hello: the handler goes on to register its channel.
LEMMA HelloIInv ==
  ASSUME IInv, NEW c \in Conns, Hello(c)
  PROVE  IInv'
<1>0. /\ TypeOK /\ Alive /\ pc[c] = "ready" /\ net[c] \in {"up", "stopped"} /\ ~neg[c]
      /\ UNCHANGED <<id, nextConnID, lockVars, chMap, queue, closed, taken, received, panicked>>
  BY DEF IInv, Hello, Idle, chanVars
<1>1. CASE UNCHANGED <<net, neg, worker, sync, pc>>
  BY <1>0, <1>1, RestUnchanged DEF chanVars
<1>2. CASE /\ neg' = [neg EXCEPT ![c] = TRUE] /\ worker' = [worker EXCEPT ![c] = "run"]
           /\ Goto(c, "connected") /\ UNCHANGED net
  <2>1. pc' \in [Conns -> PCs] /\ pc'[c] = "connected" /\ \A d \in Conns \ {c} : pc'[d] = pc[d]
    BY <1>0, <1>2, GotoPC DEF PCs
  <2>2. neg' \in [Conns -> BOOLEAN] /\ neg'[c] /\ \A d \in Conns \ {c} : neg'[d] <=> neg[d]
    BY <1>0, <1>2 DEF TypeOK
  <2>3. worker' \in [Conns -> {"none", "run", "ended"}] /\ worker'[c] = "run" /\ \A d \in Conns \ {c} : worker'[d] = worker[d]
    BY <1>0, <1>2 DEF TypeOK
  <2>4. TypeOK'
    BY <1>0, <1>2, <2>1, <2>2, <2>3 DEF TypeOK, lockVars, PCs
  <2>5. OwnIDs'
    BY <1>0, <1>2 DEF IInv, OwnIDs
  <2>6. \A d \in Conns : Life(d)'
    <3>1. Life(c)'
      BY <1>0, <1>2, <2>1, <2>2, <2>3 DEF IInv, Life
    <3>2. ASSUME NEW d \in Conns \ {c}
          PROVE  Life(d)'
      BY <1>0, <1>2, <2>1, <2>2, <2>3 DEF IInv, Life
    <3> QED
      BY <3>1, <3>2
  <2>7. \A d \in Conns : Items(d)'
    BY <1>0, <2>1, SameItems DEF IInv
  <2>8. MapIsLocked'
    BY <1>0, <2>1, SameLock DEF IInv
  <2> QED
    BY <1>0, <2>4, <2>5, <2>6, <2>7, <2>8, NoPanic DEF IInv
<1> QED
  BY <1>1, <1>2 DEF Hello

\* An item arrives: the handler owes it to the channel from now on.
LEMMA ItemIInv ==
  ASSUME IInv, NEW c \in Conns, Item(c)
  PROVE  IInv'
<1>0. /\ TypeOK /\ Alive /\ pc[c] = "ready" /\ net[c] \in {"up", "stopped"} /\ neg[c] /\ received[c] < MaxItems
      /\ UNCHANGED <<net, id, nextConnID, neg, lockVars, chMap, queue, closed, worker, taken, panicked>>
      /\ received' = [received EXCEPT ![c] = received[c] + 1] /\ Goto(c, "rlock")
  BY DEF IInv, Item, Idle, chanVars, netVars, workVars
<1>1. pc' \in [Conns -> PCs] /\ pc'[c] = "rlock" /\ \A d \in Conns \ {c} : pc'[d] = pc[d]
  BY <1>0, GotoPC DEF PCs
<1>2. received \in [Conns -> Nat]
  BY <1>0 DEF TypeOK
<1>3. /\ received' \in [Conns -> Nat] /\ received'[c] = received[c] + 1 /\ (\A d \in Conns \ {c} : received'[d] = received[d])
      /\ \A d \in Conns : received'[d] <= MaxItems
  <2>1. received' = [received EXCEPT ![c] = received[c] + 1] /\ received[c] < MaxItems
    BY <1>0
  <2>2. \A d \in Conns : received[d] <= MaxItems
    BY <1>0 DEF TypeOK
  <2>3. received' \in [Conns -> Nat] /\ received'[c] = received[c] + 1 /\ (\A d \in Conns \ {c} : received'[d] = received[d])
    BY <1>2, <2>1
  <2> QED
    BY <1>2, <2>1, <2>2, <2>3, HandlersAssumption
<1>4. TypeOK'
  BY <1>0, <1>1, <1>3 DEF TypeOK, lockVars, PCs
<1>5. OwnIDs'
  BY <1>0 DEF IInv, OwnIDs
<1>6. \A d \in Conns : Life(d)'
  BY <1>0, <1>1 DEF IInv, Life
<1>7. \A d \in Conns : Items(d)'
  <2>1. Items(c)'
    <3>1. Items(c)
      BY DEF IInv
    <3>2. received'[c] - 1 = received[c]
      BY <1>2, <1>3
    <3>3. Len(taken[c]) + Len(queue[c]) = received[c] /\ received[c] \in Int
      <4>1. pc[c] = "ready"
        BY <1>0
      <4>2. Len(taken[c]) + Len(queue[c]) = received[c] - 0
        BY <3>1, <4>1 DEF Items
      <4>3. received[c] \in Int
        BY <1>2
      <4>4. received[c] - 0 = received[c]
        BY <4>3
      <4> QED
        BY <4>2, <4>3, <4>4
    <3> QED
      BY <1>0, <1>1, <3>1, <3>2, <3>3 DEF Items
  <2>2. ASSUME NEW d \in Conns \ {c}
        PROVE  Items(d)'
    BY <1>0, <1>1, <1>3, SameItems DEF IInv
  <2> QED
    BY <2>1, <2>2
<1>8. MapIsLocked'
  BY <1>0, <1>1, SameLock DEF IInv
<1> QED
  BY <1>0, <1>4, <1>5, <1>6, <1>7, <1>8, NoPanic DEF IInv

\* The last event of a connection.
LEMMA ClosedIInv ==
  ASSUME IInv, NEW c \in Conns, Closed(c)
  PROVE  IInv'
<1>0. /\ TypeOK /\ Alive /\ pc[c] = "ready" /\ net[c] = "stopped"
      /\ UNCHANGED <<id, nextConnID, neg, lockVars, chMap, queue, closed, worker, taken, received, panicked>>
      /\ net' = [net EXCEPT ![c] = "closed"] /\ Goto(c, "disconnected")
  BY DEF IInv, Closed, Idle, chanVars, workVars
<1>1. pc' \in [Conns -> PCs] /\ pc'[c] = "disconnected" /\ \A d \in Conns \ {c} : pc'[d] = pc[d]
  BY <1>0, GotoPC DEF PCs
<1>2. net' \in [Conns -> {"none", "up", "stopped", "closed"}] /\ net'[c] = "closed" /\ \A d \in Conns \ {c} : net'[d] = net[d]
  BY <1>0 DEF TypeOK
<1>4. TypeOK'
  BY <1>0, <1>1, <1>2 DEF TypeOK, lockVars, PCs
<1>5. OwnIDs'
  BY <1>0, <1>2, SameIDs
<1>6. \A d \in Conns : Life(d)'
  BY <1>0, <1>1, <1>2 DEF IInv, Life
<1>7. \A d \in Conns : Items(d)'
  BY <1>0, <1>1, SameItems DEF IInv
<1>8. MapIsLocked'
  BY <1>0, <1>1, SameLock DEF IInv
<1> QED
  BY <1>0, <1>4, <1>5, <1>6, <1>7, <1>8, NoPanic DEF IInv

\* The read lock is taken, or waited for.
LEMMA RLockIInv ==
  ASSUME IInv, NEW c \in Conns, RLock(c)
  PROVE  IInv'
<1>0. /\ TypeOK /\ MapIsLocked /\ Alive /\ pc[c] = "rlock"
      /\ UNCHANGED <<net, id, nextConnID, neg, writer, pending, chMap, queue, closed, worker, taken, received, panicked>>
  BY DEF IInv, RLock, chanVars, netVars, workVars
<1>1. /\ pc' \in [Conns -> PCs] /\ pc'[c] \in {"send", "rwait"} /\ (\A d \in Conns \ {c} : pc'[d] = pc[d])
      /\ pc'[c] = "send" => readers' = readers \cup {c} /\ writer = NoConn
      /\ pc'[c] = "rwait" => readers' = readers
  BY <1>0, GotoPC DEF RLock, PCs
<1>2. TypeOK'
  BY <1>0, <1>1 DEF TypeOK, PCs
<1>3. OwnIDs'
  BY <1>0 DEF IInv, OwnIDs
<1>4. \A d \in Conns : Life(d)'
  BY <1>0, <1>1 DEF IInv, Life
<1>5. \A d \in Conns : Items(d)'
  BY <1>0, <1>1, SameItems DEF IInv
<1>6. MapIsLocked'
  <2>1. pc[c] \notin {"register", "close", "send", "connected", "disconnected"} /\ pc'[c] \notin {"register", "close"}
    BY <1>0, <1>1
  <2>2. ASSUME NEW d \in Conns \ {c}
        PROVE  /\ pc'[d] \in {"register", "close"} <=> writer' = d
               /\ pc'[d] = "send" <=> d \in readers'
               /\ pending' = d => pc'[d] \in {"connected", "disconnected"}
    BY <1>0, <1>1 DEF MapIsLocked
  <2>3. /\ pc'[c] \in {"register", "close"} <=> writer' = c
        /\ pc'[c] = "send" <=> c \in readers'
        /\ pending' = c => pc'[c] \in {"connected", "disconnected"}
    BY <1>0, <1>1, <2>1 DEF MapIsLocked
  <2>4. writer' # NoConn => readers' = {}
    BY <1>0, <1>1 DEF MapIsLocked
  <2> QED
    BY <2>2, <2>3, <2>4 DEF MapIsLocked
<1> QED
  BY <1>0, <1>2, <1>3, <1>4, <1>5, <1>6, NoPanic DEF IInv

\* The channel that a handler finds in the map is its own.
LEMMA OwnChannel ==
  ASSUME IInv, NEW c \in Conns, id[c] \in DOMAIN chMap, net[c] # "none"
  PROVE  chMap[id[c]] = c /\ Chan(id[c]) = c /\ c \notin closed
BY DEF IInv, TypeOK, OwnIDs, Chan

\* The item goes to the end of the connection's own channel.
LEMMA SendItemIInv ==
  ASSUME IInv, NEW c \in Conns, SendItem(c)
  PROVE  IInv'
<1>0. /\ TypeOK /\ MapIsLocked /\ Alive /\ pc[c] = "send" /\ Life(c) /\ Items(c) /\ received \in [Conns -> Nat]
      /\ UNCHANGED <<net, id, nextConnID, neg, writer, pending, chMap, closed, worker, taken, received, panicked>>
      /\ readers' = readers \ {c} /\ Goto(c, "ready")
  BY DEF IInv, TypeOK, SendItem, netVars, workVars
<1>1. Chan(id[c]) = c /\ c \notin closed
  <2>1. id[c] \in DOMAIN chMap /\ net[c] # "none"
    BY <1>0 DEF Life
  <2> QED
    BY <2>1, OwnChannel
<1>2. queue \in [Conns -> Seq(Conns \X Nat)] /\ taken[c] \in Seq(Conns \X Nat) /\ <<c, received[c]>> \in Conns \X Nat
  BY <1>0 DEF TypeOK
<1>3. Len(queue[c]) < ChanCap /\ queue' = [queue EXCEPT ![c] = Append(queue[c], <<c, received[c]>>)]
  BY <1>1 DEF SendItem
<1>4. /\ queue' \in [Conns -> Seq(Conns \X Nat)] /\ queue'[c] = Append(queue[c], <<c, received[c]>>)
      /\ (\A d \in Conns \ {c} : queue'[d] = queue[d])
  BY <1>2, <1>3
<1>5. /\ Len(queue'[c]) = Len(queue[c]) + 1 /\ queue'[c][Len(queue[c]) + 1] = <<c, received[c]>>
      /\ (\A i \in 1..Len(queue[c]) : queue'[c][i] = queue[c][i]) /\ Len(queue[c]) \in Nat /\ Len(taken[c]) \in Nat
  BY <1>2, <1>4
<1>6. pc' \in [Conns -> PCs] /\ pc'[c] = "ready" /\ \A d \in Conns \ {c} : pc'[d] = pc[d]
  BY <1>0, GotoPC DEF PCs
<1>7. TypeOK'
  <2>1. \A d \in Conns : Len(queue'[d]) <= ChanCap
    BY <1>0, <1>3, <1>4, <1>5, HandlersAssumption DEF TypeOK
  <2> QED
    BY <1>0, <1>4, <1>6, <2>1 DEF TypeOK, PCs
<1>8. OwnIDs'
  BY <1>0 DEF IInv, OwnIDs
<1>9. \A d \in Conns : Life(d)'
  <2>1. Life(c)'
    BY <1>0, <1>1, <1>6 DEF Life
  <2>2. ASSUME NEW d \in Conns \ {c}
        PROVE  Life(d)'
    BY <1>0, <1>4, <1>6 DEF IInv, Life
  <2> QED
    BY <2>1, <2>2
<1>10. \A d \in Conns : Items(d)'
  <2>1. Items(c)'
    <3>1. Len(taken[c]) + Len(queue[c]) = received[c] - 1
      BY <1>0 DEF Items
    <3>2. received[c] \in Int /\ Len(taken[c]) + (Len(queue[c]) + 1) = received[c]
      <4> DEFINE a == Len(taken[c])
                 b == Len(queue[c])
                 r == received[c]
      <4>1. a \in Nat /\ b \in Nat
        BY <1>5
      <4>2. r \in Int
        BY <1>0
      <4>3. a + b = r - 1
        BY <3>1
      <4> HIDE DEF a, b, r
      <4>4. a + (b + 1) = r
        BY <4>1, <4>2, <4>3
      <4> QED
        BY <4>2, <4>4 DEF a, b, r
    <3>3. Len(taken[c]) + Len(queue'[c]) = received[c] - 0
      <4>1. Len(queue'[c]) = Len(queue[c]) + 1
        BY <1>5
      <4>2. received[c] - 0 = received[c]
        BY <3>2
      <4> QED
        BY <3>2, <4>1, <4>2
    <3>4. ASSUME NEW i \in 1..Len(queue'[c])
          PROVE  queue'[c][i] = <<c, Len(taken[c]) + i>>
      <4>1. CASE i = Len(queue[c]) + 1
        BY <1>5, <3>2, <4>1
      <4>2. CASE i # Len(queue[c]) + 1
        <5>1. i \in 1..Len(queue[c])
          BY <1>5, <3>4, <4>2
        <5> QED
          BY <1>0, <1>5, <5>1 DEF Items
      <4> QED
        BY <4>1, <4>2
    <3> QED
      BY <1>0, <1>6, <3>3, <3>4 DEF Items
  <2>2. ASSUME NEW d \in Conns \ {c}
        PROVE  Items(d)'
    BY <1>0, <1>4, <1>6, SameItems DEF IInv
  <2> QED
    BY <2>1, <2>2
<1>11. MapIsLocked'
  BY <1>0, <1>6 DEF MapIsLocked
<1> QED
  BY <1>0, <1>7, <1>8, <1>9, <1>10, <1>11, NoPanic DEF IInv

\* The write lock is announced, and taken when the readers have gone.
LEMMA LockIInv ==
  ASSUME IInv, NEW c \in Conns, Lock(c)
  PROVE  IInv'
<1>0. /\ TypeOK /\ MapIsLocked /\ Alive /\ pc[c] \in {"connected", "disconnected"} /\ writer = NoConn
      /\ UNCHANGED <<net, id, nextConnID, neg, readers, chMap, queue, closed, worker, taken, received, panicked>>
  BY DEF IInv, Lock, chanVars, netVars, workVars
<1>1. /\ pc' \in [Conns -> PCs] /\ (\A d \in Conns \ {c} : pc'[d] = pc[d])
      /\ writer' \in Conns \cup {NoConn} /\ pending' \in Conns \cup {NoConn}
      /\ \/ pc'[c] = pc[c] /\ pending' = c /\ writer' = writer
         \/ /\ pc'[c] = (IF pc[c] = "connected" THEN "register" ELSE "close")
            /\ readers = {} /\ pending' = NoConn /\ writer' = c
  <2>1. CASE pending = NoConn /\ pending' = c /\ UNCHANGED <<writer, pc>>
    BY <1>0, <2>1 DEF TypeOK, PCs
  <2>2. CASE /\ readers = {} /\ pending' = NoConn /\ writer' = c
             /\ Goto(c, IF pc[c] = "connected" THEN "register" ELSE "close")
    <3>1. (IF pc[c] = "connected" THEN "register" ELSE "close") \in PCs
      BY DEF PCs
    <3> QED
      BY <1>0, <2>2, <3>1, GotoPC
  <2> QED
    BY <2>1, <2>2 DEF Lock
<1>2. TypeOK'
  BY <1>0, <1>1 DEF TypeOK, PCs
<1>3. OwnIDs'
  BY <1>0 DEF IInv, OwnIDs
<1>4. \A d \in Conns : Life(d)'
  BY <1>0, <1>1 DEF IInv, Life
<1>5. \A d \in Conns : Items(d)'
  BY <1>0, <1>1, SameItems DEF IInv
<1>6. MapIsLocked'
  BY <1>0, <1>1, HandlersAssumption DEF MapIsLocked
<1> QED
  BY <1>0, <1>2, <1>3, <1>4, <1>5, <1>6, NoPanic DEF IInv

\* The write lock is released: the handler is done, and those that wait to read go on.
LEMMA UnlockStep ==
  ASSUME IInv, NEW c \in Conns, pc[c] \in {"register", "close"}, Unlock(c, "ready"), UNCHANGED pending
  PROVE  /\ pc' \in [Conns -> PCs] /\ pc'[c] = "ready"
         /\ (\A d \in Conns \ {c} : pc'[d] = IF pc[d] = "rwait" THEN "send" ELSE pc[d])
         /\ readers' \subseteq Conns /\ writer' = NoConn /\ MapIsLocked'
<1>0. TypeOK /\ MapIsLocked /\ writer = c
  BY DEF IInv, MapIsLocked
<1>1. pc' = [x \in Conns |-> CASE x = c -> "ready" [] x # c /\ pc[x] = "rwait" -> "send" [] OTHER -> pc[x]]
  BY DEF Unlock
<1>2. pc'[c] = "ready" /\ \A d \in Conns \ {c} : pc'[d] = IF pc[d] = "rwait" THEN "send" ELSE pc[d]
  BY <1>1
<1>3. \A d \in Conns : pc'[d] \in PCs
  BY <1>0, <1>2 DEF TypeOK, PCs
<1>4. pc' \in [Conns -> PCs]
  <2>1. DOMAIN pc' = Conns /\ pc' = [x \in Conns |-> pc'[x]]
    BY <1>1
  <2> QED
    BY <1>3, <2>1
<1>5. writer' = NoConn /\ readers' = readers \cup {x \in Conns : pc[x] = "rwait"} /\ readers = {}
  BY <1>0, HandlersAssumption DEF Unlock, MapIsLocked
<1>6. \A d \in Conns : /\ pc'[d] \in {"register", "close"} <=> writer' = d
                       /\ pc'[d] = "send" <=> d \in readers'
                       /\ pending' = d => pc'[d] \in {"connected", "disconnected"}
  <2>1. ASSUME NEW d \in Conns \ {c}
        PROVE  /\ pc'[d] \notin {"register", "close"} /\ (pc'[d] = "send" <=> d \in readers')
               /\ pending = d => pc'[d] \in {"connected", "disconnected"}
    <3>1. pc[d] \notin {"register", "close"} /\ pc[d] # "send" /\ (pending = d => pc[d] \in {"connected", "disconnected"})
      BY <1>0, <1>5 DEF MapIsLocked
    <3> QED
      BY <1>2, <1>5, <3>1
  <2>2. c \notin readers' /\ pending # c
    BY <1>0, <1>5 DEF MapIsLocked
  <2> QED
    BY <1>2, <1>5, <2>1, <2>2, HandlersAssumption
<1> QED
  BY <1>2, <1>4, <1>5, <1>6 DEF MapIsLocked, TypeOK

\* Connected() puts the channel into the map, under the identifier of its connection.
LEMMA RegisterIInv ==
  ASSUME IInv, NEW c \in Conns, Register(c)
  PROVE  IInv'
<1>0. /\ TypeOK /\ OwnIDs /\ Alive /\ pc[c] = "register" /\ Life(c) /\ net[c] # "none" /\ c \notin closed
      /\ UNCHANGED <<net, id, nextConnID, neg, pending, queue, closed, worker, taken, received, panicked>>
      /\ Unlock(c, "ready")
  BY DEF IInv, Register, netVars, workVars, Life
<1>1. /\ pc' \in [Conns -> PCs] /\ pc'[c] = "ready" /\ readers' \subseteq Conns /\ writer' = NoConn /\ MapIsLocked'
      /\ (\A d \in Conns \ {c} : pc'[d] = IF pc[d] = "rwait" THEN "send" ELSE pc[d])
  BY <1>0, UnlockStep
<1>2. /\ DOMAIN chMap' = DOMAIN chMap \cup {id[c]} /\ chMap'[id[c]] = c
      /\ \A i \in DOMAIN chMap \ {id[c]} : chMap'[i] = chMap[i]
  BY DEF Register
<1>3. id[c] \in Nat
  BY <1>0 DEF OwnIDs, TypeOK
<1>4. TypeOK'
  <2>1. DOMAIN chMap' \subseteq Nat /\ \A i \in DOMAIN chMap' : chMap'[i] \in Conns
    BY <1>0, <1>2, <1>3 DEF TypeOK
  <2> QED
    BY <1>0, <1>1, <2>1 DEF TypeOK, PCs
<1>5. OwnIDs'
  <2>1. \A i \in DOMAIN chMap' : net[chMap'[i]] # "none" /\ id[chMap'[i]] = i /\ chMap'[i] \notin closed
    BY <1>0, <1>2 DEF OwnIDs
  <2> QED
    BY <1>0, <2>1 DEF OwnIDs
<1>6. \A d \in Conns : Life(d)'
  <2>1. Life(c)'
    BY <1>0, <1>1, <1>2 DEF Life
  <2>2. ASSUME NEW d \in Conns \ {c}
        PROVE  Life(d)'
    BY <1>0, <1>1, <1>2 DEF IInv, Life
  <2> QED
    BY <2>1, <2>2
<1>7. \A d \in Conns : Items(d)'
  <2>1. \A d \in Conns : pc'[d] \in {"rlock", "rwait", "send"} <=> pc[d] \in {"rlock", "rwait", "send"}
    BY <1>0, <1>1
  <2> QED
    BY <1>0, <2>1, SameItems DEF IInv
<1> QED
  BY <1>0, <1>1, <1>4, <1>5, <1>6, <1>7, NoPanic DEF IInv

\* Disconnected(): the channel of a connection that was negotiated is in the map, and open.
LEMMA CloseChannelIInv ==
  ASSUME IInv, NEW c \in Conns, CloseChannel(c)
  PROVE  IInv'
<1>0. /\ TypeOK /\ OwnIDs /\ Alive /\ pc[c] = "close" /\ Life(c) /\ net[c] = "closed" /\ c \notin closed
      /\ UNCHANGED <<net, id, nextConnID, neg, queue, worker, taken, received>>
  BY DEF IInv, CloseChannel, netVars, Life
<1>1. CASE Chan(id[c]) = NoConn \/ Chan(id[c]) \in closed
  <2>1. panicked' = TRUE /\ UNCHANGED <<chMap, closed, lockVars, pc>>
    BY <1>1 DEF CloseChannel
  <2>2. ~neg[c]
    <3>1. id[c] \notin DOMAIN chMap
      BY <1>0, <1>1, OwnChannel, HandlersAssumption
    <3> QED
      BY <1>0, <3>1 DEF Life
  <2>3. OnlyUnnegotiatedPanic'
    <3>1. pc'[c] = "close" /\ ~neg'[c]
      BY <1>0, <2>1, <2>2
    <3> QED
      BY <3>1 DEF OnlyUnnegotiatedPanic
  <2>4. TypeOK'
    BY <1>0, <2>1 DEF TypeOK, lockVars
  <2>5. OwnIDs'
    BY <1>0, <2>1 DEF OwnIDs
  <2>6. \A d \in Conns : Life(d)'
    BY <1>0, <2>1 DEF IInv, Life
  <2>7. \A d \in Conns : Items(d)'
    BY <1>0, <2>1, SameItems DEF IInv
  <2>8. MapIsLocked'
    BY <2>1 DEF IInv, MapIsLocked, lockVars
  <2> QED
    BY <2>3, <2>4, <2>5, <2>6, <2>7, <2>8 DEF IInv
<1>2. CASE ~(Chan(id[c]) = NoConn \/ Chan(id[c]) \in closed)
  <2>1. id[c] \in DOMAIN chMap /\ Chan(id[c]) = c
    <3>1. id[c] \in DOMAIN chMap
      BY <1>2 DEF Chan
    <3> QED
      BY <1>0, <3>1, OwnChannel
  <2>2. /\ closed' = closed \cup {c} /\ chMap' = [i \in DOMAIN chMap \ {id[c]} |-> chMap[i]]
        /\ Unlock(c, "ready") /\ UNCHANGED pending /\ UNCHANGED panicked
    BY <1>2, <2>1 DEF CloseChannel
  <2>3. /\ pc' \in [Conns -> PCs] /\ pc'[c] = "ready" /\ readers' \subseteq Conns /\ writer' = NoConn /\ MapIsLocked'
        /\ (\A d \in Conns \ {c} : pc'[d] = IF pc[d] = "rwait" THEN "send" ELSE pc[d])
    BY <1>0, <2>2, UnlockStep
  <2>4. DOMAIN chMap' = DOMAIN chMap \ {id[c]} /\ \A i \in DOMAIN chMap' : chMap'[i] = chMap[i]
    BY <2>2
  <2>5. TypeOK'
    <3>1. DOMAIN chMap' \subseteq Nat /\ (\A i \in DOMAIN chMap' : chMap'[i] \in Conns) /\ closed' \subseteq Conns
      BY <1>0, <2>2, <2>4 DEF TypeOK
    <3> QED
      BY <1>0, <2>2, <2>3, <3>1 DEF TypeOK, PCs
  <2>6. OwnIDs'
    <3>1. \A i \in DOMAIN chMap' : net[chMap'[i]] # "none" /\ id[chMap'[i]] = i /\ chMap'[i] \notin closed'
      BY <1>0, <2>2, <2>4 DEF OwnIDs
    <3> QED
      BY <1>0, <3>1 DEF OwnIDs
  <2>7. \A d \in Conns : Life(d)'
    <3>1. Life(c)'
      BY <1>0, <2>2, <2>3, <2>4 DEF Life
    <3>2. ASSUME NEW d \in Conns \ {c}
          PROVE  Life(d)'
      <4>1. net[d] # "none" => id[d] # id[c]
        BY <1>0 DEF OwnIDs
      <4>2. Life(d)
        BY DEF IInv
      <4> QED
        BY <1>0, <2>2, <2>3, <2>4, <4>1, <4>2 DEF Life
    <3> QED
      BY <3>1, <3>2
  <2>8. \A d \in Conns : Items(d)'
    <3>1. \A d \in Conns : pc'[d] \in {"rlock", "rwait", "send"} <=> pc[d] \in {"rlock", "rwait", "send"}
      BY <1>0, <2>3
    <3> QED
      BY <1>0, <3>1, SameItems DEF IInv
  <2> QED
    BY <1>0, <2>2, <2>3, <2>5, <2>6, <2>7, <2>8, NoPanic DEF IInv
<1> QED
  BY <1>1, <1>2

-----------------------------------------------------------------------------
(***************************************************************************)
(* Numbered items in a channel and with its worker                         *)
(***************************************************************************)

\* The first of a sequence moves to the end of another.
LEMMA MoveFirst ==
  ASSUME NEW S, NEW q \in Seq(S), NEW t \in Seq(S), q # <<>>
  PROVE  /\ Len(q) \in Nat /\ Len(t) \in Nat /\ Len(q) >= 1
         /\ Len(Tail(q)) = Len(q) - 1 /\ Len(Append(t, Head(q))) = Len(t) + 1
         /\ \A i \in 1..(Len(q) - 1) : Tail(q)[i] = q[i + 1]
         /\ \A i \in 1..Len(t) : Append(t, Head(q))[i] = t[i]
         /\ Append(t, Head(q))[Len(t) + 1] = q[1]
OBVIOUS

\* The numbers stay in order when the worker takes the first item.
LEMMA NumberedMove ==
  ASSUME NEW S, NEW q \in Seq(S), NEW t \in Seq(S), q # <<>>, NEW c,
         \A i \in 1..Len(t) : t[i] = <<c, i>>,
         \A i \in 1..Len(q) : q[i] = <<c, Len(t) + i>>,
         NEW q1, NEW t1, q1 = Tail(q), t1 = Append(t, Head(q))
  PROVE  /\ \A i \in 1..Len(t1) : t1[i] = <<c, i>>
         /\ \A i \in 1..Len(q1) : q1[i] = <<c, Len(t1) + i>>
         /\ Len(t1) + Len(q1) = Len(t) + Len(q)
         /\ Len(q1) <= Len(q)
<1> DEFINE a == Len(q)
<1> DEFINE b == Len(t)
<1>1. /\ a \in Nat /\ b \in Nat /\ a >= 1 /\ Len(q1) = a - 1 /\ Len(t1) = b + 1
      /\ \A i \in 1..(a - 1) : q1[i] = q[i + 1]
      /\ \A i \in 1..b : t1[i] = t[i]
      /\ t1[b + 1] = q[1]
  BY MoveFirst
<1>2. (\A i \in 1..b : t[i] = <<c, i>>) /\ (\A i \in 1..a : q[i] = <<c, b + i>>)
  OBVIOUS
<1> HIDE DEF a, b
<1>3. ASSUME NEW i \in 1..(b + 1)
      PROVE  t1[i] = <<c, i>>
  <2>1. CASE i \in 1..b
    BY <1>1, <1>2, <2>1
  <2>2. CASE i = b + 1
    BY <1>1, <1>2, <2>2
  <2> QED
    BY <1>1, <2>1, <2>2
<1>4. ASSUME NEW i \in 1..(a - 1)
      PROVE  q1[i] = <<c, (b + 1) + i>>
  <2>1. i + 1 \in 1..a /\ b + (i + 1) = (b + 1) + i
    BY <1>1
  <2>2. q1[i] = q[i + 1] /\ q[i + 1] = <<c, b + (i + 1)>>
    BY <1>1, <1>2, <2>1
  <2> QED
    BY <2>1, <2>2
<1>5. (b + 1) + (a - 1) = b + a /\ a - 1 <= a
  BY <1>1
<1> QED
  BY <1>1, <1>3, <1>4, <1>5 DEF a, b

\* A sequence is the function of its elements.
LEMMA SeqIsFunction ==
  ASSUME NEW S, NEW s \in Seq(S)
  PROVE  s = [i \in 1..Len(s) |-> s[i]]
OBVIOUS

\* What the worker has taken, followed by what waits for it.
LEMMA NumberedConcat ==
  ASSUME NEW S, NEW q \in Seq(S), NEW t \in Seq(S), NEW c,
         \A i \in 1..Len(t) : t[i] = <<c, i>>,
         \A i \in 1..Len(q) : q[i] = <<c, Len(t) + i>>
  PROVE  /\ t \o q = [i \in 1..Len(t \o q) |-> <<c, i>>]
         /\ Len(t \o q) = Len(t) + Len(q)
<1> DEFINE a == Len(q)
<1> DEFINE b == Len(t)
<1> DEFINE s == t \o q
<1>1. /\ a \in Nat /\ b \in Nat /\ Len(s) = b + a
  OBVIOUS
<1>2. s \in Seq(S)
  OBVIOUS
<1>3. \A i \in 1..(b + a) : s[i] = IF i <= b THEN t[i] ELSE q[i - b]
  OBVIOUS
<1>4. (\A i \in 1..b : t[i] = <<c, i>>) /\ (\A i \in 1..a : q[i] = <<c, b + i>>)
  OBVIOUS
<1>5. s = [i \in 1..Len(s) |-> s[i]]
  BY <1>2, SeqIsFunction
<1> HIDE DEF a, b, s
<1>6. ASSUME NEW i \in 1..(b + a)
      PROVE  s[i] = <<c, i>>
  <2>1. CASE i <= b
    <3>1. i \in 1..b
      BY <1>1, <2>1
    <3> QED
      BY <1>3, <1>4, <2>1, <3>1
  <2>2. CASE ~(i <= b)
    <3>1. i - b \in 1..a /\ b + (i - b) = i
      BY <1>1, <2>2
    <3>2. s[i] = q[i - b] /\ q[i - b] = <<c, b + (i - b)>>
      BY <1>3, <1>4, <2>2, <3>1
    <3> QED
      BY <3>1, <3>2
  <2> QED
    BY <2>1, <2>2
<1>7. s = [i \in 1..Len(s) |-> <<c, i>>]
  BY <1>1, <1>5, <1>6
<1> QED
  BY <1>1, <1>7 DEF a, b, s

-----------------------------------------------------------------------------
(* The worker of one connection                                            *)

\* The worker takes the first item of its channel.
LEMMA TakeIInv ==
  ASSUME IInv, NEW c \in Conns, Take(c)
  PROVE  IInv'
<1>0. /\ TypeOK /\ Alive /\ worker[c] = "run" /\ queue[c] # <<>> /\ Items(c)
      /\ UNCHANGED <<net, id, nextConnID, neg, pc, readers, writer, pending, chMap, closed, worker, received, panicked>>
      /\ taken' = [taken EXCEPT ![c] = Append(taken[c], Head(queue[c]))]
      /\ queue' = [queue EXCEPT ![c] = Tail(queue[c])]
  BY DEF IInv, Take, netVars, lockVars
<1>1. queue \in [Conns -> Seq(Conns \X Nat)] /\ taken \in [Conns -> Seq(Conns \X Nat)]
  BY <1>0 DEF TypeOK
<1>2. /\ queue[c] \in Seq(Conns \X Nat) /\ taken[c] \in Seq(Conns \X Nat) /\ Head(queue[c]) \in Conns \X Nat
      /\ Tail(queue[c]) \in Seq(Conns \X Nat) /\ Append(taken[c], Head(queue[c])) \in Seq(Conns \X Nat)
  <2>1. queue[c] \in Seq(Conns \X Nat) /\ taken[c] \in Seq(Conns \X Nat) /\ queue[c] # <<>>
    BY <1>0, <1>1
  <2> QED
    BY <2>1
<1>3. /\ queue' \in [Conns -> Seq(Conns \X Nat)] /\ taken' \in [Conns -> Seq(Conns \X Nat)]
      /\ queue'[c] = Tail(queue[c]) /\ taken'[c] = Append(taken[c], Head(queue[c]))
      /\ \A d \in Conns \ {c} : queue'[d] = queue[d] /\ taken'[d] = taken[d]
  BY <1>0, <1>1, <1>2
<1>4. /\ \A i \in 1..Len(taken'[c]) : taken'[c][i] = <<c, i>>
      /\ \A i \in 1..Len(queue'[c]) : queue'[c][i] = <<c, Len(taken'[c]) + i>>
      /\ Len(taken'[c]) + Len(queue'[c]) = Len(taken[c]) + Len(queue[c])
      /\ Len(queue'[c]) <= Len(queue[c])
  <2>1. (\A i \in 1..Len(taken[c]) : taken[c][i] = <<c, i>>) /\ (\A i \in 1..Len(queue[c]) : queue[c][i] = <<c, Len(taken[c]) + i>>)
    BY <1>0 DEF Items
  <2>2. queue[c] # <<>>
    BY <1>0
  <2>3. queue[c] \in Seq(Conns \X Nat) /\ taken[c] \in Seq(Conns \X Nat)
    BY <1>2
  <2>4. queue'[c] = Tail(queue[c]) /\ taken'[c] = Append(taken[c], Head(queue[c]))
    BY <1>3
  <2> QED
    <3>1. PICK q, t, q1, t1 : q = queue[c] /\ t = taken[c] /\ q1 = queue'[c] /\ t1 = taken'[c]
      OBVIOUS
    <3>2. q \in Seq(Conns \X Nat) /\ t \in Seq(Conns \X Nat) /\ q # <<>> /\ q1 = Tail(q) /\ t1 = Append(t, Head(q))
      BY <2>2, <2>3, <2>4, <3>1
    <3>3. (\A i \in 1..Len(t) : t[i] = <<c, i>>) /\ (\A i \in 1..Len(q) : q[i] = <<c, Len(t) + i>>)
      BY <2>1, <3>1
    <3>4. /\ \A i \in 1..Len(t1) : t1[i] = <<c, i>>
          /\ \A i \in 1..Len(q1) : q1[i] = <<c, Len(t1) + i>>
          /\ Len(t1) + Len(q1) = Len(t) + Len(q)
          /\ Len(q1) <= Len(q)
      BY <3>2, <3>3, NumberedMove
    <3> QED
      BY <3>1, <3>4
<1>5. TypeOK'
  <2>1. \A d \in Conns : Len(queue'[d]) <= ChanCap
    <3>1. Len(queue[c]) <= ChanCap
      BY <1>0 DEF TypeOK
    <3>2. queue[c] \in Seq(Conns \X Nat) /\ queue'[c] \in Seq(Conns \X Nat)
      BY <1>2, <1>3
    <3>3. Len(queue[c]) \in Nat /\ Len(queue'[c]) \in Nat
      BY <3>2
    <3>4. Len(queue'[c]) <= Len(queue[c])
      BY <1>4
    <3>5. Len(queue'[c]) <= ChanCap
      BY <3>1, <3>3, <3>4, HandlersAssumption
    <3> QED
      BY <1>0, <1>3, <3>5 DEF TypeOK
  <2> QED
    BY <1>0, <1>3, <2>1 DEF TypeOK
<1>6. OwnIDs'
  BY <1>0 DEF IInv, OwnIDs
<1>7. \A d \in Conns : Life(d)'
  <2>1. Life(c)'
    BY <1>0 DEF IInv, Life
  <2>2. ASSUME NEW d \in Conns \ {c}
        PROVE  Life(d)'
    BY <1>0, <1>3 DEF IInv, Life
  <2> QED
    BY <2>1, <2>2
<1>8. \A d \in Conns : Items(d)'
  <2>1. Items(c)'
    <3>1. Len(taken[c]) + Len(queue[c]) = received'[c] - (IF pc'[c] \in {"rlock", "rwait", "send"} THEN 1 ELSE 0)
      BY <1>0 DEF Items
    <3> QED
      BY <1>4, <3>1 DEF Items
  <2>2. ASSUME NEW d \in Conns \ {c}
        PROVE  Items(d)'
    BY <1>0, <1>3, SameItems DEF IInv
  <2> QED
    BY <2>1, <2>2
<1>9. MapIsLocked'
  BY <1>0 DEF IInv, MapIsLocked
<1> QED
  BY <1>0, <1>5, <1>6, <1>7, <1>8, <1>9, NoPanic DEF IInv

\* The worker ends when its channel is closed and empty.
LEMMA WorkerEndsIInv ==
  ASSUME IInv, NEW c \in Conns, WorkerEnds(c)
  PROVE  IInv'
<1>0. /\ TypeOK /\ Alive /\ queue[c] = <<>> /\ c \in closed /\ worker' = [worker EXCEPT ![c] = "ended"]
      /\ UNCHANGED <<net, id, nextConnID, neg, pc, lockVars, chMap, queue, closed, taken, received, panicked>>
  BY DEF IInv, WorkerEnds, netVars, chanVars
<1>1. worker' \in [Conns -> {"none", "run", "ended"}] /\ \A d \in Conns \ {c} : worker'[d] = worker[d]
  BY <1>0 DEF TypeOK
<1>2. TypeOK'
  BY <1>0, <1>1 DEF TypeOK, lockVars
<1>3. OwnIDs'
  BY <1>0 DEF IInv, OwnIDs
<1>4. \A d \in Conns : Life(d)'
  BY <1>0, <1>1 DEF IInv, Life
<1>5. \A d \in Conns : Items(d)'
  BY <1>0, SameItems DEF IInv
<1>6. MapIsLocked'
  BY <1>0, SameLock DEF IInv
<1> QED
  BY <1>0, <1>2, <1>3, <1>4, <1>5, <1>6, NoPanic DEF IInv

-----------------------------------------------------------------------------
(* The results                                                             *)

\* Every step keeps the invariant.
LEMMA NextIInv ==
  ASSUME IInv, [Next]_vars
  PROVE  IInv'
<1>1. ASSUME NEW c \in Conns, PeerCloses(c) \/ Unexpected(c)
      PROVE  IInv'
  <2>1. /\ Alive /\ net[c] = "up" /\ net' = [net EXCEPT ![c] = "stopped"]
        /\ UNCHANGED <<id, nextConnID, neg, pc, lockVars, chanVars, worker, taken, received, panicked>>
    BY <1>1 DEF PeerCloses, Unexpected, Idle, workVars
  <2>2. net' \in [Conns -> {"none", "up", "stopped", "closed"}] /\ \A d \in Conns : net'[d] = net[d] \/ (net[d] = "up" /\ net'[d] = "stopped")
    BY <2>1 DEF IInv, TypeOK
  <2> QED
    BY <2>1, <2>2, StoppedIInv
<1>2. CASE Signal
  <2>1. /\ Alive /\ net' = [c \in Conns |-> IF net[c] = "up" THEN "stopped" ELSE net[c]]
        /\ UNCHANGED <<id, nextConnID, neg, pc, lockVars, chanVars, worker, taken, received, panicked>>
    BY <1>2 DEF Signal, workVars
  <2>2. net' \in [Conns -> {"none", "up", "stopped", "closed"}] /\ \A d \in Conns : net'[d] = net[d] \/ (net[d] = "up" /\ net'[d] = "stopped")
    BY <2>1 DEF IInv, TypeOK
  <2> QED
    BY <2>1, <2>2, StoppedIInv
<1>3. ASSUME NEW c \in Conns, Accept(c) \/ Hello(c) \/ Item(c) \/ Closed(c) \/ HandlerStep(c)
      PROVE  IInv'
  BY <1>3, AcceptIInv, HelloIInv, ItemIInv, ClosedIInv, RLockIInv, SendItemIInv, LockIInv, RegisterIInv, CloseChannelIInv DEF HandlerStep
<1>4. ASSUME NEW c \in Conns, WorkerStep(c)
      PROVE  IInv'
  <2>1. CASE SyncWorkerEnds(c)
    BY <2>1, RestUnchanged DEF SyncWorkerEnds, netVars
  <2> QED
    BY <1>4, <2>1, TakeIInv, WorkerEndsIInv DEF WorkerStep
<1>5. CASE Stopping \/ ServeFails \/ Request \/ RequestEnds
  BY <1>5, RestUnchanged DEF Stopping, LogServerClosed, SigStops, SigCancels, MainStops, MainCancels, ApiWait, ServeFails, Request, RequestEnds,
                             Rest, netVars, workVars
<1>6. CASE UNCHANGED vars
  BY <1>6, RestUnchanged DEF vars, netVars, workVars
<1> QED
  BY <1>1, <1>2, <1>3, <1>4, <1>5, <1>6 DEF Next

\* Identifiers, the map of the channels, its lock, the channels and their workers stay
\* in the relation of IInv, whatever the connections do at the same time.
THEOREM HandlersInvariant == Spec => []IInv
<1>1. Init => IInv
  BY InitIInv
<1>2. IInv /\ [Next]_vars => IInv'
  BY NextIInv
<1> QED
  BY <1>1, <1>2, PTL DEF Spec

\* Items never reach the channel or the worker of another connection, none is lost or
\* reordered, the map is not raced for, and only a connection that was never negotiated
\* makes the server panic (ServerHandlerMaker.NewConnHandler, Server.getServerConn).
THEOREM ConnectionsStayApart == Spec => []ConnectionsAreIsolated
<1>1. IInv => ConnectionsAreIsolated
  <2> SUFFICES ASSUME IInv PROVE ConnectionsAreIsolated
    OBVIOUS
  <2>1. ASSUME NEW c \in Conns
        PROVE  LET seen == taken[c] \o queue[c]
               IN /\ seen = [i \in 1..Len(seen) |-> <<c, i>>]
                  /\ Len(seen) = received[c] - (IF pc[c] \in {"rlock", "rwait", "send"} THEN 1 ELSE 0)
    <3>1. taken[c] \in Seq(Conns \X Nat) /\ queue[c] \in Seq(Conns \X Nat)
      BY DEF IInv, TypeOK
    <3>2. Items(c)
      BY DEF IInv
    <3>3. (\A i \in 1..Len(taken[c]) : taken[c][i] = <<c, i>>) /\ (\A i \in 1..Len(queue[c]) : queue[c][i] = <<c, Len(taken[c]) + i>>)
      BY <3>2 DEF Items
    <3>4. /\ taken[c] \o queue[c] = [i \in 1..Len(taken[c] \o queue[c]) |-> <<c, i>>]
          /\ Len(taken[c] \o queue[c]) = Len(taken[c]) + Len(queue[c])
      BY <3>1, <3>3, NumberedConcat
    <3> QED
      BY <3>2, <3>4 DEF Items
  <2>2. ASSUME NEW c \in Conns, pc[c] = "send"
        PROVE  Chan(id[c]) = c /\ c \notin closed
    <3>1. id[c] \in DOMAIN chMap /\ net[c] # "none"
      BY <2>2 DEF IInv, Life
    <3> QED
      BY <3>1, OwnChannel
  <2>3. ASSUME NEW c \in Conns, worker[c] = "ended"
        PROVE  Len(taken[c]) = received[c]
    <3>1. queue[c] = <<>> /\ pc[c] = "ready"
      BY <2>3 DEF IInv, Life
    <3>2. Len(taken[c]) + 0 = received[c] - 0
      BY <3>1 DEF IInv, Items
    <3>3. Len(taken[c]) \in Int /\ received[c] \in Int
      BY DEF IInv, TypeOK
    <3> QED
      BY <3>2, <3>3
  <2>4. \A c, d \in Conns : pc[c] \in {"register", "close"} => pc[d] # "send" /\ (pc[d] \in {"register", "close"} => c = d)
    BY HandlersAssumption DEF IInv, MapIsLocked
  <2> QED
    BY <2>1, <2>2, <2>3, <2>4 DEF IInv, ConnectionsAreIsolated
<1> QED
  BY <1>1, HandlersInvariant, PTL
=============================================================================
