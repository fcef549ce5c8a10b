----------------------------- MODULE WireFormat -----------------------------
(***************************************************************************)
(* The bytes: how records and packets are marshalled, how the client       *)
(* merges packets into one buffer and recycles the buffers, how a stream   *)
(* that TCP cuts anywhere is unpacked, and how a record is kept in its     *)
(* slot of a store.                                                        *)
(*                                                                         *)
(* A byte has Base values, a string is a sequence of non-zero bytes.  The  *)
(* layouts are written down twice, as the code does: what is written and   *)
(* what is read.  Reading past what was received is an error.              *)
(***************************************************************************)
EXTENDS Integers, Sequences, SequencesExt, TLC

CONSTANTS
  Base,                \* values of a byte (256)
  MaxStackSize,        \* frames of a record (64)
  PackBuffer,          \* size of PackTo's buffer (1024)
  MaxSmallPacketSize,  \* a merged packet of this size is sent (1 MiB)
  Margin,              \* room beyond that (2048)
  SendListLen,         \* packets waiting in the connection (30)
  HelloPackets,        \* the first packet, of a client or of a server
  Commands,            \* packets that the server sends
  SmallPackets,        \* packets that the client merges
  LargePackets,        \* packets that the client sends by SendLarge
  Records,             \* what is stored: records with their type
  Chunks,              \* sizes of what one read of the connection returns
  MaxPackets           \* bound on the packets sent

ASSUME WireAssumption ==
  /\ Base \in Nat /\ Base > 9 /\ MaxStackSize \in Nat
  /\ Margin >= 8 * 4 + 1 + 8 * (1 + MaxStackSize) + 5
  /\ SendListLen \in Nat \ {0, 1}

VARIABLES role,    \* who sends: "client", "server", or "store"
          sent,    \* history: the packets handed to Send(), SendLarge() or Conn.Send()
          merge,   \* mergeSender.mergePkt: its buffer's size and its bytes
          pool,    \* sizes of the buffers that were recycled
          list,    \* the connection's send list
          stream,  \* bytes written to the connection and not yet read
          unread,  \* bytes read and not yet unpacked
          rcvd,    \* history: the packets given to the event handler
          broken,  \* Unpack() has failed
          dead,    \* the sender has panicked
          slot,    \* the bytes of a record's slot
          stored   \* history: the last record written there

sendVars == <<sent, merge, pool, list, dead>>
recvVars == <<unread, rcvd, broken>>
slotVars == <<slot, stored>>
vars == <<role, sendVars, stream, recvVars, slotVars>>

-----------------------------------------------------------------------------
(* Layouts *)

Field(name, kind, w, of) == [name |-> name, kind |-> kind, w |-> w, of |-> of]
U64(name)  == Field(name, "uint", 8, <<>>)
U32(name)  == Field(name, "uint", 4, <<>>)
U8(name)   == Field(name, "uint", 1, <<>>)
Str(name)  == Field(name, "str", 8, <<>>)
Json(name) == Field(name, "json", 8, <<>>)
Slice(name, of) == Field(name, "slice", 8, of)
\* A slice that is read into a buffer of fixed size.
Frames(name) == Field(name, "frames", 8, <<U64("PC")>>)

GoroutineWritten == <<U64("GID"), U64("StartTime"), U64("EndTime")>>
GoroutineRead    == <<U64("GID"), U64("StartTime"), U64("EndTime")>>
FuncLogWritten   == <<U64("ID"), U64("StartTime"), U64("EndTime"), U64("ParentID"), Frames("Frames"), U64("GID")>>
FuncLogRead      == <<U64("ID"), U64("StartTime"), U64("EndTime"), U64("ParentID"), Frames("Frames"), U64("GID")>>
RawFuncLogWritten == <<U64("ID"), U8("Tag"), U64("Timestamp"), Frames("Frames"), U64("GID"), U64("TxID")>>
RawFuncLogRead    == <<U64("ID"), U8("Tag"), U64("Timestamp"), Frames("Frames"), U64("GID"), U64("TxID")>>

GoModuleWritten == <<Str("Name"), U64("MinPC"), U64("MaxPC")>>
GoModuleRead    == <<Str("Name"), U64("MinPC"), U64("MaxPC")>>
GoFuncWritten   == <<Str("Name"), U64("Entry")>>
GoFuncRead      == <<Str("Name"), U64("Entry")>>
GoLineWritten   == <<U64("PC"), U32("FileID"), U32("Line")>>
GoLineRead      == <<U64("PC"), U32("FileID"), U32("Line")>>
SymbolsWritten  == <<Slice("Files", <<Str("Name")>>), Slice("Mods", GoModuleWritten),
                     Slice("Funcs", GoFuncWritten), Slice("Lines", GoLineWritten)>>
SymbolsRead     == <<Slice("Files", <<Str("Name")>>), Slice("Mods", GoModuleRead),
                     Slice("Funcs", GoFuncRead), Slice("Lines", GoLineRead)>>

ClientHelloWritten == <<U64("PID"), Str("AppName"), Str("Host"), Str("ClientSecret"), Str("ProtocolVersion")>>
ClientHelloRead    == <<U64("PID"), Str("AppName"), Str("Host"), Str("ClientSecret"), Str("ProtocolVersion")>>
ServerHelloFields  == <<Str("ProtocolVersion")>>
TraceCmdFields     == <<Json("FuncName")>>
NoFields           == <<>>

Written(t) ==
  CASE t = "ClientHello" -> ClientHelloWritten [] t = "ServerHello" -> ServerHelloFields
    [] t \in {"Ping", "Shutdown"} -> NoFields  [] t \in {"StartTraceCmd", "StopTraceCmd"} -> TraceCmdFields
    [] t = "Symbol" -> SymbolsWritten          [] t = "RawFuncLog" -> RawFuncLogWritten
    [] t = "FuncLog" -> FuncLogWritten         [] t = "Goroutine" -> GoroutineWritten

Read(t) ==
  CASE t = "ClientHello" -> ClientHelloRead    [] t = "ServerHello" -> ServerHelloFields
    [] t \in {"Ping", "Shutdown", "fake"} -> NoFields [] t \in {"StartTraceCmd", "StopTraceCmd"} -> TraceCmdFields
    [] t = "Symbol" -> SymbolsRead             [] t = "RawFuncLog" -> RawFuncLogRead
    [] t = "FuncLog" -> FuncLogRead            [] t = "Goroutine" -> GoroutineRead

-----------------------------------------------------------------------------
(* Marshalling *)

MarshalUint(w, v) == [i \in 1..w |-> (v \div Base^(w - i)) % Base]
MarshalString(s)  == MarshalUint(8, Len(s)) \o s

\* The JSON text of a command ends with a byte that its name cannot hold.
JsonEnd == Base - 1
ToJson(name) == Append(name, JsonEnd)

MarshalFlat(f, v) ==
  CASE f.kind = "uint" -> MarshalUint(f.w, v) [] f.kind = "str" -> MarshalString(v) [] f.kind = "json" -> MarshalString(ToJson(v))
MarshalElement(fs, r) == FlattenSeq([i \in DOMAIN fs |-> MarshalFlat(fs[i], r[fs[i].name])])
MarshalSlice(fs, s)   == MarshalUint(8, Len(s)) \o FlattenSeq([i \in DOMAIN s |-> MarshalElement(fs, s[i])])
MarshalField(f, v)    == IF f.kind \in {"slice", "frames"} THEN MarshalSlice(f.of, v) ELSE MarshalFlat(f, v)
Marshal(t, r) == LET fs == Written(t) IN FlattenSeq([i \in DOMAIN fs |-> MarshalField(fs[i], r[fs[i].name])])

\* The sizes that are computed without marshalling.
SizeString(s)    == 8 + Len(s)
SizeGoModule(m)  == SizeString(m.Name) + 8 + 8
SizeGoFunc(f)    == 8 + SizeString(f.Name)
SizeGoLine(l)    == 8 + 4 + 4
SumOf(ns)        == FoldLeft(LAMBDA a, n : a + n, 0, ns)
SizeSymbolsData(d) ==
  8 + SumOf([i \in DOMAIN d.Files |-> SizeString(d.Files[i].Name)])
     + 8 + SumOf([i \in DOMAIN d.Mods |-> SizeGoModule(d.Mods[i])])
     + 8 + SumOf([i \in DOMAIN d.Funcs |-> SizeGoFunc(d.Funcs[i])])
     + 8 + SumOf([i \in DOMAIN d.Lines |-> SizeGoLine(d.Lines[i])])
SizeGoroutine  == 8 * 3
\* Seeded bug: the length of the frames is forgotten.
SizeFuncLog_NoLength == 8 * 5 + 8 * MaxStackSize
SizeFuncLog    == 8 * 5 + 8 * (1 + MaxStackSize)
SizeRawFuncLog == 8 * 4 + 1 + 8 * (1 + MaxStackSize)

-----------------------------------------------------------------------------
(* Unmarshalling.  A cursor is a position in the bytes b with what was read  *)
(* so far; it is not ok after a panic.                                       *)

Cursor(pos, val) == [ok |-> TRUE, pos |-> pos, val |-> val]
Panic(c)         == [c EXCEPT !.ok = FALSE]
Holds(b, c, n)   == c.pos + n <= Len(b)
UnmarshalUint(w, b, pos) == FoldLeft(LAMBDA a, d : Base * a + d, 0, SubSeq(b, pos + 1, pos + w))
Assign(c, f, v, n) == Cursor(c.pos + n, (f.name :> v) @@ c.val)

IsJson(text) == text # <<>> /\ Last(text) = JsonEnd /\ \A i \in 1..(Len(text) - 1) : text[i] \notin {0, JsonEnd}

UnmarshalString(b, c, f) ==
  LET n == UnmarshalUint(8, b, c.pos)
      text == SubSeq(b, c.pos + 9, c.pos + 8 + n)
  IN CASE ~Holds(b, c, 8) \/ ~Holds(b, c, 8 + n) -> Panic(c)
       [] f.kind = "str"  -> Assign(c, f, text, 8 + n)
       [] f.kind = "json" -> IF IsJson(text) THEN Assign(c, f, Front(text), 8 + n) ELSE Panic(c)

UnmarshalFlat(b, c, f) ==
  CASE ~c.ok -> c
    [] c.ok /\ f.kind = "uint" -> IF Holds(b, c, f.w) THEN Assign(c, f, UnmarshalUint(f.w, b, c.pos), f.w) ELSE Panic(c)
    [] OTHER -> UnmarshalString(b, c, f)

UnmarshalElement(b, c, fs) ==
  LET e == FoldLeft(LAMBDA x, f : UnmarshalFlat(b, x, f), Cursor(c.pos, <<>>), fs)
  IN [e EXCEPT !.ok = @ /\ c.ok, !.val = Append(c.val, @)]

\* The frames are read into a pooled slice of MaxStackSize elements.
UnmarshalSlice(b, c, f) ==
  LET n == UnmarshalUint(8, b, c.pos)
      s == FoldLeft(LAMBDA x, i : UnmarshalElement(b, x, f.of), Cursor(c.pos + 8, <<>>), [i \in 1..n |-> i])
  IN IF ~Holds(b, c, 8) \/ n > Len(b) \/ (f.kind = "frames" /\ n > MaxStackSize) THEN Panic(c)
     ELSE IF s.ok THEN Assign(c, f, s.val, s.pos - c.pos) ELSE Panic(c)

UnmarshalField(b, c, f) ==
  IF c.ok /\ f.kind \in {"slice", "frames"} THEN UnmarshalSlice(b, c, f) ELSE UnmarshalFlat(b, c, f)
Unmarshal(t, b, pos) == FoldLeft(LAMBDA x, f : UnmarshalField(b, x, f), Cursor(pos, <<>>), Read(t))

-----------------------------------------------------------------------------
(* Packets: [size uint32] [type uint8] [body] *)

PacketHeaderSize == 5
PacketTypes == <<"fake", "ClientHello", "ServerHello", "Log", "Ping", "Shutdown", "StartTraceCmd",
                 "StopTraceCmd", "Symbol", "RawFuncLog">>
detectPacketType(p) == (CHOOSE i \in DOMAIN PacketTypes : PacketTypes[i] = p.type) - 1

\* The type of the packet that is created for a type number: that of a shutdown is a ping.
createPacket(n) == IF PacketTypes[n + 1] = "Shutdown" THEN "Ping" ELSE PacketTypes[n + 1]

Packed(p) ==
  LET body == Marshal(p.type, p.body)
  IN MarshalUint(4, 1 + Len(body)) \o <<detectPacketType(p)>> \o body

\* A string at the end of a packet is cut where the buffer ends; anything else that
\* does not fit is a panic.
EndText(p) ==
  LET fs == Written(p.type) IN
  IF fs = <<>> THEN 0
  ELSE CASE Last(fs).kind = "str" -> Len(p.body[Last(fs).name]) [] Last(fs).kind = "json" -> Len(ToJson(p.body[Last(fs).name])) [] OTHER -> 0

Overflows(p, room) == Len(Packed(p)) - EndText(p) > room
PackToByteSlice(p, room) ==
  LET bytes == Packed(p) IN
  IF Len(bytes) <= room THEN bytes ELSE MarshalUint(4, room - 4) \o SubSeq(bytes, 5, room)

\* Unpack(): the packet, the bytes it takes, and whether it failed: a panic below it
\* is an error.  The body may be read from beyond the packet's own bytes.
NeedMore == [pkt |-> <<>>, n |-> 0, err |-> FALSE]
UnpackType(b, n) ==
  LET t == createPacket(b[5])
      c == IF t = "Log" THEN Panic(Cursor(5, <<>>)) ELSE Unmarshal(t, b, 5)
  IN [pkt |-> [type |-> t, body |-> c.val], n |-> n, err |-> ~c.ok]

Unpack(b) ==
  IF Len(b) < 4 \/ Len(b) < 4 + UnmarshalUint(4, b, 0) THEN NeedMore ELSE UnpackType(b, 4 + UnmarshalUint(4, b, 0))

-----------------------------------------------------------------------------
(* Sending *)

NoPacket  == [cap |-> 0, bytes |-> <<>>]
SmallBuffer == MaxSmallPacketSize + Margin

Init ==
  /\ role \in {"client", "server", "store"}
  /\ sent = <<>> /\ merge = NoPacket /\ pool = {} /\ list = <<>> /\ dead = FALSE
  /\ stream = <<>> /\ unread = <<>> /\ rcvd = <<>> /\ broken = FALSE
  /\ slot = [t \in {"Goroutine", "FuncLog", "RawFuncLog"} |-> <<>>]
  /\ stored = [t \in {"Goroutine", "FuncLog", "RawFuncLog"} |-> <<>>]

Room(n) == Len(list) + n <= SendListLen
Sending == ~dead /\ ~broken /\ Len(sent) < MaxPackets

\* Conn.Send() of a packet that is packed later: a hello, which comes first, and the
\* commands of the server.
SendPacket ==
  /\ Sending /\ Room(1)
  /\ \E p \in HelloPackets \cup Commands :
       /\ IF sent = <<>> THEN p \in HelloPackets /\ p.type = (IF role = "client" THEN "ClientHello" ELSE "ServerHello")
                         ELSE role = "server" /\ p \in Commands
       /\ role # "store"
       /\ list' = Append(list, [kind |-> "packet", pkt |-> p])
       /\ sent' = Append(sent, p)
  /\ UNCHANGED <<role, merge, pool, dead, stream, recvVars, slotVars>>

Negotiated == role = "client" /\ rcvd # <<>>

\* mergeSender.Send(): the packet is marshalled into the merged packet, which comes
\* from the pool or is new, and which is sent when it is large enough.
Send ==
  /\ Sending /\ Negotiated /\ Room(1)
  /\ \E p \in SmallPackets, cap \in IF merge = NoPacket THEN pool \cup {SmallBuffer} ELSE {merge.cap} :
       LET room == cap - Len(merge.bytes)
           new == [cap |-> cap, bytes |-> merge.bytes \o PackToByteSlice(p, room)]
       IN /\ pool' = pool \ {cap}
          /\ sent' = Append(sent, p)
          /\ \/ /\ Overflows(p, room)
                /\ dead' = TRUE /\ UNCHANGED <<merge, list>>
             \/ /\ ~Overflows(p, room)
                /\ IF Len(new.bytes) >= MaxSmallPacketSize
                     THEN merge' = NoPacket /\ list' = Append(list, [kind |-> "merged", pkt |-> new])
                     ELSE merge' = new /\ UNCHANGED list
                /\ UNCHANGED dead
  /\ UNCHANGED <<role, stream, recvVars, slotVars>>

Refreshed == IF merge = NoPacket THEN list ELSE Append(list, [kind |-> "merged", pkt |-> merge])

\* marshalLargePacket(): the buffer has the size that is predicted for the symbols.
LargeBuffer(p) == SizeSymbolsData(p.body) + PacketHeaderSize

\* SendLarge(): the merged packet goes first.  Seeded bug: the large one overtakes.
SendLarge_Overtakes ==
  /\ Sending /\ Negotiated /\ Room(2)
  /\ \E p \in LargePackets :
       LET cap == LargeBuffer(p) IN
       /\ list' = Append(list, [kind |-> "merged", pkt |-> [cap |-> cap, bytes |-> PackToByteSlice(p, cap)]])
       /\ dead' = Overflows(p, cap)
       /\ sent' = Append(sent, p)
  /\ UNCHANGED <<role, merge, pool, stream, recvVars, slotVars>>
SendLarge ==
  /\ Sending /\ Negotiated /\ Room(2)
  /\ \E p \in LargePackets :
       LET cap == LargeBuffer(p) IN
       /\ list' = Append(Refreshed, [kind |-> "merged", pkt |-> [cap |-> cap, bytes |-> PackToByteSlice(p, cap)]])
       /\ dead' = Overflows(p, cap)
       /\ sent' = Append(sent, p)
  /\ merge' = NoPacket
  /\ UNCHANGED <<role, pool, stream, recvVars, slotVars>>

Refresh ==
  /\ ~dead /\ merge # NoPacket /\ Room(1)
  /\ list' = Refreshed /\ merge' = NoPacket
  /\ UNCHANGED <<role, sent, pool, dead, stream, recvVars, slotVars>>

\* The connection writes the first packet of its list (PackTo) and reports it: the
\* client recycles the buffers of all merged packets, the large ones too.
PackTo ==
  /\ ~dead /\ list # <<>>
  /\ LET it == Head(list) IN
       IF it.kind = "merged"
         THEN stream' = stream \o it.pkt.bytes /\ pool' = pool \cup {it.pkt.cap} /\ UNCHANGED dead
         ELSE /\ UNCHANGED pool /\ dead' = Overflows(it.pkt, PackBuffer)
              /\ stream' = IF dead' THEN stream ELSE stream \o PackToByteSlice(it.pkt, PackBuffer)
  /\ list' = Tail(list)
  /\ UNCHANGED <<role, sent, merge, recvVars, slotVars>>

-----------------------------------------------------------------------------
(* Receiving: the library reads what there is, unpacks all it can, and     *)
(* gives up on a packet that cannot be unpacked.                           *)

Receive ==
  /\ ~broken /\ stream # <<>> /\ Unpack(unread).n = 0
  /\ \E n \in {k \in Chunks : k < Len(stream)} \cup {Len(stream)} :
       /\ unread' = unread \o SubSeq(stream, 1, n)
       /\ stream' = SubSeq(stream, n + 1, Len(stream))
  /\ UNCHANGED <<role, sendVars, rcvd, broken, slotVars>>

OnReceived ==
  /\ ~broken
  /\ LET u == Unpack(unread) IN
       /\ u.n > 0
       /\ unread' = SubSeq(unread, u.n + 1, Len(unread))
       /\ broken' = u.err
       /\ rcvd' = IF u.err THEN rcvd ELSE Append(rcvd, u.pkt)
  /\ UNCHANGED <<role, sendVars, stream, slotVars>>

-----------------------------------------------------------------------------
(* A record in its slot: Set() fills the rest of it with zeros, Get() reads  *)
(* the whole slot.                                                           *)

SlotSize(t) == CASE t = "Goroutine" -> SizeGoroutine [] t = "FuncLog" -> SizeFuncLog [] t = "RawFuncLog" -> SizeRawFuncLog

Set(r) ==
  /\ role = "store" /\ ~dead
  /\ LET bytes == Marshal(r.type, r.body) IN
       /\ dead' = (Len(bytes) > SlotSize(r.type))
       /\ slot' = [slot EXCEPT ![r.type] = [i \in 1..SlotSize(r.type) |-> IF i <= Len(bytes) THEN bytes[i] ELSE 0]]
       /\ stored' = [stored EXCEPT ![r.type] = r.body]
  /\ UNCHANGED <<role, sent, merge, pool, list, stream, recvVars>>

Get(t) == Unmarshal(t, slot[t], 0)

Next == SendPacket \/ Send \/ SendLarge \/ Refresh \/ PackTo \/ Receive \/ OnReceived \/ \E r \in Records : Set(r)

Spec == Init /\ [][Next]_vars
-----------------------------------------------------------------------------
(* Properties *)

\* What is received is what was sent, in the order of the calls to Send(), however
\* the stream is cut, except that a shutdown arrives as a ping; once everything has
\* arrived nothing is missing and no byte is left over.  The stream breaks only
\* behind a command that PackTo() had to cut, which is never taken for another one,
\* and the sender panics only behind a large packet whose buffer it recycles
\* (Proto.PackToByteSlice, Proto.Unpack, MergePacket.Merge).
StreamIsFaithful ==
  /\ IsPrefix(rcvd, [i \in DOMAIN sent |-> [sent[i] EXCEPT !.type = IF @ = "Shutdown" THEN "Ping" ELSE @]])
  /\ broken => \E i \in DOMAIN sent : sent[i] \in Commands /\ Len(Packed(sent[i])) > PackBuffer
  /\ dead /\ role # "store" => \E i \in DOMAIN sent : sent[i] \in LargePackets /\ Len(Packed(sent[i])) < SmallBuffer
  /\ (~dead /\ ~broken /\ merge = NoPacket /\ list = <<>> /\ stream = <<>> /\ Unpack(unread).n = 0)
       => Len(rcvd) = Len(sent) /\ unread = <<>>

\* A record read from its slot is the record last written there, whatever was there
\* before, and no record with at most MaxStackSize frames is larger than its slot
\* (RawFuncLogStore, FuncLogStore, GoroutineStore and the Size functions).
RecordsKeepTheirSlot ==
  \A t \in DOMAIN stored : stored[t] # <<>> => Get(t).ok /\ Get(t).val = stored[t] /\ ~dead

\* A merged packet always has room for the packet that is merged into it: the pool's
\* packets have "a somewhat larger buffer", and packets too large for it go through
\* SendLarge() so that Merge() does not panic (mergeSender.Init, marshalLargePacket).
MergeNeverPanics == role = "client" => ~dead
=============================================================================
