------------------------- MODULE RecordStoreProofs --------------------------
(***************************************************************************)
(* For every record size, buffer size and number of records: what is       *)
(* written is in the file or in the write buffer, and the store is an      *)
(* array of records, but for the reads that go astray.                     *)
(***************************************************************************)
EXTENDS RecordStore, TLAPS

-----------------------------------------------------------------------------
(* Numbers                                                                 *)

LEMMA MaxOfTwo ==
  ASSUME NEW a \in Int, NEW b \in Int
  PROVE  Max({a, b}) = IF a >= b THEN a ELSE b
<1> DEFINE m == IF a >= b THEN a ELSE b
<1>1. m \in {a, b} /\ \A y \in {a, b} : m >= y
  OBVIOUS
<1>2. \A x \in {a, b} : (\A y \in {a, b} : x >= y) => x = m
  OBVIOUS
<1> HIDE DEF m
<1>3. (CHOOSE x \in {a, b} : \A y \in {a, b} : x >= y) = m
  BY <1>1, <1>2
<1> QED
  BY <1>3 DEF Max, m

LEMMA MinOfTwo ==
  ASSUME NEW a \in Int, NEW b \in Int
  PROVE  Min({a, b}) = IF a <= b THEN a ELSE b
<1> DEFINE m == IF a <= b THEN a ELSE b
<1>1. m \in {a, b} /\ \A y \in {a, b} : m =< y
  OBVIOUS
<1>2. \A x \in {a, b} : (\A y \in {a, b} : x =< y) => x = m
  OBVIOUS
<1> HIDE DEF m
<1>3. (CHOOSE x \in {a, b} : \A y \in {a, b} : x =< y) = m
  BY <1>1, <1>2
<1> QED
  BY <1>3 DEF Min, m

\* A record that begins before another one ends before it.
LEMMA RecordsApart ==
  ASSUME NEW s \in Nat, NEW i \in Nat, NEW j \in Nat, i < j
  PROVE  s * i + s <= s * j
<1> PICK d \in Nat : j = i + 1 + d
  <2>1. j - i - 1 \in Nat /\ j = i + 1 + (j - i - 1)
    OBVIOUS
  <2> QED
    BY <2>1
<1>1. s * j = s * i + s + s * d
  OBVIOUS
<1>2. s * d \in Nat /\ s * i \in Nat
  OBVIOUS
<1> QED
  BY <1>1, <1>2

\* The number of records is found again from the size of the file.
LEMMA SizeOfRecords ==
  ASSUME NEW s \in Nat \ {0}, NEW r \in Nat
  PROVE  (r * s) \div s = r
OBVIOUS

-----------------------------------------------------------------------------
(* Files                                                                   *)

LEMMA FunctionIsSeq ==
  ASSUME NEW S, NEW k \in Nat, NEW f \in [1 .. k -> S]
  PROVE  f \in Seq(S) /\ Len(f) = k
OBVIOUS

\* w is f after c was written at offset off.
Written(w, f, off, c) ==
  /\ Len(w) = IF Len(f) >= off + Len(c) THEN Len(f) ELSE off + Len(c)
  /\ \A i \in 1 .. Len(w) : w[i] = IF off < i /\ i <= off + Len(c) THEN c[i - off]
                                   ELSE IF i <= Len(f) THEN f[i] ELSE <<Zero, 0>>

LEMMA WriteAtIs ==
  ASSUME NEW S, NEW f \in Seq(S), NEW c \in Seq(S), NEW off \in Nat, <<Zero, 0>> \in S
  PROVE  WriteAt(f, off, c) \in Seq(S) /\ Written(WriteAt(f, off, c), f, off, c)
<1> PICK m \in Nat, n \in Nat : m = Len(f) /\ n = Len(c)
  OBVIOUS
<1>1. Max({m, off + n}) = IF m >= off + n THEN m ELSE off + n
  BY MaxOfTwo
<1> PICK k \in Nat : k = Max({m, off + n})
  BY <1>1
<1> DEFINE w(i) == IF off < i /\ i <= off + n THEN c[i - off] ELSE IF i <= m THEN f[i] ELSE <<Zero, 0>>
<1>2. WriteAt(f, off, c) = [i \in 1 .. k |-> w(i)]
  BY DEF WriteAt
<1>3. ASSUME NEW i \in 1 .. k PROVE w(i) \in S
  <2>1. CASE off < i /\ i <= off + n
    <3>1. i - off \in 1 .. Len(c)
      BY <2>1
    <3> QED
      BY <2>1, <3>1
  <2>2. CASE ~(off < i /\ i <= off + n) /\ i <= m
    <3>1. i \in 1 .. Len(f)
      BY <2>2
    <3> QED
      BY <2>2, <3>1
  <2> QED
    BY <2>1, <2>2
<1> HIDE DEF w
<1>4. [i \in 1 .. k |-> w(i)] \in Seq(S) /\ Len([i \in 1 .. k |-> w(i)]) = k
  <2> DEFINE g == [i \in 1 .. k |-> w(i)]
  <2>1. g \in [1 .. k -> S]
    BY <1>3
  <2> HIDE DEF g
  <2>2. g \in Seq(S) /\ Len(g) = k
    BY <2>1, FunctionIsSeq
  <2> QED
    BY <2>2 DEF g
<1> QED
  BY <1>1, <1>2, <1>4 DEF w, Written

LEMMA SameSeq ==
  ASSUME NEW S, NEW a \in Seq(S), NEW b \in Seq(S), Len(a) = Len(b), \A i \in 1 .. Len(a) : a[i] = b[i]
  PROVE  a = b
OBVIOUS

\* Two writes in a row are one.
LEMMA WriteTwice ==
  ASSUME NEW S, NEW f \in Seq(S), NEW a \in Seq(S), NEW b \in Seq(S), NEW p \in Nat, <<Zero, 0>> \in S
  PROVE  WriteAt(WriteAt(f, p, a), p + Len(a), b) = WriteAt(f, p, a \o b)
<1> PICK la \in Nat, lb \in Nat, lf \in Nat : la = Len(a) /\ lb = Len(b) /\ lf = Len(f)
  OBVIOUS
<1>0. a \o b \in Seq(S)
  OBVIOUS
<1>1. PICK ab \in Seq(S) : ab = a \o b
  BY <1>0
<1>1a. Len(ab) = la + lb /\ p + la \in Nat
  BY <1>1
<1>2. PICK w \in Seq(S) : w = WriteAt(f, p, a) /\ Written(w, f, p, a)
  BY WriteAtIs
<1> PICK lw \in Nat : lw = Len(w)
  OBVIOUS
<1>3. /\ lw = IF lf >= p + la THEN lf ELSE p + la
      /\ \A i \in 1 .. lw : w[i] = IF p < i /\ i <= p + la THEN a[i - p] ELSE IF i <= lf THEN f[i] ELSE <<Zero, 0>>
  BY <1>2 DEF Written
<1>4. PICK x \in Seq(S) : x = WriteAt(w, p + la, b) /\ Written(x, w, p + la, b)
  BY <1>1a, <1>2, WriteAtIs
<1> PICK lx \in Nat : lx = Len(x)
  OBVIOUS
<1>5. /\ lx = IF lw >= p + la + lb THEN lw ELSE p + la + lb
      /\ \A i \in 1 .. lx : x[i] = IF p + la < i /\ i <= p + la + lb THEN b[i - (p + la)]
                                   ELSE IF i <= lw THEN w[i] ELSE <<Zero, 0>>
  BY <1>4 DEF Written
<1>6. PICK y \in Seq(S) : y = WriteAt(f, p, ab) /\ Written(y, f, p, ab)
  BY WriteAtIs
<1> PICK ly \in Nat : ly = Len(y)
  OBVIOUS
<1>7. /\ ly = IF lf >= p + (la + lb) THEN lf ELSE p + (la + lb)
      /\ \A i \in 1 .. ly : y[i] = IF p < i /\ i <= p + (la + lb) THEN ab[i - p] ELSE IF i <= lf THEN f[i] ELSE <<Zero, 0>>
  BY <1>1a, <1>6 DEF Written
<1>8. lx = ly
  BY <1>3, <1>5, <1>7
<1>9. ASSUME NEW i \in 1 .. lx PROVE x[i] = y[i]
  <2>0. i \in Nat /\ i >= 1
    OBVIOUS
  <2>1. CASE p + la < i /\ i <= p + la + lb
    <3>1. x[i] = b[i - (p + la)]
      BY <1>5, <2>1
    <3>2. y[i] = ab[i - p]
      BY <1>7, <1>8, <2>0, <2>1
    <3>3. PICK k \in 1 .. lb : k = i - (p + la)
      <4>1. i - (p + la) \in 1 .. lb
        BY <2>0, <2>1
      <4> QED
        BY <4>1
    <3>4. i - p = la + k
      BY <2>0, <3>3
    <3>5. ab[la + k] = b[k]
      BY <1>1, SMTT(30)
    <3> QED
      BY <3>1, <3>2, <3>3, <3>4, <3>5
  <2>2. CASE p < i /\ i <= p + la
    <3>1. x[i] = w[i] /\ i \in 1 .. lw
      BY <1>3, <1>5, <2>0, <2>2
    <3>2. w[i] = a[i - p]
      BY <1>3, <2>2, <3>1
    <3>3. y[i] = ab[i - p]
      BY <1>7, <1>8, <2>0, <2>2
    <3>4. PICK k \in 1 .. la : k = i - p
      BY <2>0, <2>2
    <3>5. ab[k] = a[k]
      BY <1>1
    <3> QED
      BY <3>1, <3>2, <3>3, <3>4, <3>5
  <2>3. CASE ~(p < i /\ i <= p + la + lb)
    <3>0. ~(p + la < i /\ i <= p + la + lb) /\ ~(p < i /\ i <= p + la) /\ ~(p < i /\ i <= p + (la + lb)) /\ i \in 1 .. ly
      BY <1>8, <2>0, <2>3
    <3>1. y[i] = IF i <= lf THEN f[i] ELSE <<Zero, 0>>
      BY <1>7, <3>0
    <3>2. x[i] = IF i <= lw THEN w[i] ELSE <<Zero, 0>>
      BY <1>5, <3>0
    <3>3. i <= lw => w[i] = IF i <= lf THEN f[i] ELSE <<Zero, 0>>
      <4>1. i <= lw => i \in 1 .. lw
        BY <2>0
      <4> QED
        BY <1>3, <3>0, <4>1
    <3>4. lf <= lw
      BY <1>3
    <3> QED
      BY <2>0, <3>1, <3>2, <3>3, <3>4
  <2> QED
    BY <2>0, <2>1, <2>2, <2>3
<1>10. x = y
  BY <1>8, <1>9, SameSeq
<1> QED
  BY <1>1, <1>2, <1>4, <1>6, <1>10

LEMMA EncodeIs ==
  ASSUME NEW v \in Value
  PROVE  Encode(v) \in Seq(Cell) /\ Len(Encode(v)) = RecordSize /\ \A k \in 1 .. RecordSize : Encode(v)[k] = <<v, k>>
<1>1. Encode(v) \in [1 .. RecordSize -> Cell]
  BY DEF Encode, Cell
<1>2. Encode(v) \in Seq(Cell) /\ Len(Encode(v)) = RecordSize
  BY <1>1, FunctionIsSeq, SizeAssumption
<1> QED
  BY <1>2 DEF Encode

LEMMA ZeroCell == <<Zero, 0>> \in Cell
BY DEF Cell

LEMMA WriteTwiceHere ==
  \A f, a, b \in Seq(Cell) : \A p \in Nat : WriteAt(WriteAt(f, p, a), p + Len(a), b) = WriteAt(f, p, a \o b)
BY WriteTwice, ZeroCell

\* What is appended to the write buffer is written behind what it holds.
LEMMA WriteBehind ==
  ASSUME NEW v, wb.pos \in Nat, wb.buf \in Seq(Cell), file \in Seq(Cell), Encode(v) \in Seq(Cell)
  PROVE  WriteAt(WriteAt(file, wb.pos, wb.buf), wb.pos + Len(wb.buf), Encode(v)) = WriteAt(file, wb.pos, wb.buf \o Encode(v))
BY WriteTwiceHere, Zenon

-----------------------------------------------------------------------------
(* The write buffer                                                        *)

WriteBuffers == [wpos : Nat, pos : Nat, off : Nat, buf : Seq(Cell)]

LEMMA ContentsType ==
  ASSUME TypeOK
  PROVE  Contents \in Seq(Cell)
BY WriteAtIs, ZeroCell DEF TypeOK, Contents

\* Flushing moves the buffer into the file and changes nothing in sight.
LEMMA Flushing ==
  ASSUME WrittenInv
  PROVE  /\ FlushedFile(wb) = Contents
         /\ Flushed(wb) \in WriteBuffers /\ Flushed(wb).buf = <<>> /\ Flushed(wb).wpos = Flushed(wb).off
<1>1. wb \in WriteBuffers /\ wb.wpos = wb.off
  BY DEF WrittenInv, RecordsAreBacked, TypeOK, WriteBuffers
<1>2. (IF wb.wpos # wb.pos THEN wb.pos ELSE wb.off) = wb.pos
  BY <1>1
<1>3. FlushedFile(wb) = Contents
  BY <1>2 DEF FlushedFile, Contents
<1>4. CASE wb.buf = <<>>
  BY <1>1, <1>3, <1>4 DEF Flushed
<1>5. CASE wb.buf # <<>>
  <2>1. wb.pos \in Nat /\ wb.buf \in Seq(Cell)
    BY <1>1 DEF WriteBuffers
  <2>2. wb.pos + Len(wb.buf) \in Nat
    BY <2>1
  <2>3. Flushed(wb) = [wpos |-> wb.pos + Len(wb.buf), pos |-> wb.pos + Len(wb.buf), off |-> wb.pos + Len(wb.buf), buf |-> <<>>]
    BY <1>2, <1>5 DEF Flushed
  <2>4. <<>> \in Seq(Cell)
    OBVIOUS
  <2> QED
    BY <1>3, <2>2, <2>3, <2>4 DEF WriteBuffers
<1> QED
  BY <1>4, <1>5

\* A write puts the record where it belongs, whether the buffer is extended, started
\* anew behind a flush, or flushed because it is full.
LEMMA Writing ==
  ASSUME WrittenInv, NEW idx \in Nat, NEW v \in Value, WriteNolock(idx, v)
  PROVE  /\ Contents' = WriteAt(Contents, RecordSize * idx, Encode(v))
         /\ file' \in Seq(Cell) /\ wb' \in WriteBuffers /\ wb'.wpos = wb'.off /\ Len(wb'.buf) + RecordSize <= BufferSize
<1> PICK pos \in Nat : pos = RecordSize * idx
  BY SizeAssumption
<1> DEFINE f1 == IF NeedsFlush(wb, pos) THEN FlushedFile(wb) ELSE file
           b1 == IF NeedsFlush(wb, pos) THEN [Flushed(wb) EXCEPT !.pos = pos] ELSE wb
           b2 == [b1 EXCEPT !.buf = @ \o Encode(v)]
<1>0. /\ wb \in WriteBuffers /\ wb.wpos = wb.off /\ file \in Seq(Cell) /\ Contents \in Seq(Cell)
      /\ Encode(v) \in Seq(Cell) /\ Len(Encode(v)) = RecordSize /\ RecordSize \in Nat \ {0} /\ BufferSize \in Nat /\ RecordSize <= BufferSize
  BY ContentsType, EncodeIs, SizeAssumption DEF WrittenInv, RecordsAreBacked, TypeOK, WriteBuffers
<1>1. IF IsFull(b2)
      THEN /\ wb' = Flushed(b2)
           /\ file' = WriteAt(f1, IF b2.wpos # b2.pos THEN b2.pos ELSE b2.off, b2.buf)
      ELSE wb' = b2 /\ file' = f1
  BY DEF WriteNolock
<1>2. /\ f1 \in Seq(Cell) /\ b2 \in WriteBuffers /\ b2.wpos = b2.off /\ b2.buf # <<>>
      /\ WriteAt(f1, b2.pos, b2.buf) = WriteAt(Contents, pos, Encode(v))
  <2>1. CASE NeedsFlush(wb, pos)
    <3>1. f1 = Contents /\ b1 = [Flushed(wb) EXCEPT !.pos = pos]
      BY <2>1, Flushing
    <3>2. b1 \in WriteBuffers /\ b1.wpos = b1.off /\ b1.pos = pos /\ b1.buf = <<>>
      BY <3>1, Flushing DEF WriteBuffers
    <3> HIDE DEF b1, f1
    <3>3. b1.buf \o Encode(v) = Encode(v)
      BY <1>0, <3>2
    <3>4. b2 \in WriteBuffers /\ b2.wpos = b2.off /\ b2.pos = pos /\ b2.buf = Encode(v)
      BY <1>0, <3>2, <3>3 DEF WriteBuffers
    <3>5. Encode(v) # <<>>
      BY <1>0
    <3> QED
      BY <1>0, <3>1, <3>4, <3>5
  <2>2. CASE ~NeedsFlush(wb, pos)
    <3>1. f1 = file /\ b2 = [wb EXCEPT !.buf = @ \o Encode(v)] /\ wb.pos + Len(wb.buf) = pos
      BY <2>2 DEF NeedsFlush
    <3>2. wb.buf \in Seq(Cell) /\ wb.pos \in Nat
      BY <1>0 DEF WriteBuffers
    <3>3. wb.buf \o Encode(v) \in Seq(Cell) /\ wb.buf \o Encode(v) # <<>>
      BY <1>0, <3>2
    <3>4. b2 \in WriteBuffers /\ b2.wpos = b2.off /\ b2.pos = wb.pos /\ b2.buf = wb.buf \o Encode(v)
      <4> HIDE DEF b2
      <4> QED
        BY <1>0, <3>1, <3>3 DEF WriteBuffers
    <3>5. WriteAt(file, wb.pos, wb.buf \o Encode(v)) = WriteAt(Contents, pos, Encode(v))
      <4>1. CASE wb.buf = <<>>
        <5>1. Contents = file /\ wb.buf \o Encode(v) = Encode(v) /\ wb.pos = pos
          BY <1>0, <3>1, <3>2, <4>1 DEF Contents
        <5> QED
          BY <5>1
      <4>2. CASE wb.buf # <<>>
        <5>1. Contents = WriteAt(file, wb.pos, wb.buf)
          BY <4>2 DEF Contents
        <5>2. WriteAt(WriteAt(file, wb.pos, wb.buf), wb.pos + Len(wb.buf), Encode(v)) = WriteAt(file, wb.pos, wb.buf \o Encode(v))
          <6>1. file \in Seq(Cell) /\ wb.buf \in Seq(Cell) /\ Encode(v) \in Seq(Cell) /\ wb.pos \in Nat
            BY <1>0, <3>2
          <6> QED
            BY <6>1, WriteBehind
        <5> QED
          BY <3>1, <5>1, <5>2
      <4> QED
        BY <4>1, <4>2
    <3> HIDE DEF b2, f1
    <3> QED
      BY <1>0, <3>1, <3>3, <3>4, <3>5
  <2> QED
    BY <2>1, <2>2
<1> HIDE DEF f1, b2
<1> PICK b \in WriteBuffers : b = b2
  BY <1>2
<1>3. WriteAt(f1, b.pos, b.buf) \in Seq(Cell)
  BY <1>2, WriteAtIs, ZeroCell DEF WriteBuffers
<1>4. CASE IsFull(b)
  <2>1. (IF b.wpos # b.pos THEN b.pos ELSE b.off) = b.pos
    BY <1>2
  <2>2. wb' = [wpos |-> b.pos + Len(b.buf), pos |-> b.pos + Len(b.buf), off |-> b.pos + Len(b.buf), buf |-> <<>>]
    BY <1>1, <1>2, <1>4, <2>1 DEF Flushed
  <2>3. b.pos + Len(b.buf) \in Nat /\ <<>> \in Seq(Cell) /\ Len(<<>>) = 0
    <3>1. b.pos \in Nat /\ b.buf \in Seq(Cell)
      BY DEF WriteBuffers
    <3> QED
      BY <3>1
  <2>4. wb' \in WriteBuffers /\ wb'.wpos = wb'.off /\ wb'.buf = <<>>
    BY <2>2, <2>3 DEF WriteBuffers
  <2>5. file' = WriteAt(f1, b.pos, b.buf)
    BY <1>1, <1>4, <2>1
  <2>6. Contents' = file'
    BY <2>4 DEF Contents
  <2> QED
    BY <1>0, <1>2, <1>3, <2>3, <2>4, <2>5, <2>6
<1>5. CASE ~IsFull(b)
  <2>1. wb' = b /\ file' = f1
    BY <1>1, <1>5
  <2>2. Contents' = WriteAt(f1, b.pos, b.buf)
    BY <1>2, <2>1 DEF Contents
  <2>3. Len(b.buf) + RecordSize <= BufferSize
    <3>1. b.buf \in Seq(Cell) /\ ~(BufferSize - Len(b.buf) < RecordSize)
      BY <1>5 DEF IsFull, WriteBuffers
    <3> PICK n \in Nat : n = Len(b.buf)
      BY <3>1
    <3> QED
      BY <1>0, <3>1
  <2> QED
    BY <1>2, <2>1, <2>2, <2>3
<1> QED
  BY <1>4, <1>5

\* The number of records follows the size of what is written.
LEMMA WriteCounts ==
  ASSUME WrittenInv, NEW idx \in Nat, NEW v \in Value, WriteNolock(idx, v)
  PROVE  /\ Len(Contents') = records' * RecordSize
         /\ records' = IF idx < records THEN records ELSE idx + 1
<1> PICK s \in Nat \ {0}, r \in Nat : s = RecordSize /\ r = records
  BY SizeAssumption DEF WrittenInv, RecordsAreBacked, TypeOK
<1>1. records' = IF idx < r THEN r ELSE idx + 1
  <2>1. records' = Max({r, idx + 1})
    BY DEF WriteNolock
  <2> QED
    BY <2>1, MaxOfTwo
<1>2. Len(Contents') = IF r * s >= s * idx + s THEN r * s ELSE s * idx + s
  <2>1. Contents \in Seq(Cell) /\ Len(Contents) = r * s /\ Encode(v) \in Seq(Cell) /\ Len(Encode(v)) = s /\ s * idx \in Nat
    BY ContentsType, EncodeIs DEF WrittenInv, RecordsAreBacked
  <2>2. Written(WriteAt(Contents, s * idx, Encode(v)), Contents, s * idx, Encode(v))
    BY <2>1, WriteAtIs, ZeroCell
  <2> QED
    BY <2>1, <2>2, Writing DEF Written
<1>3. CASE idx < r
  <2>1. s * idx + s <= s * r /\ s * r = r * s
    BY <1>3, RecordsApart
  <2>2. s * idx \in Nat /\ r * s \in Nat
    OBVIOUS
  <2> QED
    BY <1>1, <1>2, <1>3, <2>1, <2>2
<1>4. CASE ~(idx < r)
  <2>1. r * s <= s * idx
    <3>1. CASE r = idx
      BY <3>1
    <3>2. CASE r < idx
      <4>1. s * r + s <= s * idx /\ s * r = r * s /\ r * s \in Nat /\ s * idx \in Nat
        BY <3>2, RecordsApart
      <4> QED
        BY <4>1
    <3> QED
      BY <1>4, <3>1, <3>2
  <2>2. s * idx + s = (idx + 1) * s
    OBVIOUS
  <2>3. s * idx \in Nat /\ r * s \in Nat
    OBVIOUS
  <2> QED
    BY <1>1, <1>2, <1>4, <2>1, <2>2, <2>3
<1> QED
  BY <1>1, <1>3, <1>4

-----------------------------------------------------------------------------
(* The read buffer                                                         *)

ReadBuffers == [rpos : Int, pos : Nat, left : Nat, right : 0 .. BufferSize, off : Nat, buf : [1 .. BufferSize -> Cell]]

\* Seek() leaves the buffer as it is or empties it.
LEMMA SeekReadIs ==
  ASSUME NEW b \in ReadBuffers, NEW p \in Nat
  PROVE  /\ SeekRead(b, p) \in ReadBuffers
         /\ SeekRead(b, p).pos = p /\ SeekRead(b, p).rpos = b.rpos /\ SeekRead(b, p).off = b.off
         /\ \/ b.pos = p /\ SeekRead(b, p) = b
            \/ SeekRead(b, p).left = 0 /\ SeekRead(b, p).right = 0
<1>0. 0 \in 0 .. BufferSize
  BY SizeAssumption
<1>1. CASE b.pos = p
  BY <1>1 DEF SeekRead
<1>2. CASE b.pos # p
  BY <1>0, <1>2 DEF SeekRead, ReadBuffers
<1> QED
  BY <1>1, <1>2

LEMMA DropCacheIs ==
  ASSUME NEW b \in ReadBuffers
  PROVE  /\ [b EXCEPT !.left = 0, !.right = 0] \in ReadBuffers
         /\ [b EXCEPT !.left = 0, !.right = 0] \in [rpos : {b.rpos}, pos : {b.pos}, left : {0}, right : {0}, off : {b.off}, buf : {b.buf}]
<1>0. 0 \in 0 .. BufferSize
  BY SizeAssumption
<1> QED
  BY <1>0 DEF ReadBuffers

LEMMA ReadAdvances ==
  ASSUME NEW b \in ReadBuffers
  PROVE  /\ [b EXCEPT !.pos = @ + RecordSize, !.left = @ + RecordSize] \in ReadBuffers
         /\ [b EXCEPT !.pos = @ + RecordSize, !.left = @ + RecordSize]
              \in [rpos : {b.rpos}, pos : {b.pos + RecordSize}, left : {b.left + RecordSize}, right : {b.right}, off : {b.off}, buf : {b.buf}]
<1>0. b.pos + RecordSize \in Nat /\ b.left + RecordSize \in Nat
  BY SizeAssumption DEF ReadBuffers
<1> QED
  BY <1>0 DEF ReadBuffers

LEMMA ShortRead ==
  ASSUME NEW bs \in Nat \ {0}, NEW m \in Nat, NEW off \in Nat
  PROVE  LET n == Min({bs, m - off})
         IN  n \in Int /\ (n <= 0 => m <= off) /\ (~(n <= 0) => n \in 1 .. bs /\ off + n <= m /\ (n = bs \/ off + n = m))
<1>1. Min({bs, m - off}) = IF bs <= m - off THEN bs ELSE m - off
  BY MinOfTwo
<1> QED
  BY <1>1

\* DoCache() reads up to the end of the buffer or of the file.
LEMMA DoCacheIs ==
  ASSUME NEW b \in ReadBuffers, NEW f \in Seq(Cell), NEW off \in Nat, off = IF b.rpos # b.pos THEN b.pos ELSE b.off
  PROVE  /\ DoCache(b, f) \in ReadBuffers /\ DoCache(b, f).pos = b.pos /\ DoCache(b, f).left = 0
         /\ \/ Len(f) <= off /\ DoCache(b, f).rpos = -1 /\ DoCache(b, f).right = 0
            \/ \E n \in 1 .. BufferSize :
                 /\ off + n <= Len(f) /\ (n = BufferSize \/ off + n = Len(f))
                 /\ DoCache(b, f).rpos = b.pos + BufferSize /\ DoCache(b, f).off = off + n /\ DoCache(b, f).right = n
                 /\ \A i \in 1 .. n : DoCache(b, f).buf[i] = f[off + i]
<1>0. BufferSize \in Nat \ {0} /\ Len(f) \in Nat
  BY SizeAssumption
<1> PICK m \in Nat, bs \in Nat \ {0} : m = Len(f) /\ bs = BufferSize
  BY <1>0
<1> DEFINE n == Min({bs, m - off})
<1>1. n \in Int /\ (n <= 0 => m <= off) /\ (~(n <= 0) => n \in 1 .. bs /\ off + n <= m /\ (n = bs \/ off + n = m))
  BY ShortRead
<1>2. DoCache(b, f) = IF n <= 0 THEN [b EXCEPT !.rpos = -1, !.off = off, !.left = 0, !.right = 0]
                      ELSE [b EXCEPT !.rpos = b.pos + bs, !.off = off + n, !.left = 0, !.right = n,
                                     !.buf = [i \in 1 .. bs |-> IF i <= n THEN f[off + i] ELSE b.buf[i]]]
  BY DEF DoCache
<1> HIDE DEF n
<1>3. b.rpos \in Int /\ b.pos \in Nat /\ b.left \in Nat /\ b.right \in 0 .. bs /\ b.off \in Nat /\ b.buf \in [1 .. bs -> Cell]
  BY DEF ReadBuffers
<1>4. CASE n <= 0
  <2>1. DoCache(b, f) = [b EXCEPT !.rpos = -1, !.off = off, !.left = 0, !.right = 0]
    BY <1>2, <1>4
  <2>2. -1 \in Int /\ 0 \in Nat /\ 0 \in 0 .. bs
    OBVIOUS
  <2>3. DoCache(b, f) \in [rpos : {-1}, pos : {b.pos}, left : {0}, right : {0}, off : {off}, buf : {b.buf}]
    <3> PICK r \in Int, z \in Nat : r = -1 /\ z = 0
      OBVIOUS
    <3>0. z \in 0 .. BufferSize
      BY <2>2
    <3>1. [b EXCEPT !.rpos = r, !.off = off, !.left = z, !.right = z]
            \in [rpos : {r}, pos : {b.pos}, left : {z}, right : {z}, off : {off}, buf : {b.buf}]
      BY <1>3, <3>0 DEF ReadBuffers
    <3> QED
      BY <2>1, <3>1
  <2> QED
    BY <1>1, <1>3, <1>4, <2>2, <2>3 DEF ReadBuffers
<1>5. CASE ~(n <= 0)
  <2> DEFINE g == [i \in 1 .. bs |-> IF i <= n THEN f[off + i] ELSE b.buf[i]]
  <2>1. DoCache(b, f) = [b EXCEPT !.rpos = b.pos + bs, !.off = off + n, !.left = 0, !.right = n, !.buf = g]
    BY <1>2, <1>5
  <2>2. n \in 1 .. bs /\ off + n <= m /\ (n = bs \/ off + n = m)
    BY <1>1, <1>5
  <2>3. ASSUME NEW i \in 1 .. bs PROVE (IF i <= n THEN f[off + i] ELSE b.buf[i]) \in Cell
    <3>1. i <= n => off + i \in 1 .. Len(f)
      BY <2>2
    <3>2. b.buf[i] \in Cell
      BY <1>3
    <3> QED
      BY <3>1, <3>2
  <2>4. g \in [1 .. bs -> Cell] /\ \A i \in 1 .. n : g[i] = f[off + i]
    BY <2>2, <2>3
  <2> HIDE DEF g
  <2>5. b.pos + bs \in Int /\ off + n \in Nat /\ n \in 0 .. bs /\ 0 \in Nat
    BY <1>3, <2>2
  <2>6. DoCache(b, f) \in [rpos : {b.pos + bs}, pos : {b.pos}, left : {0}, right : {n}, off : {off + n}, buf : {g}]
    <3> PICK r \in Int, z \in Nat, o \in Nat : r = b.pos + bs /\ z = 0 /\ o = off + n
      BY <2>5
    <3>0. n \in 0 .. BufferSize /\ g \in [1 .. BufferSize -> Cell]
      BY <2>4, <2>5
    <3>1. [b EXCEPT !.rpos = r, !.off = o, !.left = z, !.right = n, !.buf = g]
            \in [rpos : {r}, pos : {b.pos}, left : {z}, right : {n}, off : {o}, buf : {g}]
      BY <1>3, <3>0 DEF ReadBuffers
    <3> QED
      BY <2>1, <3>1
  <2>7. DoCache(b, f) \in ReadBuffers
    BY <1>3, <2>4, <2>5, <2>6 DEF ReadBuffers
  <2> QED
    BY <2>2, <2>4, <2>6, <2>7
<1> QED
  BY <1>4, <1>5

LEMMA DecodeType ==
  ASSUME NEW cells
  PROVE  Decode(cells) \in Value \cup {Zero, Garbage}
<1>1. ASSUME NEW v \in Value, cells = Encode(v) PROVE cells[1][1] = v
  <2>1. Encode(v)[1] = <<v, 1>>
    BY EncodeIs, SizeAssumption
  <2> QED
    BY <1>1, <2>1
<1> QED
  BY <1>1 DEF Decode

Results == (0 .. MaxRecords) \X (Value \cup {Zero, EOF, Refused, Garbage})

\* ReadNolock() in one sentence: c is the read buffer from which the record is taken.
ReadsFrom(idx, s, c) ==
  /\ s \in ReadBuffers /\ c \in ReadBuffers
  /\ s = SeekRead(rb, RecordSize * idx)
  /\ \/ ~(s.right - s.left < RecordSize) /\ c = s
     \/ s.right - s.left < RecordSize /\ status = "closed" /\ c = [s EXCEPT !.left = 0, !.right = 0]
     \/ s.right - s.left < RecordSize /\ status # "closed" /\ c = DoCache(s, Contents)
  /\ \/ s.right - s.left < RecordSize /\ c.right = 0 /\ rb' = c /\ result' = <<idx, IF status = "closed" THEN Refused ELSE EOF>>
     \/ /\ ~(s.right - s.left < RecordSize /\ c.right = 0)
        /\ rb' = [c EXCEPT !.pos = @ + RecordSize, !.left = @ + RecordSize]
        /\ result' = <<idx, Decode(SubSeq(c.buf, c.left + 1, c.left + RecordSize))>>

LEMMA Reading ==
  ASSUME WrittenInv, NEW idx \in Nat, ReadNolock(idx)
  PROVE  \E s, c : ReadsFrom(idx, s, c)
<1>1. rb \in ReadBuffers /\ RecordSize * idx \in Nat
  BY SizeAssumption DEF WrittenInv, RecordsAreBacked, TypeOK, ReadBuffers
<1> DEFINE s == SeekRead(rb, RecordSize * idx)
           fill == s.right - s.left < RecordSize
           c == IF ~fill THEN s ELSE IF status = "closed" THEN [s EXCEPT !.left = 0, !.right = 0] ELSE DoCache(s, Contents)
<1>2. s \in ReadBuffers
  BY <1>1, SeekReadIs
<1>3. /\ rb' = IF fill /\ c.right = 0 THEN c ELSE [c EXCEPT !.pos = @ + RecordSize, !.left = @ + RecordSize]
      /\ result' = <<idx, IF fill /\ c.right = 0 THEN (IF status = "closed" THEN Refused ELSE EOF)
                          ELSE Decode(SubSeq(c.buf, c.left + 1, c.left + RecordSize))>>
  <2>1. FlushedFile(wb) = Contents
    BY Flushing
  <2> QED
    BY <2>1 DEF ReadNolock
<1> HIDE DEF s
<1>4. c \in ReadBuffers
  <2>1. CASE ~fill
    BY <1>2, <2>1
  <2>2. CASE fill /\ status = "closed"
    BY <1>2, <2>2, DropCacheIs
  <2>3. CASE fill /\ status # "closed"
    <3>1. Contents \in Seq(Cell)
      BY ContentsType DEF WrittenInv, RecordsAreBacked
    <3>2. PICK off \in Nat : off = IF s.rpos # s.pos THEN s.pos ELSE s.off
      BY <1>2 DEF ReadBuffers
    <3>3. DoCache(s, Contents) \in ReadBuffers
      BY <1>2, <3>1, <3>2, DoCacheIs
    <3> QED
      BY <2>3, <3>3
  <2> QED
    BY <2>1, <2>2, <2>3
<1>5. s = SeekRead(rb, RecordSize * idx)
  BY DEF s
<1>6. \/ ~fill /\ c = s
      \/ fill /\ status = "closed" /\ c = [s EXCEPT !.left = 0, !.right = 0]
      \/ fill /\ status # "closed" /\ c = DoCache(s, Contents)
  OBVIOUS
<1> HIDE DEF c
<1>7. ReadsFrom(idx, s, c)
  BY <1>2, <1>3, <1>4, <1>5, <1>6 DEF ReadsFrom
<1> QED
  BY <1>7

LEMMA ReadKeepsType ==
  ASSUME WrittenInv, NEW idx \in Nat, ReadNolock(idx)
  PROVE  rb' \in ReadBuffers /\ \E out \in Value \cup {Zero, EOF, Refused, Garbage} : result' = <<idx, out>>
<1> PICK s, c : ReadsFrom(idx, s, c)
  BY Reading
<1>1. c \in ReadBuffers
  BY DEF ReadsFrom
<1>2. rb' = c \/ rb' = [c EXCEPT !.pos = @ + RecordSize, !.left = @ + RecordSize]
  BY DEF ReadsFrom
<1>3. \E out : /\ result' = <<idx, out>>
               /\ out \in {EOF, Refused} \/ out = Decode(SubSeq(c.buf, c.left + 1, c.left + RecordSize))
  BY DEF ReadsFrom
<1>4. rb' \in ReadBuffers
  BY <1>1, <1>2, ReadAdvances
<1> QED
  BY <1>3, <1>4, DecodeType

-----------------------------------------------------------------------------
(* What is written is kept                                                 *)

LEMMA WrittenInit == Init => WrittenInv
<1> SUFFICES ASSUME Init PROVE WrittenInv
  OBVIOUS
<1>1. RecordSize \in Nat /\ BufferSize \in Nat /\ RecordSize <= BufferSize /\ MaxRecords \in Nat
  BY SizeAssumption
<1>2. rb \in ReadBuffers /\ wb = NewWriteBuffer
  BY <1>1, ZeroCell DEF Init, NewReadBuffer, ReadBuffers
<1>3. wb \in WriteBuffers /\ wb.buf = <<>> /\ wb.wpos = wb.off
  BY <1>2 DEF NewWriteBuffer, WriteBuffers
<1>4. TypeOK
  BY <1>1, <1>2, <1>3 DEF Init, TypeOK, ReadBuffers, WriteBuffers
<1>5. Contents = file /\ Len(Contents) = 0 * RecordSize
  BY <1>1, <1>3 DEF Init, Contents
<1> QED
  BY <1>1, <1>3, <1>4, <1>5 DEF Init, WrittenInv, RecordsAreBacked

\* A step that empties the write buffer into the file keeps what is written.
LEMMA WrittenKept ==
  ASSUME WrittenInv, file' = Contents, wb' \in WriteBuffers, wb'.buf = <<>>, wb'.wpos = wb'.off,
         status' \in {"rw", "ro", "closed"}, rb' \in ReadBuffers, records' = records,
         result' \in Results
  PROVE  WrittenInv' /\ Contents' = Contents
<1>1. Contents' = Contents
  BY DEF Contents
<1>2. file' \in Seq(Cell)
  BY ContentsType DEF WrittenInv, RecordsAreBacked
<1>3. records \in 0 .. MaxRecords /\ Len(Contents) = records * RecordSize
  BY DEF WrittenInv, RecordsAreBacked, TypeOK
<1>4. TypeOK'
  BY <1>2, <1>3 DEF TypeOK, ReadBuffers, WriteBuffers, Results
<1>5. Len(wb'.buf) + RecordSize <= BufferSize
  BY SizeAssumption
<1> QED
  BY <1>1, <1>3, <1>4, <1>5 DEF WrittenInv, RecordsAreBacked

LEMMA WrittenByWrite ==
  ASSUME WrittenInv, NEW idx \in Nat, idx < MaxRecords, NEW v \in Value, WriteNolock(idx, v)
  PROVE  WrittenInv'
<1>1. /\ file' \in Seq(Cell) /\ wb' \in WriteBuffers /\ wb'.wpos = wb'.off /\ Len(wb'.buf) + RecordSize <= BufferSize
      /\ Len(Contents') = records' * RecordSize
  BY Writing, WriteCounts
<1>2. records' \in 0 .. MaxRecords
  <2>1. records' = IF idx < records THEN records ELSE idx + 1
    BY WriteCounts
  <2>2. records \in 0 .. MaxRecords /\ MaxRecords \in Nat
    BY SizeAssumption DEF WrittenInv, RecordsAreBacked, TypeOK
  <2> QED
    BY <2>1, <2>2
<1>3. rb' \in ReadBuffers /\ status = "rw" /\ status' = "rw" /\ result' = result
  <2>1. rb \in ReadBuffers /\ rb' = [rb EXCEPT !.left = 0, !.right = 0]
    BY DEF WrittenInv, RecordsAreBacked, TypeOK, ReadBuffers, WriteNolock, DropCache
  <2>2. status = "rw" /\ status' = "rw" /\ result' = result
    BY DEF WriteNolock
  <2> QED
    BY <2>1, <2>2, DropCacheIs
<1>4. TypeOK'
  BY <1>1, <1>2, <1>3 DEF WrittenInv, RecordsAreBacked, TypeOK, ReadBuffers, WriteBuffers
<1> QED
  BY <1>1, <1>3, <1>4 DEF WrittenInv, RecordsAreBacked

LEMMA WrittenStep == WrittenInv /\ [Next]_vars => WrittenInv'
<1> SUFFICES ASSUME WrittenInv, [Next]_vars PROVE WrittenInv'
  OBVIOUS
<1>0. /\ rb \in ReadBuffers /\ wb \in WriteBuffers /\ wb.wpos = wb.off /\ records \in Nat
      /\ status \in {"rw", "ro", "closed"} /\ result \in Results /\ records <= MaxRecords /\ MaxRecords \in Nat
  BY SizeAssumption DEF WrittenInv, RecordsAreBacked, TypeOK, ReadBuffers, WriteBuffers, Results
<1>1. ASSUME NEW idx \in 0 .. records, ReadNolock(idx) PROVE WrittenInv'
  <2>0. idx \in Nat /\ idx \in 0 .. MaxRecords
    BY <1>0, <1>1
  <2>1. rb' \in ReadBuffers /\ result' \in Results
    BY <1>1, <2>0, ReadKeepsType DEF Results
  <2>2. file' = Contents /\ wb' = Flushed(wb) /\ status' = status /\ records' = records
    BY <1>1, Flushing DEF ReadNolock
  <2> QED
    BY <1>0, <2>1, <2>2, Flushing, WrittenKept
<1>2. ASSUME NEW idx \in 0 .. records + 1, NEW v \in Value, idx < MaxRecords, WriteNolock(idx, v) PROVE WrittenInv'
  BY <1>0, <1>2, WrittenByWrite
<1>3. ASSUME NEW v \in Value, AppendNolock(v) PROVE WrittenInv'
  BY <1>0, <1>3, WrittenByWrite DEF AppendNolock
<1>4. CASE FlushNolock
  <2>1. file' = Contents /\ wb' = Flushed(wb) /\ status' = status /\ records' = records /\ rb' = rb /\ result' = result
    BY <1>4, Flushing DEF FlushNolock
  <2> QED
    BY <1>0, <2>1, Flushing, WrittenKept
<1>5. CASE Close
  <2>1. file' = Contents /\ wb' = Flushed(wb) /\ status' = "closed" /\ records' = records /\ rb' = rb /\ result' = result
    BY <1>5, Flushing DEF Close
  <2> QED
    BY <1>0, <2>1, Flushing, WrittenKept
<1>6. ASSUME NEW mode \in {"rw", "ro"}, Open(mode) PROVE WrittenInv'
  <2>1. wb.buf = <<>>
    BY <1>6 DEF WrittenInv, Open
  <2>2. Contents = file
    BY <2>1 DEF Contents
  <2>3. records' = records
    <3>1. Len(file) = records * RecordSize /\ records' = Len(file) \div RecordSize
      BY <1>6, <2>2 DEF WrittenInv, RecordsAreBacked, Open
    <3> QED
      BY <1>0, <3>1, SizeOfRecords, SizeAssumption
  <2>4. rb' \in ReadBuffers
    BY <1>6, ZeroCell, SizeAssumption DEF Open, NewReadBuffer, ReadBuffers
  <2>5. wb' \in WriteBuffers /\ wb'.buf = <<>> /\ wb'.wpos = wb'.off
    BY <1>6 DEF Open, NewWriteBuffer, WriteBuffers
  <2>6. file' = Contents /\ status' = mode /\ result' = result
    BY <1>6, <2>2 DEF Open
  <2> QED
    BY <1>0, <2>3, <2>4, <2>5, <2>6, WrittenKept
<1>7. CASE UNCHANGED vars
  BY <1>7 DEF vars, WrittenInv, RecordsAreBacked, TypeOK, Contents
<1> QED
  BY <1>1, <1>2, <1>3, <1>4, <1>5, <1>6, <1>7 DEF Next

LEMMA WrittenAlways == Spec => []WrittenInv
BY WrittenInit, WrittenStep, PTL DEF Spec

\* The records that Store counts are in the file or in the write buffer, through
\* every order of reads, writes, flushes, closings and openings, and in the file
\* alone when the store is not open for writing; the write buffer always has room
\* for one more record.
THEOREM StoreIsBacked == Spec => []RecordsAreBacked
<1>1. WrittenInv => RecordsAreBacked
  BY DEF WrittenInv
<1> QED
  BY <1>1, WrittenAlways, PTL

-----------------------------------------------------------------------------
(* Records                                                                 *)

LEMMA PartIs ==
  ASSUME NEW S, NEW c \in Seq(S), NEW a \in Nat, NEW s \in Nat, a + s <= Len(c)
  PROVE  /\ SubSeq(c, a + 1, a + s) \in Seq(S) /\ Len(SubSeq(c, a + 1, a + s)) = s
         /\ \A k \in 1 .. s : SubSeq(c, a + 1, a + s)[k] = c[a + k]
<1> PICK n \in Nat : n = Len(c)
  OBVIOUS
<1>1. a + s \in Nat /\ a + 1 \in Nat
  OBVIOUS
<1>2. SubSeq(c, a + 1, a + s) = [k \in 1 .. s |-> c[a + k]]
  <2>1. SubSeq(c, a + 1, a + s) = [k \in 1 .. (1 + (a + s) - (a + 1)) |-> c[k + (a + 1) - 1]]
    OBVIOUS
  <2>2. 1 + (a + s) - (a + 1) = s /\ \A k \in 1 .. s : k + (a + 1) - 1 = a + k
    OBVIOUS
  <2> QED
    BY <2>1, <2>2
<1>3. [k \in 1 .. s |-> c[a + k]] \in [1 .. s -> S]
  <2>1. ASSUME NEW k \in 1 .. s PROVE c[a + k] \in S
    <3>1. a + k \in 1 .. Len(c)
      OBVIOUS
    <3> QED
      BY <3>1
  <2> QED
    BY <2>1
<1> DEFINE g == [k \in 1 .. s |-> c[a + k]]
<1>4. \A k \in 1 .. s : g[k] = c[a + k]
  OBVIOUS
<1> HIDE DEF g
<1>5. g \in Seq(S) /\ Len(g) = s
  BY <1>3, FunctionIsSeq DEF g
<1> QED
  BY <1>2, <1>4, <1>5 DEF g

\* The cells of the record with index j, which is the (j + 1)-st.
Slot(c, i) == SubSeq(c, (i - 1) * RecordSize + 1, i * RecordSize)

LEMMA SlotIs ==
  ASSUME NEW c \in Seq(Cell), NEW j \in Nat, RecordSize * j + RecordSize <= Len(c)
  PROVE  /\ Slot(c, j + 1) \in Seq(Cell) /\ Len(Slot(c, j + 1)) = RecordSize
         /\ Slot(c, j + 1) = SubSeq(c, RecordSize * j + 1, RecordSize * j + RecordSize)
         /\ \A k \in 1 .. RecordSize : Slot(c, j + 1)[k] = c[RecordSize * j + k]
<1> PICK s \in Nat \ {0} : s = RecordSize
  BY SizeAssumption
<1>1. ((j + 1) - 1) * s = s * j /\ (j + 1) * s = s * j + s /\ s * j \in Nat
  OBVIOUS
<1>2. Slot(c, j + 1) = SubSeq(c, s * j + 1, s * j + s)
  BY <1>1 DEF Slot
<1>3. \A a \in Nat : a + s <= Len(c) =>
        /\ SubSeq(c, a + 1, a + s) \in Seq(Cell) /\ Len(SubSeq(c, a + 1, a + s)) = s
        /\ \A k \in 1 .. s : SubSeq(c, a + 1, a + s)[k] = c[a + k]
  BY PartIs
<1>4. PICK a \in Nat : a = s * j
  BY <1>1
<1>5. a + s <= Len(c)
  BY <1>4
<1>6. /\ SubSeq(c, a + 1, a + s) \in Seq(Cell) /\ Len(SubSeq(c, a + 1, a + s)) = s
      /\ \A k \in 1 .. s : SubSeq(c, a + 1, a + s)[k] = c[a + k]
  BY <1>3, <1>5
<1>7. Slot(c, j + 1) = SubSeq(c, a + 1, a + s)
  BY <1>2, <1>4
<1> QED
  BY <1>4, <1>6, <1>7

LEMMA DecodeEncode ==
  ASSUME NEW v \in Value
  PROVE  Decode(Encode(v)) = v
<1>1. Encode(v)[1] = <<v, 1>> /\ ZeroRecord[1] = <<Zero, 0>>
  BY SizeAssumption DEF Encode, ZeroRecord
<1>2. Encode(v) # ZeroRecord
  BY <1>1
<1>3. Encode(v)[1][1] = v
  BY <1>1
<1> QED
  BY <1>2, <1>3 DEF Decode

LEMMA ZeroRecordIs ==
  ZeroRecord \in Seq(Cell) /\ Len(ZeroRecord) = RecordSize /\ \A k \in 1 .. RecordSize : ZeroRecord[k] = <<Zero, 0>>
<1>1. ZeroRecord \in [1 .. RecordSize -> Cell]
  BY ZeroCell DEF ZeroRecord
<1>2. ZeroRecord \in Seq(Cell) /\ Len(ZeroRecord) = RecordSize
  BY <1>1, FunctionIsSeq, SizeAssumption
<1> QED
  BY <1>2 DEF ZeroRecord

\* A cell of one record is no cell of another.
LEMMA OtherRecord ==
  ASSUME NEW s \in Nat, NEW i \in Nat, NEW j \in Nat, i # j, NEW k \in 1 .. s
  PROVE  ~(s * i < s * j + k /\ s * j + k <= s * i + s)
<1>1. s * i \in Nat /\ s * j \in Nat
  OBVIOUS
<1> PICK p \in Nat, q \in Nat : p = s * i /\ q = s * j
  BY <1>1
<1>2. CASE i < j
  <2>1. p + s <= q
    BY <1>2, RecordsApart
  <2> QED
    BY <2>1
<1>3. CASE j < i
  <2>1. q + s <= p
    BY <1>3, RecordsApart
  <2> QED
    BY <2>1
<1> QED
  BY <1>2, <1>3

\* What a write does to the record with index j.
LEMMA SlotOfWrite ==
  ASSUME NEW c \in Seq(Cell), NEW w \in Seq(Cell), NEW idx \in Nat, NEW v \in Value, NEW j \in Nat, NEW r \in Nat,
         w = WriteAt(c, RecordSize * idx, Encode(v)), Len(c) = r * RecordSize, RecordSize * j + RecordSize <= Len(w)
  PROVE  /\ j = idx => Slot(w, j + 1) = Encode(v)
         /\ j # idx /\ j < r => Slot(w, j + 1) = Slot(c, j + 1)
         /\ j # idx /\ ~(j < r) => Slot(w, j + 1) = ZeroRecord
<1> PICK s \in Nat \ {0} : s = RecordSize
  BY SizeAssumption
<1>0. s * idx \in Nat /\ s * j \in Nat /\ r * s \in Nat /\ s * r = r * s
  OBVIOUS
<1> PICK p \in Nat, q \in Nat, m \in Nat : p = s * idx /\ q = s * j /\ m = r * s
  BY <1>0
<1>1. Written(w, c, p, Encode(v))
  BY EncodeIs, WriteAtIs, ZeroCell
<1>2. Len(Encode(v)) = s /\ Encode(v) \in Seq(Cell) /\ \A k \in 1 .. s : Encode(v)[k] = <<v, k>>
  BY EncodeIs
<1> PICK lw \in Nat : lw = Len(w)
  OBVIOUS
<1>3. \A i \in 1 .. lw : w[i] = IF p < i /\ i <= p + s THEN Encode(v)[i - p] ELSE IF i <= m THEN c[i] ELSE <<Zero, 0>>
  BY <1>1, <1>2 DEF Written
<1>4. q + s <= lw
  OBVIOUS
<1>5. Slot(w, j + 1) \in Seq(Cell) /\ Len(Slot(w, j + 1)) = s /\ \A k \in 1 .. s : Slot(w, j + 1)[k] = w[q + k]
  <2>1. /\ Slot(w, j + 1) \in Seq(Cell) /\ Len(Slot(w, j + 1)) = RecordSize
        /\ \A k \in 1 .. RecordSize : Slot(w, j + 1)[k] = w[RecordSize * j + k]
    BY SlotIs, Zenon
  <2>2. s = RecordSize /\ q = RecordSize * j
    BY Zenon
  <2> QED
    BY <2>1, <2>2, Zenon
<1>6. \A k \in 1 .. s : q + k \in 1 .. lw
  BY <1>4
<1>7. ASSUME j = idx PROVE Slot(w, j + 1) = Encode(v)
  <2>1. ASSUME NEW k \in 1 .. s PROVE w[q + k] = Encode(v)[k]
    <3>1. p = q /\ p < q + k /\ q + k <= p + s /\ (q + k) - p = k
      BY <1>7
    <3> QED
      BY <1>3, <1>6, <3>1
  <2> QED
    BY <1>2, <1>5, <2>1, SameSeq
<1>8. ASSUME j # idx, NEW k \in 1 .. s PROVE w[q + k] = IF q + k <= m THEN c[q + k] ELSE <<Zero, 0>>
  <2>1. ~(p < q + k /\ q + k <= p + s)
    BY <1>8, OtherRecord
  <2> QED
    BY <1>3, <1>6, <2>1
<1>9. ASSUME j # idx, j < r PROVE Slot(w, j + 1) = Slot(c, j + 1)
  <2>1. q + s <= m
    BY <1>0, <1>9, RecordsApart
  <2>2. Slot(c, j + 1) \in Seq(Cell) /\ Len(Slot(c, j + 1)) = s /\ \A k \in 1 .. s : Slot(c, j + 1)[k] = c[q + k]
    <3>1. RecordSize * j + RecordSize <= Len(c)
      BY <2>1
    <3>2. /\ Slot(c, j + 1) \in Seq(Cell) /\ Len(Slot(c, j + 1)) = RecordSize
          /\ \A k \in 1 .. RecordSize : Slot(c, j + 1)[k] = c[RecordSize * j + k]
      BY <3>1, SlotIs
    <3> QED
      BY <3>2
  <2>3. ASSUME NEW k \in 1 .. s PROVE w[q + k] = c[q + k]
    <3>1. q + k <= m
      BY <2>1
    <3> QED
      BY <1>8, <1>9, <3>1
  <2> QED
    <3>1. PICK x \in Seq(Cell), y \in Seq(Cell) : x = Slot(w, j + 1) /\ y = Slot(c, j + 1)
      BY <1>5, <2>2
    <3>2. Len(x) = s /\ Len(y) = s /\ \A k \in 1 .. s : x[k] = y[k]
      BY <1>5, <2>2, <2>3, <3>1
    <3> QED
      BY <3>1, <3>2, SameSeq
<1>10. ASSUME j # idx, ~(j < r) PROVE Slot(w, j + 1) = ZeroRecord
  <2>1. m <= q
    <3>1. CASE r = j
      BY <1>0, <3>1
    <3>2. CASE r < j
      <4>1. s * r + s <= s * j
        BY <3>2, RecordsApart
      <4>2. m + s <= q
        BY <1>0, <4>1
      <4> QED
        BY <4>2
    <3> QED
      BY <1>10, <3>1, <3>2
  <2>2. ASSUME NEW k \in 1 .. s PROVE w[q + k] = <<Zero, 0>>
    <3>1. ~(q + k <= m)
      BY <2>1
    <3> QED
      BY <1>8, <1>10, <3>1
  <2> QED
    <3>1. PICK x \in Seq(Cell), y \in Seq(Cell) : x = Slot(w, j + 1) /\ y = ZeroRecord
      BY <1>5, ZeroRecordIs
    <3>2. Len(x) = s /\ Len(y) = s /\ \A k \in 1 .. s : x[k] = y[k]
      BY <1>5, <2>2, <3>1, ZeroRecordIs
    <3> QED
      BY <3>1, <3>2, SameSeq
<1> QED
  BY <1>7, <1>9, <1>10

-----------------------------------------------------------------------------
(* The array of records                                                    *)

LEMMA ArrayIs ==
  ASSUME WrittenInv
  PROVE  Len(Array) = records /\ \A i \in 1 .. records : Array[i] = Decode(Slot(Contents, i))
<1>1. Array = [i \in 1 .. records |-> Decode(Slot(Contents, i))] /\ records \in Nat
  BY DEF Array, Slot, WrittenInv, RecordsAreBacked, TypeOK
<1>2. Array \in [1 .. records -> Value \cup {Zero, Garbage}]
  BY <1>1, DecodeType
<1>3. Len(Array) = records
  BY <1>1, <1>2, FunctionIsSeq
<1> QED
  BY <1>1, <1>3

LEMMA ArrayOfWrite ==
  ASSUME WrittenInv, NEW idx \in Nat, NEW v \in Value, WriteNolock(idx, v)
  PROVE  Array' = [i \in 1 .. (IF idx < Len(Array) THEN Len(Array) ELSE idx + 1) |->
                     IF i = idx + 1 THEN v ELSE IF i <= Len(Array) THEN Array[i] ELSE Zero]
<1>1. PICK r \in Nat : r = records /\ Len(Contents) = r * RecordSize /\ Contents \in Seq(Cell)
  BY ContentsType DEF WrittenInv, RecordsAreBacked, TypeOK
<1>2. PICK q \in Nat : q = (IF idx < r THEN r ELSE idx + 1) /\ records' = q /\ Len(Contents') = q * RecordSize
  BY <1>1, WriteCounts
<1>3. PICK w \in Seq(Cell) : w = Contents' /\ w = WriteAt(Contents, RecordSize * idx, Encode(v))
  <2>1. Contents' = WriteAt(Contents, RecordSize * idx, Encode(v))
    BY Writing
  <2>2. RecordSize * idx \in Nat
    BY SizeAssumption
  <2>3. WriteAt(Contents, RecordSize * idx, Encode(v)) \in Seq(Cell)
    BY <1>1, <2>2, EncodeIs, WriteAtIs, ZeroCell
  <2> QED
    BY <2>1, <2>3
<1>4. Array' = [i \in 1 .. q |-> Decode(Slot(w, i))]
  BY <1>2, <1>3 DEF Array, Slot
<1>5. ASSUME NEW i \in 1 .. q PROVE Decode(Slot(w, i)) = IF i = idx + 1 THEN v ELSE IF i <= r THEN Array[i] ELSE Zero
  <2>1. PICK j \in Nat : i = j + 1 /\ j < q
    <3>1. i - 1 \in Nat /\ i = (i - 1) + 1 /\ i - 1 < q
      OBVIOUS
    <3> QED
      BY <3>1
  <2>2. RecordSize * j + RecordSize <= Len(w)
    <3> PICK s \in Nat : s = RecordSize
      BY SizeAssumption
    <3>1. s * j + s <= s * q /\ s * q = q * s
      BY <2>1, RecordsApart
    <3> QED
      BY <1>2, <1>3, <3>1
  <2>3. /\ j = idx => Slot(w, j + 1) = Encode(v)
        /\ j # idx /\ j < r => Slot(w, j + 1) = Slot(Contents, j + 1)
        /\ j # idx /\ ~(j < r) => Slot(w, j + 1) = ZeroRecord
    BY <1>1, <1>3, <2>2, SlotOfWrite
  <2>4. CASE j = idx
    BY <2>1, <2>3, <2>4, DecodeEncode
  <2>5. CASE j # idx /\ j < r
    <3>1. i # idx + 1 /\ i <= r /\ i \in 1 .. records
      BY <1>1, <2>1, <2>5
    <3>2. Array[i] = Decode(Slot(Contents, i))
      BY <3>1, ArrayIs
    <3> QED
      BY <2>1, <2>3, <2>5, <3>1, <3>2
  <2>6. CASE j # idx /\ ~(j < r)
    <3>1. i # idx + 1 /\ ~(i <= r)
      BY <2>1, <2>6
    <3>2. Decode(ZeroRecord) = Zero
      BY DEF Decode
    <3> QED
      BY <2>1, <2>3, <2>6, <3>1, <3>2
  <2> QED
    BY <2>4, <2>5, <2>6
<1>6. Len(Array) = r
  BY <1>1, ArrayIs
<1> HIDE DEF Array
<1>7. [i \in 1 .. q |-> Decode(Slot(w, i))] = [i \in 1 .. q |-> IF i = idx + 1 THEN v ELSE IF i <= r THEN Array[i] ELSE Zero]
  BY <1>5
<1> QED
  BY <1>2, <1>4, <1>6, <1>7

-----------------------------------------------------------------------------
(* What is read                                                            *)

\* The handle is where rpos says, or no record begins at rpos, or the handle is at
\* the beginning of an earlier record.
HandleKnown(b) == b.rpos # b.off => NoRecordAt(b.rpos) \/ (b.off < b.rpos /\ ~NoRecordAt(b.off))

\* The read buffer b repeats c at its origin.
Faithful(b, c) ==
  /\ HandleKnown(b)
  /\ b.left <= b.right
  /\ b.left < b.right => Origin(b) = b.pos \/ (Origin(b) < b.pos /\ ~NoRecordAt(Origin(b)))
  /\ \A i \in 1 .. b.right - b.left : Origin(b) + i <= Len(c) /\ b.buf[b.left + i] = c[Origin(b) + i]

\* An emptied buffer repeats everything.
LEMMA EmptyIsFaithful ==
  ASSUME NEW b, NEW c, b.left = 0, b.right = 0, HandleKnown(b)
  PROVE  Faithful(b, c)
BY DEF Faithful

\* Seek() leaves a buffer that repeats c.
LEMMA SoughtIsFaithful ==
  ASSUME NEW b \in ReadBuffers, NEW c, Faithful(b, c), NEW p \in Nat
  PROVE  Faithful(SeekRead(b, p), c)
<1>1. PICK s \in ReadBuffers : s = SeekRead(b, p) /\ s.rpos = b.rpos /\ s.off = b.off /\ (s = b \/ (s.left = 0 /\ s.right = 0))
  BY SeekReadIs
<1>2. CASE s = b
  BY <1>1, <1>2
<1>3. CASE s.left = 0 /\ s.right = 0
  <2>1. HandleKnown(s)
    BY <1>1 DEF Faithful, HandleKnown
  <2> QED
    BY <1>1, <1>3, <2>1, EmptyIsFaithful
<1> QED
  BY <1>1, <1>2, <1>3

\* Where DoCache() reads when the record with index idx is asked for: there, or at an
\* earlier record without a seek.
LEMMA HandleAtRecord ==
  ASSUME NEW b \in ReadBuffers, HandleKnown(b), NEW idx \in 0 .. MaxRecords, b.pos = RecordSize * idx
  PROVE  \E k \in 0 .. idx : /\ (IF b.rpos # b.pos THEN b.pos ELSE b.off) = RecordSize * k
                             /\ k = idx \/ (b.rpos = b.pos /\ b.off # b.pos)
<1>0. RecordSize \in Nat \ {0} /\ MaxRecords \in Nat
  BY SizeAssumption
<1>1. CASE b.rpos # b.pos \/ b.off = b.pos
  BY <1>0, <1>1
<1>2. CASE b.rpos = b.pos /\ b.off # b.pos
  <2>1. ~NoRecordAt(b.rpos)
    BY <1>2 DEF NoRecordAt
  <2>2. b.off < b.pos /\ ~NoRecordAt(b.off)
    BY <1>2, <2>1 DEF HandleKnown
  <2>3. PICK k \in 0 .. MaxRecords : b.off = RecordSize * k
    BY <2>2 DEF NoRecordAt
  <2>4. k < idx
    <3>1. CASE idx < k
      <4>1. RecordSize * idx + RecordSize <= RecordSize * k
        BY <1>0, <3>1, RecordsApart
      <4>2. PICK x \in Nat, y \in Nat : x = RecordSize * idx /\ y = RecordSize * k
        BY <1>0
      <4> QED
        BY <1>0, <2>2, <2>3, <4>1, <4>2
    <3>2. CASE idx = k
      BY <2>2, <2>3, <3>2, <1>0
    <3> QED
      BY <1>0, <3>1, <3>2
  <2>5. k \in 0 .. idx
    BY <1>0, <2>4
  <2> QED
    BY <1>2, <2>3, <2>5
<1> QED
  BY <1>1, <1>2

\* Two facts of arithmetic, apart from the products of the proofs that use them.
LEMMA ShorterSum ==
  ASSUME NEW o \in Nat, NEW n \in Nat, NEW p \in Nat, NEW w \in Nat, o <= p, n <= w, o + n # p + w
  PROVE  o + n < p + w
OBVIOUS

LEMMA SumIsLonger ==
  ASSUME NEW o \in Nat, NEW w \in Nat, NEW n \in 1 .. w
  PROVE  ~(o + n <= o)
OBVIOUS

\* DoCache() reads whole records from where its handle is, or fails at the end.
LEMMA FilledIsFaithful ==
  ASSUME NEW b \in ReadBuffers, NEW c \in Seq(Cell), NEW r \in Nat, NEW idx \in 0 .. r, r <= MaxRecords,
         b.pos = RecordSize * idx, Len(c) = r * RecordSize,
         NEW k \in 0 .. idx, (IF b.rpos # b.pos THEN b.pos ELSE b.off) = RecordSize * k
  PROVE  /\ Faithful(DoCache(b, c), c) /\ DoCache(b, c).pos = b.pos
         /\ IF k < r THEN /\ DoCache(b, c).right # 0 /\ RecordSize <= DoCache(b, c).right - DoCache(b, c).left
                          /\ Origin(DoCache(b, c)) = RecordSize * k
            ELSE DoCache(b, c).right = 0
<1> PICK s \in Nat \ {0}, bs \in Nat : s = RecordSize /\ bs = BufferSize /\ s <= bs
  BY SizeAssumption
<1> PICK p \in Nat, o \in Nat : p = s * idx /\ o = s * k
  OBVIOUS
<1> PICK m \in Nat : m = Len(c) /\ m = r * s
  OBVIOUS
<1>a. idx \in Nat /\ k \in Nat /\ k <= idx /\ idx <= r /\ MaxRecords \in Nat
  BY SizeAssumption
<1>0. (k < r => o + s <= m) /\ (~(k < r) => o = m) /\ (k < idx => o + s <= p) /\ (k = idx => o = p)
  <2>1. ASSUME k < r PROVE o + s <= m
    <3>1. s * k + s <= s * r /\ s * r = r * s
      BY <1>a, <2>1, RecordsApart
    <3> QED
      BY <3>1
  <2>2. ASSUME ~(k < r) PROVE o = m
    <3>1. k = r
      BY <1>a, <2>2
    <3> QED
      BY <3>1
  <2>3. ASSUME k < idx PROVE o + s <= p
    <3>1. s * k + s <= s * idx
      BY <1>a, <2>3, RecordsApart
    <3> QED
      BY <3>1
  <2> QED
    BY <2>1, <2>2, <2>3
<1>1. o <= p
  BY <1>0, <1>a
<1>2. PICK d : d = DoCache(b, c)
  OBVIOUS
<1>3. /\ d \in ReadBuffers /\ d.pos = p /\ d.left = 0
      /\ \/ m <= o /\ d.rpos = -1 /\ d.right = 0
         \/ \E n \in 1 .. bs :
              /\ o + n <= m /\ (n = bs \/ o + n = m)
              /\ d.rpos = p + bs /\ d.off = o + n /\ d.right = n
              /\ \A i \in 1 .. n : d.buf[i] = c[o + i]
  <2>1. o = IF b.rpos # b.pos THEN b.pos ELSE b.off
    OBVIOUS
  <2>2. /\ DoCache(b, c) \in ReadBuffers /\ DoCache(b, c).pos = b.pos /\ DoCache(b, c).left = 0
        /\ \/ Len(c) <= o /\ DoCache(b, c).rpos = -1 /\ DoCache(b, c).right = 0
           \/ \E n \in 1 .. BufferSize :
                /\ o + n <= Len(c) /\ (n = BufferSize \/ o + n = Len(c))
                /\ DoCache(b, c).rpos = b.pos + BufferSize /\ DoCache(b, c).off = o + n /\ DoCache(b, c).right = n
                /\ \A i \in 1 .. n : DoCache(b, c).buf[i] = c[o + i]
    BY <2>1, DoCacheIs
  <2>3. b.pos = p
    OBVIOUS
  <2>4. bs = BufferSize /\ m = Len(c)
    OBVIOUS
  <2>5. d \in ReadBuffers /\ d.pos = p /\ d.left = 0
    BY <1>2, <2>2, <2>3, Zenon
  <2>6. CASE Len(c) <= o /\ DoCache(b, c).rpos = -1 /\ DoCache(b, c).right = 0
    <3>1. m <= o /\ d.rpos = -1 /\ d.right = 0
      BY <1>2, <2>4, <2>6, Zenon
    <3> QED
      BY <2>5, <3>1, Zenon
  <2>7. ASSUME NEW n \in 1 .. BufferSize,
               o + n <= Len(c), n = BufferSize \/ o + n = Len(c),
               DoCache(b, c).rpos = b.pos + BufferSize, DoCache(b, c).off = o + n,
               DoCache(b, c).right = n,
               \A i \in 1 .. n : DoCache(b, c).buf[i] = c[o + i]
        PROVE  /\ n \in 1 .. bs
               /\ o + n <= m /\ (n = bs \/ o + n = m)
               /\ d.rpos = p + bs /\ d.off = o + n /\ d.right = n
               /\ \A i \in 1 .. n : d.buf[i] = c[o + i]
    BY <1>2, <2>3, <2>4, <2>7, Zenon
  <2> QED
    BY <2>2, <2>5, <2>6, <2>7, Zenon
<1>4. CASE m <= o /\ d.rpos = -1 /\ d.right = 0
  <2>1. NoRecordAt(-1)
    <3>1. ASSUME NEW j \in 0 .. MaxRecords PROVE -1 # s * j
      <4>1. s * j \in Nat
        BY SizeAssumption
      <4> QED
        BY <4>1
    <3> QED
      BY <3>1 DEF NoRecordAt
  <2>2. ~(k < r)
    BY <1>0, <1>4
  <2>3. HandleKnown(d)
    BY <1>4, <2>1 DEF HandleKnown
  <2> QED
    BY <1>2, <1>3, <1>4, <2>2, <2>3, EmptyIsFaithful
<1>5. ASSUME NEW n \in 1 .. bs, o + n <= m, n = bs \/ o + n = m,
             d.rpos = p + bs, d.off = o + n, d.right = n, \A i \in 1 .. n : d.buf[i] = c[o + i]
      PROVE  Faithful(d, c) /\ k < r /\ d.right # 0 /\ s <= d.right - d.left /\ Origin(d) = o
  <2>1. k < r
    <3>1. CASE ~(k < r)
      <4>1. o + n <= o
        BY <1>0, <1>5, <3>1, Zenon
      <4> QED
        BY <4>1, SumIsLonger, Zenon
    <3> QED
      BY <3>1, Zenon
  <2>2. s <= n
    BY <1>0, <1>5, <2>1
  <2>3. HandleKnown(d)
    <3>1. ASSUME d.rpos # d.off, NEW j \in 0 .. MaxRecords, p + bs = s * j PROVE d.off < d.rpos /\ ~NoRecordAt(d.off)
      <4>0. j \in Nat
        BY <1>a
      <4>1. d.off < d.rpos
        <5>1. n \in Nat /\ n <= bs
          OBVIOUS
        <5>2. o + n # p + bs
          BY <1>5, <3>1, Zenon
        <5>3. o + n < p + bs
          BY <1>1, <5>1, <5>2, ShorterSum, Zenon
        <5> QED
          BY <1>5, <5>3, Zenon
      <4>2. CASE o + n = m
        <5>1. d.off = RecordSize * r /\ r \in 0 .. MaxRecords
          BY <1>5, <1>a, <4>2
        <5> QED
          BY <4>1, <5>1 DEF NoRecordAt
      <4>3. CASE n = bs
        <5>1. idx <= j
          <6>1. CASE j < idx
            <7>1. s * j + s <= s * idx
              BY <1>a, <4>0, <6>1, RecordsApart
            <7>2. p + bs + s <= p
              BY <3>1, <7>1
            <7> QED
              BY <7>2
          <6> QED
            BY <1>a, <4>0, <6>1
        <5>2. PICK e \in Nat : j = idx + e
          <6>1. j - idx \in Nat /\ j = idx + (j - idx)
            BY <1>a, <4>0, <5>1
          <6> QED
            BY <6>1
        <5>3. s * j = s * idx + s * e /\ s * e \in Nat
          BY <1>a, <5>2
        <5>4. bs = s * e
          BY <3>1, <5>3
        <5>5. s * (k + e) = s * k + s * e
          BY <1>a
        <5>6. d.off = s * (k + e)
          BY <1>5, <4>3, <5>4, <5>5
        <5>7. k + e \in 0 .. MaxRecords
          BY <1>a, <4>0, <5>2
        <5> QED
          BY <4>1, <5>6, <5>7 DEF NoRecordAt
      <4> QED
        BY <1>5, <4>2, <4>3
    <3> QED
      BY <1>5, <3>1 DEF NoRecordAt, HandleKnown
  <2>4. Origin(d) = o
    BY <1>3, <1>5 DEF Origin
  <2>5. ASSUME NEW i \in 1 .. d.right - d.left PROVE Origin(d) + i <= Len(c) /\ d.buf[d.left + i] = c[Origin(d) + i]
    <3>0. d.left = 0 /\ d.right = n /\ d.right - d.left = n
      BY <1>3, <1>5
    <3>1. i \in 1 .. n /\ d.left + i = i
      BY <3>0
    <3>2. o + i <= m
      BY <1>5, <3>1
    <3> QED
      BY <1>3, <1>5, <2>4, <3>1, <3>2
  <2>6. d.left <= d.right /\ d.right # 0 /\ s <= d.right - d.left
    BY <1>3, <1>5, <2>2
  <2>7. Origin(d) = d.pos \/ (Origin(d) < d.pos /\ ~NoRecordAt(Origin(d)))
    <3>1. k \in 0 .. MaxRecords /\ o = RecordSize * k
      BY <1>a
    <3>2. ~NoRecordAt(o)
      BY <3>1 DEF NoRecordAt
    <3> QED
      BY <1>1, <1>3, <2>4, <3>2
  <2> QED
    BY <2>1, <2>3, <2>4, <2>5, <2>6, <2>7 DEF Faithful
<1>6. d.pos = b.pos
  BY <1>3
<1> QED
  BY <1>2, <1>3, <1>4, <1>5, <1>6

\* Taking a record from a buffer that repeats c yields the record of c at the origin
\* of the buffer and leaves a buffer that repeats c.
LEMMA TakenIsFaithful ==
  ASSUME NEW b \in ReadBuffers, NEW c \in Seq(Cell), NEW r \in Nat, r <= MaxRecords, NEW k \in 0 .. r,
         Faithful(b, c), Origin(b) = RecordSize * k, Len(c) = r * RecordSize, RecordSize <= b.right - b.left
  PROVE  /\ k < r
         /\ SubSeq(b.buf, b.left + 1, b.left + RecordSize) = Slot(c, k + 1)
         /\ Faithful([b EXCEPT !.pos = @ + RecordSize, !.left = @ + RecordSize], c)
<1>0. RecordSize \in Nat \ {0} /\ BufferSize \in Nat /\ MaxRecords \in Nat /\ k \in Nat
  BY SizeAssumption
<1> PICK s \in Nat \ {0} : s = RecordSize
  BY <1>0
<1>1. PICK q \in Nat, f \in Nat, l \in Nat, h \in 0 .. BufferSize : q = b.pos /\ f = b.off /\ l = b.left /\ h = b.right
  BY DEF ReadBuffers
<1> PICK m \in Nat : m = Len(c) /\ m = r * s
  OBVIOUS
<1> PICK p \in Nat : p = s * k
  BY <1>0
<1>2. h \in Nat /\ h <= BufferSize /\ s <= h - l /\ p = Origin(b) /\ p = f - h + l
  BY <1>0, <1>1 DEF Origin
<1>3. \A i \in 1 .. h - l : p + i <= m /\ b.buf[l + i] = c[p + i]
  BY <1>1, <1>2 DEF Faithful
<1>4. p + s <= m
  <2>1. s \in 1 .. h - l
    BY <1>2
  <2> QED
    BY <1>3, <2>1
<1>5. k < r
  <2>1. CASE k = r
    <3>1. p = m
      BY <1>2, <2>1
    <3> QED
      BY <1>4, <3>1
  <2> QED
    BY <2>1
<1>6. SubSeq(b.buf, l + 1, l + s) = Slot(c, k + 1)
  <2>1. b.buf \in Seq(Cell) /\ Len(b.buf) = BufferSize
    <3>1. b.buf \in [1 .. BufferSize -> Cell]
      BY DEF ReadBuffers
    <3> QED
      BY <1>0, <3>1, FunctionIsSeq
  <2>2. PICK x : x = SubSeq(b.buf, l + 1, l + s)
    OBVIOUS
  <2>3. x \in Seq(Cell) /\ Len(x) = s /\ \A i \in 1 .. s : x[i] = b.buf[l + i]
    <3>1. l + s <= Len(b.buf)
      BY <1>0, <1>2, <2>1
    <3> QED
      BY <2>1, <2>2, <3>1, PartIs
  <2>4. RecordSize * k + RecordSize <= Len(c) /\ k \in Nat
    BY <1>0, <1>4
  <2>5. /\ Slot(c, k + 1) \in Seq(Cell) /\ Len(Slot(c, k + 1)) = RecordSize
        /\ \A i \in 1 .. RecordSize : Slot(c, k + 1)[i] = c[RecordSize * k + i]
    BY <2>4, SlotIs
  <2>6. PICK y \in Seq(Cell) : y = Slot(c, k + 1) /\ Len(y) = s /\ \A i \in 1 .. s : y[i] = c[p + i]
    BY <1>2, <2>5
  <2>7. ASSUME NEW i \in 1 .. s PROVE x[i] = y[i]
    <3>1. i \in 1 .. h - l
      BY <1>2
    <3> QED
      BY <1>3, <2>3, <2>6, <3>1
  <2> QED
    BY <2>2, <2>3, <2>6, <2>7, SameSeq
<1>7. PICK d : d = [b EXCEPT !.pos = @ + RecordSize, !.left = @ + RecordSize]
  OBVIOUS
<1>8. d.rpos = b.rpos /\ d.pos = q + s /\ d.left = l + s /\ d.right = h /\ d.off = b.off /\ d.buf = b.buf
  BY <1>1, <1>7, ReadAdvances
<1>9. Origin(d) = p + s
  <2>1. Origin(d) = f - h + (l + s)
    BY <1>1, <1>8 DEF Origin
  <2>2. f - h + (l + s) = (f - h + l) + s
    BY <1>2
  <2> QED
    BY <1>2, <2>1, <2>2
<1>10. Faithful(d, c)
  <2>1. HandleKnown(d)
    BY <1>8 DEF Faithful, HandleKnown
  <2>2. d.left <= d.right
    BY <1>2, <1>8
  <2>3. ASSUME NEW i \in 1 .. d.right - d.left PROVE Origin(d) + i <= Len(c) /\ d.buf[d.left + i] = c[Origin(d) + i]
    <3>1. i \in Nat /\ s + i \in 1 .. h - l
      BY <1>2, <1>8
    <3>2. p + (s + i) <= m /\ b.buf[l + (s + i)] = c[p + (s + i)]
      BY <1>3, <3>1
    <3>3. p + (s + i) = (p + s) + i /\ l + (s + i) = (l + s) + i
      BY <3>1
    <3> QED
      BY <1>8, <1>9, <3>2, <3>3
  <2>4. Origin(d) = d.pos \/ (Origin(d) < d.pos /\ ~NoRecordAt(Origin(d)))
    <3>0. b.left < b.right
      <4>1. l < h
        BY <1>2
      <4> QED
        BY <1>1, <4>1
    <3>1. p = q \/ p < q
      BY <1>1, <1>2, <3>0 DEF Faithful
    <3>2. p + s = s * (k + 1) /\ k + 1 \in 0 .. MaxRecords
      BY <1>0, <1>5
    <3>3. ~NoRecordAt(p + s)
      BY <3>2 DEF NoRecordAt
    <3> QED
      BY <1>8, <1>9, <3>1, <3>3
  <2> QED
    BY <2>1, <2>2, <2>3, <2>4 DEF Faithful
<1> QED
  BY <1>1, <1>5, <1>6, <1>7, <1>10

LEMMA ReadAnswers ==
  ASSUME IInv, NEW idx \in 0 .. records, ReadNolock(idx)
  PROVE  /\ Faithful(rb', Contents)
         /\ \/ result' = <<idx, IF idx < records THEN Array[idx + 1] ELSE EOF>>
            \/ status = "closed" /\ result' = <<idx, Refused>>
            \/ IsAstray(idx) /\ \E j \in 0 .. idx - 1 : result' = <<idx, Array[j + 1]>>
<1>0. /\ WrittenInv /\ rb \in ReadBuffers /\ records \in Nat /\ records <= MaxRecords /\ idx \in Nat
      /\ Contents \in Seq(Cell) /\ Len(Contents) = records * RecordSize /\ Faithful(rb, Contents)
  <2>1. WrittenInv /\ CacheIsFaithful /\ TypeOK
    BY DEF IInv, WrittenInv, RecordsAreBacked
  <2>2. rb \in ReadBuffers /\ records \in Nat /\ records <= MaxRecords /\ idx \in Nat
    BY <2>1, SizeAssumption DEF TypeOK, ReadBuffers
  <2>3. Faithful(rb, Contents)
    BY <2>1 DEF CacheIsFaithful, Faithful, HandleKnown
  <2>4. Contents \in Seq(Cell)
    BY <2>1, ContentsType
  <2>5. Len(Contents) = records * RecordSize
    BY <2>1 DEF WrittenInv, RecordsAreBacked
  <2> QED
    BY <2>1, <2>2, <2>3, <2>4, <2>5
<1>1. PICK s, c : ReadsFrom(idx, s, c)
  BY <1>0, Reading
<1>2. PICK p \in Nat : p = RecordSize * idx
  BY <1>0, SizeAssumption
<1>3. s \in ReadBuffers /\ c \in ReadBuffers /\ s = SeekRead(rb, p)
  BY <1>1, <1>2 DEF ReadsFrom
<1>4. s.pos = RecordSize * idx /\ Faithful(s, Contents)
  BY <1>0, <1>2, <1>3, SeekReadIs, SoughtIsFaithful
<1>5. s.left \in Nat /\ s.right \in Nat /\ RecordSize \in Nat \ {0} /\ MaxRecords \in Nat
  BY <1>3, SizeAssumption DEF ReadBuffers
<1>6. \/ ~(s.right - s.left < RecordSize) /\ c = s
      \/ s.right - s.left < RecordSize /\ status = "closed" /\ c = [s EXCEPT !.left = 0, !.right = 0]
      \/ s.right - s.left < RecordSize /\ status # "closed" /\ c = DoCache(s, Contents)
  BY <1>1 DEF ReadsFrom
<1>7. \/ s.right - s.left < RecordSize /\ c.right = 0 /\ rb' = c /\ result' = <<idx, IF status = "closed" THEN Refused ELSE EOF>>
      \/ /\ ~(s.right - s.left < RecordSize /\ c.right = 0)
         /\ rb' = [c EXCEPT !.pos = @ + RecordSize, !.left = @ + RecordSize]
         /\ result' = <<idx, Decode(SubSeq(c.buf, c.left + 1, c.left + RecordSize))>>
  BY <1>1 DEF ReadsFrom
<1>a. IsAstray(idx) <=> IF s.right - s.left < RecordSize THEN status # "closed" /\ s.rpos = s.pos /\ s.off # s.pos
                        ELSE Origin(s) # s.pos
  BY <1>2, <1>3 DEF IsAstray
<1>8. ASSUME NEW k \in 0 .. idx, k = idx \/ IsAstray(idx),
             Faithful(c, Contents), Origin(c) = RecordSize * k, RecordSize <= c.right - c.left,
             rb' = [c EXCEPT !.pos = @ + RecordSize, !.left = @ + RecordSize],
             result' = <<idx, Decode(SubSeq(c.buf, c.left + 1, c.left + RecordSize))>>
      PROVE  /\ Faithful(rb', Contents)
             /\ \/ result' = <<idx, IF idx < records THEN Array[idx + 1] ELSE EOF>>
                \/ IsAstray(idx) /\ \E j \in 0 .. idx - 1 : result' = <<idx, Array[j + 1]>>
  <2>0. k \in 0 .. records
    BY <1>0
  <2>1. /\ k < records
        /\ SubSeq(c.buf, c.left + 1, c.left + RecordSize) = Slot(Contents, k + 1)
        /\ Faithful([c EXCEPT !.pos = @ + RecordSize, !.left = @ + RecordSize], Contents)
    BY <1>0, <1>3, <1>8, <2>0, TakenIsFaithful
  <2>2. k + 1 \in 1 .. records
    BY <1>0, <2>0, <2>1
  <2>3. Array[k + 1] = Decode(Slot(Contents, k + 1))
    BY <1>0, <2>2, ArrayIs
  <2>4. result' = <<idx, Array[k + 1]>>
    BY <1>8, <2>1, <2>3
  <2>5. CASE k = idx
    BY <1>8, <2>1, <2>4, <2>5
  <2>6. CASE k # idx
    <3>1. k \in 0 .. idx - 1
      BY <1>0, <2>6
    <3> QED
      BY <1>8, <2>1, <2>4, <2>6, <3>1
  <2> QED
    BY <2>5, <2>6
<1>9. CASE ~(s.right - s.left < RecordSize) /\ c = s
  <2>1. RecordSize <= c.right - c.left /\ c.left < c.right
    BY <1>5, <1>9
  <2>2. \E k \in 0 .. idx : Origin(c) = RecordSize * k /\ (k = idx \/ Origin(s) # s.pos)
    <3>1. CASE Origin(c) = c.pos
      BY <1>0, <1>4, <1>9, <3>1
    <3>2. CASE Origin(c) < c.pos /\ ~NoRecordAt(Origin(c))
      <4>1. PICK k \in 0 .. MaxRecords : Origin(c) = RecordSize * k
        BY <3>2 DEF NoRecordAt
      <4>2. PICK x \in Nat : x = RecordSize * k
        BY <1>5, <4>1
      <4>3. x < p
        BY <1>2, <1>4, <1>9, <3>2, <4>1, <4>2
      <4>4. CASE idx < k
        <5>1. RecordSize * idx + RecordSize <= RecordSize * k
          BY <1>0, <1>5, <4>4, RecordsApart
        <5> QED
          BY <1>2, <1>5, <4>2, <4>3, <5>1
      <4>5. CASE k <= idx
        <5>1. k \in 0 .. idx
          BY <1>5, <4>5
        <5>2. Origin(s) # s.pos
          BY <1>2, <1>4, <1>9, <4>1, <4>2, <4>3
        <5> QED
          BY <4>1, <5>1, <5>2
      <4> QED
        BY <1>0, <1>5, <4>4, <4>5
    <3> QED
      BY <1>4, <1>9, <2>1, <3>1, <3>2 DEF Faithful
  <2>3. PICK k \in 0 .. idx : Origin(c) = RecordSize * k /\ (k = idx \/ Origin(s) # s.pos)
    BY <2>2
  <2>4. k = idx \/ IsAstray(idx)
    BY <1>9, <1>a, <2>3
  <2>5. Faithful(c, Contents)
    BY <1>4, <1>9
  <2> QED
    BY <1>7, <1>8, <1>9, <2>1, <2>3, <2>4, <2>5
<1>10. CASE s.right - s.left < RecordSize /\ status = "closed" /\ c = [s EXCEPT !.left = 0, !.right = 0]
  <2>1. c.left = 0 /\ c.right = 0 /\ c.rpos = s.rpos /\ c.off = s.off
    BY <1>3, <1>10, DropCacheIs
  <2>2. HandleKnown(c)
    BY <1>4, <2>1 DEF Faithful, HandleKnown
  <2>3. Faithful(c, Contents)
    BY <2>1, <2>2, EmptyIsFaithful
  <2> QED
    BY <1>7, <1>10, <2>1, <2>3
<1>11. CASE s.right - s.left < RecordSize /\ status # "closed" /\ c = DoCache(s, Contents)
  <2>0. idx \in 0 .. MaxRecords /\ HandleKnown(s)
    BY <1>0, <1>4, <1>5 DEF Faithful
  <2>1. PICK k \in 0 .. idx : /\ (IF s.rpos # s.pos THEN s.pos ELSE s.off) = RecordSize * k
                              /\ k = idx \/ (s.rpos = s.pos /\ s.off # s.pos)
    BY <1>3, <1>4, <2>0, HandleAtRecord
  <2>2. /\ Faithful(c, Contents)
        /\ IF k < records THEN c.right # 0 /\ RecordSize <= c.right - c.left /\ Origin(c) = RecordSize * k ELSE c.right = 0
    BY <1>0, <1>3, <1>4, <1>11, <2>1, FilledIsFaithful
  <2>3. k = idx \/ IsAstray(idx)
    BY <1>11, <1>a, <2>1
  <2>4. CASE k < records
    BY <1>7, <1>8, <1>11, <2>2, <2>3, <2>4
  <2>5. CASE ~(k < records)
    <3>1. ~(idx < records)
      BY <1>0, <2>5
    <3> QED
      BY <1>7, <1>11, <2>2, <2>5, <3>1
  <2> QED
    BY <2>4, <2>5
<1> QED
  BY <1>6, <1>9, <1>10, <1>11

-----------------------------------------------------------------------------
(* The store is an array                                                   *)

\* Only a write changes what is written.
LEMMA ContentsKept ==
  ASSUME WrittenInv,
         (\E idx \in 0 .. records : ReadNolock(idx)) \/ FlushNolock \/ Close \/ (\E mode \in {"rw", "ro"} : Open(mode))
  PROVE  Contents' = Contents /\ records' = records /\ Array' = Array
<1>1. CASE (\E idx \in 0 .. records : ReadNolock(idx)) \/ FlushNolock \/ Close
  <2>1. file' = Contents /\ wb'.buf = <<>> /\ records' = records
    BY <1>1, Flushing DEF ReadNolock, FlushNolock, Close
  <2> QED
    BY <2>1 DEF Contents, Array
<1>2. CASE \E mode \in {"rw", "ro"} : Open(mode)
  <2>1. wb.buf = <<>> /\ wb'.buf = <<>> /\ file' = file /\ records' = Len(file) \div RecordSize
    BY <1>2 DEF WrittenInv, Open, NewWriteBuffer
  <2>2. Contents = file /\ Contents' = Contents
    BY <2>1 DEF Contents
  <2>3. records \in Nat /\ Len(file) = records * RecordSize
    BY <2>2 DEF WrittenInv, RecordsAreBacked, TypeOK
  <2>4. records' = records
    BY <2>1, <2>3, SizeOfRecords, SizeAssumption
  <2> QED
    BY <2>2, <2>4 DEF Array
<1> QED
  BY <1>1, <1>2

LEMMA CacheInit == Init => CacheIsFaithful
<1> SUFFICES ASSUME Init PROVE CacheIsFaithful
  OBVIOUS
<1>1. rb.left = 0 /\ rb.right = 0 /\ rb.rpos = rb.off
  BY DEF Init, NewReadBuffer
<1>2. Faithful(rb, Contents)
  BY <1>1, EmptyIsFaithful DEF HandleKnown
<1> QED
  BY <1>2 DEF Faithful, HandleKnown, CacheIsFaithful

LEMMA CacheStep ==
  ASSUME IInv, [Next]_vars
  PROVE  CacheIsFaithful'
<1>0. WrittenInv /\ rb \in ReadBuffers /\ Faithful(rb, Contents)
  BY DEF IInv, WrittenInv, RecordsAreBacked, TypeOK, ReadBuffers, CacheIsFaithful, Faithful, HandleKnown
<1>1. ASSUME Faithful(rb', Contents') PROVE CacheIsFaithful'
  BY <1>1 DEF Faithful, HandleKnown, CacheIsFaithful
<1>2. ASSUME NEW idx \in 0 .. records, ReadNolock(idx) PROVE CacheIsFaithful'
  <2>1. Faithful(rb', Contents)
    BY <1>2, ReadAnswers
  <2>2. Contents' = Contents
    BY <1>0, <1>2, ContentsKept
  <2> QED
    BY <1>1, <2>1, <2>2
<1>3. ASSUME NEW idx, NEW v, WriteNolock(idx, v) PROVE CacheIsFaithful'
  <2>1. rb' = [rb EXCEPT !.left = 0, !.right = 0]
    BY <1>3 DEF WriteNolock, DropCache
  <2>2. rb'.left = 0 /\ rb'.right = 0 /\ rb'.rpos = rb.rpos /\ rb'.off = rb.off
    BY <1>0, <2>1, DropCacheIs
  <2>3. HandleKnown(rb')
    BY <1>0, <2>2 DEF Faithful, HandleKnown
  <2> QED
    BY <1>1, <2>2, <2>3, EmptyIsFaithful
<1>4. CASE FlushNolock \/ Close
  <2>1. rb' = rb
    BY <1>4 DEF FlushNolock, Close
  <2>2. Contents' = Contents
    BY <1>0, <1>4, ContentsKept
  <2> QED
    BY <1>0, <1>1, <2>1, <2>2
<1>5. ASSUME NEW mode, Open(mode) PROVE CacheIsFaithful'
  <2>1. rb'.left = 0 /\ rb'.right = 0 /\ rb'.rpos = rb'.off
    BY <1>5 DEF Open, NewReadBuffer
  <2>2. HandleKnown(rb')
    BY <2>1 DEF HandleKnown
  <2> QED
    BY <1>1, <2>1, <2>2, EmptyIsFaithful
<1>6. CASE UNCHANGED vars
  <2>1. rb' = rb /\ Contents' = Contents
    BY <1>6 DEF vars, Contents
  <2> QED
    BY <1>0, <1>1, <2>1
<1> QED
  BY <1>2, <1>3, <1>4, <1>5, <1>6 DEF Next, AppendNolock

LEMMA ArrayInit == Init => Abstract!Init
<1> SUFFICES ASSUME Init PROVE Abstract!Init
  OBVIOUS
<1>1. WrittenInv /\ records = 0
  BY WrittenInit DEF Init
<1>2. Array = <<>>
  BY <1>1 DEF Array
<1> QED
  BY <1>2 DEF Init, Abstract!Init

LEMMA ArrayStep ==
  ASSUME IInv, [Next]_vars
  PROVE  [Abstract!Next \/ \E idx \in 0 .. records : AstrayRead(idx)]_<<status # "closed", Array, result>>
<1>0. WrittenInv /\ records \in Nat /\ Len(Array) = records
  BY ArrayIs DEF IInv, WrittenInv, RecordsAreBacked, TypeOK
<1>1. ASSUME NEW idx \in 0 .. records, ReadNolock(idx) PROVE Abstract!Next \/ AstrayRead(idx)
  <2>1. \/ result' = <<idx, IF idx < records THEN Array[idx + 1] ELSE EOF>>
        \/ status = "closed" /\ result' = <<idx, Refused>>
        \/ IsAstray(idx) /\ \E j \in 0 .. idx - 1 : result' = <<idx, Array[j + 1]>>
    BY <1>1, ReadAnswers
  <2>2. status' = status /\ Array' = Array
    BY <1>0, <1>1, ContentsKept DEF ReadNolock
  <2>3. CASE ~IsAstray(idx)
    <3>1. Abstract!Read(idx)
      BY <1>0, <2>1, <2>2, <2>3 DEF Abstract!Read
    <3>2. idx \in 0 .. Len(Array) + 1
      BY <1>0
    <3> QED
      BY <3>1, <3>2 DEF Abstract!Next
  <2>4. CASE IsAstray(idx)
    <3>1. CASE \E j \in 0 .. idx - 1 : result' = <<idx, Array[j + 1]>>
      BY <2>2, <2>4, <3>1 DEF AstrayRead
    <3>2. CASE ~(\E j \in 0 .. idx - 1 : result' = <<idx, Array[j + 1]>>)
      <4>1. Abstract!Read(idx)
        BY <1>0, <2>1, <2>2, <3>2 DEF Abstract!Read
      <4>2. idx \in 0 .. Len(Array) + 1
        BY <1>0
      <4> QED
        BY <4>1, <4>2 DEF Abstract!Next
    <3> QED
      BY <3>1, <3>2
  <2> QED
    BY <2>3, <2>4
<1>2. ASSUME NEW idx \in 0 .. records + 1, NEW v \in Value, WriteNolock(idx, v) PROVE Abstract!Next
  <2>1. idx \in Nat /\ idx \in 0 .. Len(Array) + 1
    BY <1>0
  <2>2. Array' = [i \in 1 .. (IF idx < Len(Array) THEN Len(Array) ELSE idx + 1) |->
                    IF i = idx + 1 THEN v ELSE IF i <= Len(Array) THEN Array[i] ELSE Zero]
    BY <1>0, <1>2, <2>1, ArrayOfWrite
  <2>3. status = "rw" /\ status' = status /\ result' = result
    BY <1>2 DEF WriteNolock
  <2>4. Abstract!Write(idx, v)
    BY <2>2, <2>3 DEF Abstract!Write
  <2> QED
    BY <2>1, <2>4 DEF Abstract!Next
<1>3. ASSUME NEW v \in Value, AppendNolock(v) PROVE Abstract!Next
  <2>1. records \in 0 .. records + 1
    BY <1>0
  <2> QED
    BY <1>2, <1>3, <2>1 DEF AppendNolock
<1>4. CASE FlushNolock
  <2>1. Array' = Array
    BY <1>0, <1>4, ContentsKept
  <2> QED
    BY <1>4, <2>1 DEF FlushNolock
<1>5. CASE Close
  <2>1. Array' = Array
    BY <1>0, <1>5, ContentsKept
  <2>2. Abstract!OpenOrClose
    BY <1>5, <2>1 DEF Close, Abstract!OpenOrClose
  <2> QED
    BY <2>2 DEF Abstract!Next
<1>6. ASSUME NEW mode \in {"rw", "ro"}, Open(mode) PROVE Abstract!Next
  <2>1. Array' = Array
    BY <1>0, <1>6, ContentsKept
  <2>2. Abstract!OpenOrClose
    BY <1>6, <2>1 DEF Open, Abstract!OpenOrClose
  <2> QED
    BY <2>2 DEF Abstract!Next
<1>7. CASE UNCHANGED vars
  BY <1>7 DEF vars, Array, Contents
<1> QED
  BY <1>1, <1>2, <1>3, <1>4, <1>5, <1>6, <1>7 DEF Next

\* For every record size and buffer size, the store with its two buffers, two file
\* positions and cached size is an array of records: a read of an index returns the
\* latest write of that index and nothing else, unless it is a read for which
\* DoCache() did not seek although the handle was elsewhere.
THEOREM StoreImplementsArray == Spec => ImplementsArray
<1>1. Init => IInv
  BY WrittenInit, CacheInit DEF IInv
<1>2. IInv /\ [Next]_vars => IInv'
  BY WrittenStep, CacheStep DEF IInv
<1>3. IInv /\ [Next]_vars => [Abstract!Next \/ \E idx \in 0 .. records : AstrayRead(idx)]_<<status # "closed", Array, result>>
  BY ArrayStep
<1> QED
  BY <1>1, <1>2, <1>3, ArrayInit, PTL DEF Spec, ImplementsArray
=============================================================================
