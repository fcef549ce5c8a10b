---------------------------- MODULE RecordStore -----------------------------
(***************************************************************************)
(* tracer/storage/store.go and buffer.go: a file of fixed-size records     *)
(* with a read buffer and a write buffer, each with its own file handle.   *)
(* The callers hold the store's lock, so each operation is one step.       *)
(*                                                                         *)
(* The unit of position is a cell, a part of a record: a record has        *)
(* RecordSize cells, a buffer BufferSize of them (100 records in the code, *)
(* or 4096 bytes when that is more). I/O errors other than the end of the  *)
(* file are not modelled.                                                  *)
(***************************************************************************)
EXTENDS Integers, Sequences, FiniteSetsExt

CONSTANTS
  RecordSize, BufferSize,
  MaxRecords,  \* bound: indexes are below it
  Value, Zero, EOF, Refused

ASSUME SizeAssumption ==
  /\ RecordSize \in Nat \ {0}
  /\ BufferSize \in Nat
  /\ RecordSize <= BufferSize
  /\ MaxRecords \in Nat

VARIABLES
  status,   \* "rw", "ro" or "closed"
  file,     \* the cells of the file
  records,  \* Store.records
  rb,       \* ReadBuffer, with the offset of its file handle
  wb,       \* WriteBuffer, with the offset of its file handle
  result    \* the latest read: its index and its outcome

vars == <<status, file, records, rb, wb, result>>

-----------------------------------------------------------------------------
(* Cells, records and files *)

Encode(v) == [k \in 1 .. RecordSize |-> <<v, k>>]

ZeroRecord == [k \in 1 .. RecordSize |-> <<Zero, 0>>]

Garbage == "garbage"

Decode(cells) ==
  IF cells = ZeroRecord THEN Zero
  ELSE IF \E v \in Value : cells = Encode(v) THEN cells[1][1]
  ELSE Garbage

\* The file after cells are written at offset off; a gap reads as zeros.
WriteAt(f, off, cells) ==
  [i \in 1 .. Max({Len(f), off + Len(cells)}) |->
     IF off < i /\ i <= off + Len(cells) THEN cells[i - off]
     ELSE IF i <= Len(f) THEN f[i] ELSE <<Zero, 0>>]

NewReadBuffer == [rpos |-> 0, pos |-> 0, left |-> 0, right |-> 0, off |-> 0,
                  buf |-> [i \in 1 .. BufferSize |-> <<Zero, 0>>]]

NewWriteBuffer == [wpos |-> 0, pos |-> 0, off |-> 0, buf |-> <<>>]

-----------------------------------------------------------------------------
(* WriteBuffer. buf holds the cells between left (always 0) and right. *)

\* Flush(): the file and the buffer after it.
FlushedFile(b) ==
  IF b.buf = <<>> THEN file
  ELSE WriteAt(file, IF b.wpos # b.pos THEN b.pos ELSE b.off, b.buf)

Flushed(b) ==
  IF b.buf = <<>> THEN b
  ELSE LET n == Len(b.buf)
           off == IF b.wpos # b.pos THEN b.pos ELSE b.off
       IN [wpos |-> b.pos + n, pos |-> b.pos + n, off |-> off + n, buf |-> <<>>]

\* Seek(): the write position stays when pos is the end of the buffered range.
NeedsFlush(b, pos) == b.pos + Len(b.buf) # pos

\* Write(): the buffer is flushed when the next record might not fit.
IsFull(b) == BufferSize - Len(b.buf) < RecordSize

-----------------------------------------------------------------------------
(* ReadBuffer *)

\* Seek(): also a position inside the buffer drops it, because the branch that
\* would keep it falls through.
SeekRead(b, pos) == IF b.pos = pos THEN b ELSE [b EXCEPT !.pos = pos, !.left = 0, !.right = 0]

\* Seeded bug: a write leaves the read buffer as it is.
DropCache_Not(b) == b

DropCache(b) == [b EXCEPT !.left = 0, !.right = 0]

\* DoCache(): fill the buffer from file f; rpos advances by the size of the
\* buffer even when the file ends earlier.
DoCache(b, f) ==
  LET off == IF b.rpos # b.pos THEN b.pos ELSE b.off
      n == Min({BufferSize, Len(f) - off})
  IN IF n <= 0
     THEN [b EXCEPT !.rpos = -1, !.off = off, !.left = 0, !.right = 0]
     ELSE [b EXCEPT !.rpos = b.pos + BufferSize, !.off = off + n, !.left = 0, !.right = n,
                    !.buf = [i \in 1 .. BufferSize |-> IF i <= n THEN f[off + i] ELSE b.buf[i]]]

-----------------------------------------------------------------------------
(* Store *)

Init ==
  /\ status = "rw"
  /\ file = <<>>
  /\ records = 0
  /\ rb = NewReadBuffer
  /\ wb = NewWriteBuffer
  /\ result = <<0, EOF>>

\* A closed store still answers from its read buffer, and fails once it would
\* have to read the file.
ReadNolock(idx) ==
  LET f == FlushedFile(wb)
      sought == SeekRead(rb, RecordSize * idx)
      fill == sought.right - sought.left < RecordSize
      cached == IF ~fill THEN sought
                ELSE IF status = "closed" THEN [sought EXCEPT !.left = 0, !.right = 0]
                ELSE DoCache(sought, f)
      failed == fill /\ cached.right = 0
  IN
  /\ file' = f
  /\ wb' = Flushed(wb)
  /\ rb' = IF failed THEN cached
           ELSE [cached EXCEPT !.pos = @ + RecordSize, !.left = @ + RecordSize]
  /\ result' = <<idx, IF failed THEN (IF status = "closed" THEN Refused ELSE EOF)
                      ELSE Decode(SubSeq(cached.buf, cached.left + 1, cached.left + RecordSize))>>
  /\ UNCHANGED <<status, records>>

WriteNolock(idx, v) ==
  LET pos == RecordSize * idx
      f1 == IF NeedsFlush(wb, pos) THEN FlushedFile(wb) ELSE file
      b1 == IF NeedsFlush(wb, pos) THEN [Flushed(wb) EXCEPT !.pos = pos] ELSE wb
      b2 == [b1 EXCEPT !.buf = @ \o Encode(v)]
  IN
  /\ status = "rw"
  /\ rb' = DropCache(rb)
  /\ IF IsFull(b2)
     THEN /\ wb' = Flushed(b2)
          /\ file' = WriteAt(f1, IF b2.wpos # b2.pos THEN b2.pos ELSE b2.off, b2.buf)
     ELSE wb' = b2 /\ file' = f1
  /\ records' = Max({records, idx + 1})
  /\ UNCHANGED <<status, result>>

AppendNolock(v) == records < MaxRecords /\ WriteNolock(records, v)

FlushNolock ==
  /\ status = "rw"
  /\ file' = FlushedFile(wb)
  /\ wb' = Flushed(wb)
  /\ UNCHANGED <<status, records, rb, result>>

\* Seeded bug: the write buffer is not flushed.
Close_NoFlush ==
  /\ status # "closed"
  /\ status' = "closed"
  /\ wb' = NewWriteBuffer
  /\ UNCHANGED <<file, records, rb, result>>

Close ==
  /\ status # "closed"
  /\ status' = "closed"
  /\ file' = FlushedFile(wb)
  /\ wb' = Flushed(wb)
  /\ UNCHANGED <<records, rb, result>>

\* A fresh handle each; the number of records is taken from the file size.
Open(mode) ==
  /\ status = "closed"
  /\ status' = mode
  /\ rb' = NewReadBuffer
  /\ wb' = NewWriteBuffer
  /\ records' = Len(file) \div RecordSize
  /\ UNCHANGED <<file, result>>

\* A read one past the end stands for any read past it, a write that leaves a
\* gap of one record for any gap.
Next ==
  \/ \E idx \in 0 .. records : idx <= MaxRecords /\ ReadNolock(idx)
  \/ \E idx \in 0 .. records + 1, v \in Value : idx < MaxRecords /\ WriteNolock(idx, v)
  \/ \E v \in Value : AppendNolock(v)
  \/ FlushNolock
  \/ Close
  \/ \E mode \in {"rw", "ro"} : Open(mode)

Spec == Init /\ [][Next]_vars

-----------------------------------------------------------------------------
Cell == (Value \X (1 .. RecordSize)) \cup {<<Zero, 0>>}

TypeOK ==
  /\ status \in {"rw", "ro", "closed"}
  /\ file \in Seq(Cell)
  /\ records \in 0 .. MaxRecords
  /\ rb \in [rpos : Int, pos : Nat, left : Nat, right : 0 .. BufferSize, off : Nat,
             buf : [1 .. BufferSize -> Cell]]
  /\ wb \in [wpos : Nat, pos : Nat, off : Nat, buf : Seq(Cell)]
  /\ result \in (0 .. MaxRecords) \X (Value \cup {Zero, EOF, Refused, Garbage})

\* The records as a reader should see them: the write buffer over the file.
Contents == IF wb.buf = <<>> THEN file ELSE WriteAt(file, wb.pos, wb.buf)

Array == [i \in 1 .. records |->
            Decode(SubSeq(Contents, (i - 1) * RecordSize + 1, i * RecordSize))]

\* records counts what file and buffer hold together; after Close() and when
\* the store is read-only the file alone holds everything. Between two operations
\* the write buffer has room for one more record, so the slice that WriteBuffer()
\* returns stays inside it; and "FileWriter の現在の位置" (buffer.go), wpos, is the
\* position of the file handle.
RecordsAreBacked ==
  /\ TypeOK
  /\ Len(wb.buf) + RecordSize <= BufferSize
  /\ wb.wpos = wb.off
  /\ Len(Contents) = records * RecordSize
  /\ status # "rw" => Contents = file

\* The place in the file from which the next cell of the read buffer was read.
Origin(b) == b.off - b.right + b.left

\* DoCache() takes rpos for "FileReader の現在の位置" (buffer.go:21), but after a short
\* read it is ahead of the handle (buffer.go:96). A read of the record that begins
\* exactly there does not seek and goes astray, and so do the reads that are
\* answered from the buffer which it filled.
IsAstray(idx) ==
  LET b == SeekRead(rb, RecordSize * idx) IN
  IF b.right - b.left < RecordSize THEN status # "closed" /\ b.rpos = b.pos /\ b.off # b.pos
  ELSE Origin(b) # b.pos

AstrayRead(idx) ==
  /\ IsAstray(idx)
  /\ \E j \in 0 .. idx - 1 : result' = <<idx, Array[j + 1]>>
  /\ UNCHANGED <<status, Array>>

\* The store implements an array of records: through any sequence of writes,
\* flushes and reopenings a read of an index returns the latest write of that
\* index, or the end of the file. The exception is a read that goes astray: it
\* returns an earlier record, also when the store has none with this index
\* (Store.ReadNolock, ReadBuffer.DoCache).
Abstract == INSTANCE RecordArray WITH open <- status # "closed", array <- Array
ImplementsArray ==
  Abstract!Init /\ [][Abstract!Next \/ \E idx \in 0 .. records : AstrayRead(idx)]_<<status # "closed", Array, result>>

-----------------------------------------------------------------------------
(***************************************************************************)
(* The inductive invariant. The write buffer is empty when the store is    *)
(* not open for writing. The read buffer repeats what file and write       *)
(* buffer hold at its origin, which is its position or, when it was filled *)
(* astray, the beginning of an earlier record; and a handle that is not at *)
(* rpos is at the beginning of an earlier record, unless no record begins  *)
(* at rpos.                                                                *)
(***************************************************************************)
NoRecordAt(n) == \A j \in 0 .. MaxRecords : n # RecordSize * j

WrittenInv ==
  /\ RecordsAreBacked
  /\ status # "rw" => wb.buf = <<>>

CacheIsFaithful ==
  /\ rb.rpos # rb.off => NoRecordAt(rb.rpos) \/ (rb.off < rb.rpos /\ ~NoRecordAt(rb.off))
  /\ rb.left <= rb.right
  /\ rb.left < rb.right => Origin(rb) = rb.pos \/ (Origin(rb) < rb.pos /\ ~NoRecordAt(Origin(rb)))
  /\ \A i \in 1 .. rb.right - rb.left :
       Origin(rb) + i <= Len(Contents) /\ rb.buf[rb.left + i] = Contents[Origin(rb) + i]

IInv == WrittenInv /\ CacheIsFaithful
=============================================================================
