---------------------------- MODULE RecordArray -----------------------------
(***************************************************************************)
(* What a record store promises: an array of records that grows when a     *)
(* record is written beyond its end, where a slot that was skipped reads   *)
(* as the zero record. Buffers, seeks and files are invisible. Closing and *)
(* opening change no record; while the store is closed nothing is written  *)
(* and a read may be refused.                                              *)
(***************************************************************************)
EXTENDS Integers, Sequences

CONSTANTS
  Value,  \* the records that are written
  Zero,   \* a record of zero bytes
  EOF,    \* the error of a read beyond the end
  Refused \* the error of a read of a closed file

VARIABLES
  open,
  array,  \* the records; the record with index i is array[i + 1]
  result  \* the latest read: its index and its outcome

Init == open = TRUE /\ array = <<>> /\ result = <<0, EOF>>

Read(idx) ==
  /\ \/ result' = <<idx, IF idx < Len(array) THEN array[idx + 1] ELSE EOF>>
     \/ ~open /\ result' = <<idx, Refused>>
  /\ UNCHANGED <<open, array>>

Write(idx, v) ==
  /\ open
  /\ array' = [i \in 1 .. (IF idx < Len(array) THEN Len(array) ELSE idx + 1) |->
                 IF i = idx + 1 THEN v ELSE IF i <= Len(array) THEN array[i] ELSE Zero]
  /\ UNCHANGED <<open, result>>

OpenOrClose == open' = ~open /\ UNCHANGED <<array, result>>

Next ==
  \/ \E idx \in 0 .. Len(array) + 1 : Read(idx) \/ \E v \in Value : Write(idx, v)
  \/ OpenOrClose

Spec == Init /\ [][Next]_<<open, array, result>>
=============================================================================
