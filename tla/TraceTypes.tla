----------------------------- MODULE TraceTypes -----------------------------
(***************************************************************************)
(* The records that the tracer and the log server exchange                 *)
(* (tracer/types/log.go, tracer/types/types.go), and maps.                 *)
(*                                                                         *)
(* A stack trace (Frames) is the sequence of the traced calls that are on  *)
(* the stack, outermost first, each named by its TxID: program counters    *)
(* and untraced frames are abstracted away.                                *)
(***************************************************************************)
EXTENDS Integers, Sequences, Functions

CONSTANTS
  GID,   \* goroutine IDs of the traced process
  TxID,  \* transaction IDs, one per traced call
  Time   \* timestamps

ASSUME TimeAssumption == Time \subseteq Nat

NotEnded == -1
NotFoundParent == -1

FuncStart == "FuncStart"
FuncEnd == "FuncEnd"

RawFuncLog ==
  [Tag : {FuncStart, FuncEnd}, Timestamp : Time, Frames : Seq(TxID), GID : GID, TxID : TxID]

FuncLog ==
  [StartTime : Time, EndTime : Time \cup {NotEnded}, ParentID : Nat \cup {NotFoundParent},
   Frames : Seq(TxID), GID : GID]

Goroutine == [StartTime : Time, EndTime : Time \cup {NotEnded}]

IsEnded(fl) == fl.EndTime # NotEnded

-----------------------------------------------------------------------------
(* Go maps: functions whose domain is the set of keys that are present.    *)

EmptyMap == [x \in {} |-> x]

With(m, k, v) == [x \in DOMAIN m \cup {k} |-> IF x = k THEN v ELSE m[x]]

Without(m, S) == Restrict(m, DOMAIN m \ S)

\* The map m after every entry of n has been stored into it.
Merge(m, n) == [x \in DOMAIN m \cup DOMAIN n |-> IF x \in DOMAIN n THEN n[x] ELSE m[x]]

IsMap(m, K, V) == DOMAIN m \subseteq K /\ m \in [DOMAIN m -> V]
=============================================================================
