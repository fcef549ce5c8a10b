----------------------------- MODULE CallLedger -----------------------------
(***************************************************************************)
(* What recording a trace promises: a ledger of calls, numbered from 0 in  *)
(* the order in which their starts arrive. A call is opened under the      *)
(* innermost open call of its goroutine, is closed once, innermost first,  *)
(* and is never altered, forgotten or renumbered afterwards. Simulator,    *)
(* stores, flushing and closing are invisible.                             *)
(***************************************************************************)
EXTENDS TraceTypes

VARIABLE ledger  \* ledger[id] is the FuncLog of the call with this ID

Open(g) == {id \in DOMAIN ledger : ledger[id].GID = g /\ ledger[id].EndTime = NotEnded}

\* id is the innermost open call of g; NotFoundParent when it has none.
Innermost(g, id) ==
  \/ Open(g) = {} /\ id = NotFoundParent
  \/ id \in Open(g) /\ \A other \in Open(g) : other <= id

Init == ledger = EmptyMap

Begin(g, tx, ts) ==
  \E parent \in DOMAIN ledger \cup {NotFoundParent}, id \in {0} \cup {n + 1 : n \in DOMAIN ledger} :
    /\ DOMAIN ledger = 0 .. id - 1
    /\ Innermost(g, parent)
    /\ ledger' = With(ledger, id,
         [StartTime |-> ts, EndTime |-> NotEnded, ParentID |-> parent,
          Frames |-> Append(IF parent = NotFoundParent THEN <<>> ELSE ledger[parent].Frames, tx),
          GID |-> g])

End(g, ts) ==
  \E id \in Open(g) :
    /\ Innermost(g, id)
    /\ ts >= ledger[id].StartTime
    /\ ledger' = [ledger EXCEPT ![id].EndTime = ts]

Next ==
  \E g \in GID, ts \in Time :
    \/ \E tx \in TxID : Begin(g, tx, ts)
    \/ End(g, ts)

Spec == Init /\ [][Next]_ledger
=============================================================================
