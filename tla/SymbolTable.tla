---------------------------- MODULE SymbolTable ----------------------------
(***************************************************************************)
(* The symbol table of a traced program (types.SymbolsData) and the        *)
(* look-ups from a program counter to a module, a function and a line that *)
(* the server, the API client, the SQL rows and the viewer share.          *)
(* A table is a record of four sequences.  FileID is an index from 0, as   *)
(* in the code, so file k is Files[k + 1].                                 *)
(***************************************************************************)
EXTENDS Integers, Sequences, FiniteSets, FiniteSetsExt

NoTable == [Files |-> <<>>, Mods |-> <<>>, Funcs |-> <<>>, Lines |-> <<>>]

\* The keys by which the three tables of program counters are ordered.
Entries(sd) == [i \in DOMAIN sd.Funcs |-> sd.Funcs[i].Entry]
LinePCs(sd) == [i \in DOMAIN sd.Lines |-> sd.Lines[i].PC]

Increasing(keys) == \A i \in DOMAIN keys : keys[i] > (IF i = 1 THEN 0 ELSE keys[i - 1])

ValidMods(mods) ==
  \A i \in DOMAIN mods :
    /\ mods[i].MinPC # 0 /\ mods[i].MaxPC # 0 /\ mods[i].MinPC < mods[i].MaxPC
    /\ mods[i].MinPC > (IF i = 1 THEN 0 ELSE mods[i - 1].MaxPC)

ValidFuncs(sd) ==
  /\ \A i \in DOMAIN sd.Funcs : sd.Funcs[i].Name # "" /\ sd.Funcs[i].Entry # 0
  /\ Increasing(Entries(sd))

ValidLines(sd) ==
  /\ \A i \in DOMAIN sd.Lines : /\ sd.Lines[i].PC # 0 /\ sd.Lines[i].Line # 0
                                /\ sd.Lines[i].FileID < Len(sd.Files)
  /\ Increasing(LinePCs(sd))

\* SymbolsData.Validate(): Load() panics on a table that does not satisfy it.
Validate(sd) ==
  /\ \A i \in DOMAIN sd.Files : sd.Files[i] # ""
  /\ ValidMods(sd.Mods) /\ ValidFuncs(sd) /\ ValidLines(sd)

-----------------------------------------------------------------------------
(* The look-ups.  Each returns the index it finds, 0 when it finds none.   *)

GoModule(sd, pc) ==
  LET hits == {i \in DOMAIN sd.Mods : sd.Mods[i].MinPC <= pc /\ pc <= sd.Mods[i].MaxPC}
  IN  IF hits = {} THEN 0 ELSE Min(hits)

\* The loop of GoFunc and GoLine: keys below the module are skipped, the loop
\* breaks at the first key above the module or above pc, and the last key seen
\* before that is the result.
Scan(keys, mod, pc) ==
  LET breaks  == {i \in DOMAIN keys : keys[i] >= mod.MinPC /\ (keys[i] > mod.MaxPC \/ keys[i] > pc)}
      stop    == IF breaks = {} THEN Len(keys) + 1 ELSE Min(breaks)
      visited == {i \in 1..(stop - 1) : keys[i] >= mod.MinPC}
  IN  IF visited = {} THEN 0 ELSE Max(visited)

GoFunc(sd, pc) ==
  LET m == GoModule(sd, pc) IN IF m = 0 THEN 0 ELSE Scan(Entries(sd), sd.Mods[m], pc)

GoLine(sd, pc) ==
  LET m == GoModule(sd, pc) IN IF m = 0 THEN 0 ELSE Scan(LinePCs(sd), sd.Mods[m], pc)

\* The file of a line that was found: read from the files of a table that may
\* have been replaced since.  FileID = len(Files) passes the check and panics.
FileOf(files, fileID) ==
  CASE fileID < Len(files) -> files[fileID + 1]
    [] fileID = Len(files) -> "panic"
    [] OTHER               -> "?"

File(sd, pc) == LET l == GoLine(sd, pc) IN IF l = 0 THEN "?" ELSE FileOf(sd.Files, sd.Lines[l].FileID)

Line(sd, pc) == LET l == GoLine(sd, pc) IN IF l = 0 THEN -1 ELSE sd.Lines[l].Line

FileLine(sd, pc) == <<File(sd, pc), Line(sd, pc)>>

-----------------------------------------------------------------------------
(* What the look-ups are for: the entry of the pc's own module that starts *)
(* last at or before the pc.                                               *)

Covering(sd, pc) == {m \in 1..Len(sd.Mods) : pc \in sd.Mods[m].MinPC..sd.Mods[m].MaxPC}

NearestKey(sd, keys, pc) ==
  LET own == {i \in DOMAIN keys : /\ keys[i] <= pc
                                  /\ \E m \in Covering(sd, pc) : keys[i] >= sd.Mods[m].MinPC}
  IN  IF own = {} THEN 0 ELSE CHOOSE i \in own : \A j \in own : keys[j] <= keys[i]
=============================================================================
