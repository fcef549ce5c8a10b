---------------------------- MODULE MCWireFormat ----------------------------
EXTENDS WireFormat

Packet(t, b) == [type |-> t, body |-> b]

TheHellos ==
  {Packet("ClientHello", [PID |-> 37, AppName |-> <<1, 2>>, Host |-> <<>>, ClientSecret |-> <<3>>, ProtocolVersion |-> <<1>>]),
   Packet("ServerHello", [ProtocolVersion |-> <<1>>])}

\* The last of these does not fit into PackTo's buffer.
TheCommands ==
  {Packet("StartTraceCmd", [FuncName |-> <<1, 2>>]), Packet("StopTraceCmd", [FuncName |-> <<2>>]),
   Packet("StartTraceCmd", [FuncName |-> [i \in 1..38 |-> 1 + (i % 3)]])}

Raw(id, tag, frames) ==
  [ID |-> id, Tag |-> tag, Timestamp |-> 90, Frames |-> frames, GID |-> 1, TxID |-> 1234567]
TheSmall == {Packet("RawFuncLog", Raw(11, 0, <<>>)), Packet("RawFuncLog", Raw(12, 1, <<[PC |-> 105]>>)), Packet("Shutdown", <<>>)}

TheLarge ==
  {Packet("Symbol", [Files |-> <<>>, Mods |-> <<>>, Funcs |-> <<>>, Lines |-> <<[PC |-> 105, FileID |-> 1, Line |-> 7]>>]),
   Packet("Symbol", [Files |-> <<[Name |-> <<4, 5>>], [Name |-> <<>>]>>, Mods |-> <<[Name |-> <<6>>, MinPC |-> 100, MaxPC |-> 199]>>,
                     Funcs |-> <<[Name |-> <<7>>, Entry |-> 104], [Name |-> <<8, 8>>, Entry |-> 150]>>,
                     Lines |-> <<[PC |-> 105, FileID |-> 1, Line |-> 7]>>])}

TheRecords ==
  {Packet("RawFuncLog", Raw(11, 0, <<>>)), Packet("RawFuncLog", Raw(12, 1, <<[PC |-> 105]>>)),
   Packet("Goroutine", [GID |-> 1, StartTime |-> 0, EndTime |-> 12345678]), Packet("Goroutine", [GID |-> 1, StartTime |-> 7, EndTime |-> 8])}
  \cup {Packet("FuncLog", [ID |-> i, StartTime |-> 5, EndTime |-> e, ParentID |-> 3, Frames |-> f, GID |-> 1]) :
          i \in {0, 40}, e \in {0, 9}, f \in {<<>>, <<[PC |-> 105]>>}}
=============================================================================
