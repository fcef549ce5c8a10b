SPECIFICATION Spec
CONSTANTS
  Base = 10
  MaxStackSize = 1
  PackBuffer = 50
  MaxSmallPacketSize = 50
  Margin = 54
  SendListLen = 2
  HelloPackets <- TheHellos
  Commands <- TheCommands
  SmallPackets <- TheSmall
  LargePackets <- TheLarge
  Records <- TheRecords
  Chunks = {1, 8, 47}
  MaxPackets = 4
CHECK_DEADLOCK FALSE
INVARIANTS
  StreamIsFaithful
  RecordsKeepTheirSlot
