SPECIFICATION MFairSpec
CONSTANTS
  Width = 17
  Height = 33
  WordSize = 65536
  MouseBytes <- MCBytes
  StrayBytes <- MCStrayBytes
  NoPacket = NoPacket
INVARIANTS
  FramedUntilLoss
  MouseInv
PROPERTIES
  ImplementsMailbox
  PacketProcessed
