SPECIFICATION IFairSpec
CONSTANTS
  OtherLines <- MCOtherLines
INVARIANTS
  NoStrayInterrupt
  OwnByte
  PolledAsAsked
  ControllersInv
PROPERTIES
  StraysNeverMultiply
  ByteServed
