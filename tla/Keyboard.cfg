SPECIFICATION KSpec
CONSTANTS
  Width = 24
  Height = 48
  Message <- MCMessage
  PrefixMessage <- MCPrefixMessage
  Keys <- MCKeys
  PrefixedCodes <- MCPrefixedCodes
  StrayBytes <- MCStrayBytes
INVARIANTS
  CursorOnScreen
  NoOverprint
  DriverInv
