SPECIFICATION MSpec
CONSTANTS
  Width = 17
  Height = 33
  WordSize = 65536
  MouseBytes <- MCBytes
  StrayBytes <- MCStrayBytes
  NoPacket = NoPacket
PROPERTIES
  StopsAtEdges
