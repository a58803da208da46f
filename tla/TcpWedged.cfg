\* A client that leaves bytes behind while the link is down.
SPECIFICATION FairSpec
CONSTANTS
  RingCap = 2
  SockCap = 2
  Chunk = 2
  MaxDown = 0
  MaxUp = 1
PROPERTY ClientReaped
