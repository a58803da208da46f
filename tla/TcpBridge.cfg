\* Ring and socket of two bytes; links drop, clients come, go and break off.
SPECIFICATION FairSpec
CONSTANTS
  RingCap = 2
  SockCap = 2
  Chunk = 2
  MaxDown = 4
  MaxUp = 3
INVARIANT UpComplete
PROPERTIES BothInOrder QuietClientReaped ReapedOnUsableLink
