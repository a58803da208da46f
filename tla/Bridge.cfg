\* Frames, cut frames and noise in any chunks, three framings.
SPECIFICATION Spec
CONSTANTS
  Base = 8
  Framings <- MCFramings
  Replies <- MCReplies
  MaxItems = 3
INVARIANTS ChunksDoNotMatter Delivered RecoversAfterCut
