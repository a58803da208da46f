\* Answers may come after the timeout.
SPECIFICATION Spec
CONSTANTS
  N = 2
  Handle = {h1, h2, h3}
  NoHandle = noHandle
  Remote <- MCRemote
  Config <- MCDiscover
  OnOpen <- MCOnOpen
SYMMETRY HandleSymmetry
INVARIANT ChannelIsOwn
