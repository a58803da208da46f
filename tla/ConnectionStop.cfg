\* Nothing goes wrong but the far end closing.
SPECIFICATION FairSpec
CONSTANTS
  Conns = 2
  Tasks = 1
  MaxBackoff = 2
  Situations = {{}}
PROPERTY StopReturns
