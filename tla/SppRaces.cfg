\* A channel configured or to discover, answers as late as the bound on time.
\* Stops at MaxTicks.
SPECIFICATION Spec
CONSTANTS
  Wrap = 32
  Start = {0, 29}
  ConnectTimeout = 3
  MinBackoff = 1
  MaxBackoff = 2
  Settle = 2
  Configured = {TRUE, FALSE}
  AnswerTime = 6
  MaxTicks = 7
  MaxLinks = 2
CHECK_DEADLOCK FALSE
INVARIANTS HandshakeTried NewestLink NotForgotten
PROPERTY FullBudget
