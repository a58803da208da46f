\* Both habits; the window is as long as tap and reaction can take.  A session ends
\* when the capture is pulled.
SPECIFICATION Spec
CONSTANTS
  Habits = {TRUE, FALSE}
  ClockOffset = 0
  Window = 2
  MaxAdb = 1
  Reaction = 1
  MaxActions = 2
  MaxTime = 5
  MaxLog = 3
CHECK_DEADLOCK FALSE
INVARIANTS ReadBackMarkedFirst NeverCreditedLater
