\* tap_and_mark: the mark comes after the tap.
SPECIFICATION Spec
CONSTANTS
  Habits = {FALSE}
  ClockOffset = 0
  Window = 2
  MaxAdb = 1
  Reaction = 1
  MaxActions = 2
  MaxTime = 5
  MaxLog = 3
CHECK_DEADLOCK FALSE
INVARIANT ReadBackExactly
