\* Three devices, one of them with a channel to discover; the cap outlasts two
\* failing attempts: 2 * (ConnectTimeout + 2) < MaxBackoff, in units of one pass.
SPECIFICATION Spec
CONSTANTS
  N = 3
  ConnectTimeout = 1
  MinBackoff = 1
  MaxBackoff = 7
  Configured = {2, 3}
PROPERTY NoStarvation
