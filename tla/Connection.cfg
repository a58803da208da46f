\* A network that drops connections and goes quiet; then also bridges that stop
\* reading, and callbacks that raise; then start called while a stop is under way,
\* with an on_state that raises.
SPECIFICATION FairSpec
CONSTANTS
  Conns = 2
  Tasks = 2
  MaxBackoff = 2
  Situations = {{}, {"wedge", "raise", "state"}, {"overlap", "state"}}
INVARIANTS ConnectedIsServed NoLeak StoppedIsQuiet KeepsRunning
PROPERTY Heals
