\* The two prompts of login and three signals.
SPECIFICATION Spec
CONSTANTS
  Prompts = 2
  Signals = {INT, TERM}
  Interrupt = INT
  MaxSignals = 3
  NoSignal = NoSignal
CHECK_DEADLOCK FALSE
INVARIANTS
  TypeOK
  TerminalIsRestored
  NoEcho
PROPERTIES
  CaughtEnds
