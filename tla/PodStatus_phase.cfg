CONSTANTS
  N = 2
  None = None
  Period = 2
  Graces = {0, 1, 2}
  Exits = {"zero", "oom"}
  MaxSpec = 1
SPECIFICATION Spec
INVARIANTS
  PhaseAggregates
  DisplayIsPhase
PROPERTIES
  TerminalPhaseSticks
  OldCopiesUndoNothing
