\* AgentToolAction
SPECIFICATION GateSpec
CONSTANTS
  Calls <- MCCalls
  Immediate <- MCImmediate
  Handlers = {h1, h2}
  MaxCrashes = 2
INVARIANTS
  OneActionAtATime
  WorksOnceIfConfirmed
PROPERTIES
  OutcomeIsFinal
  ExecutionEnds
CHECK_DEADLOCK FALSE
