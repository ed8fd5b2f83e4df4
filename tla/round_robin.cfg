SPECIFICATION RoundRobinSpec
CONSTANTS
  MAX_PROCESSES = 3
  QUANTUM = 2
  YieldWait = 2
  DefaultWait = 2
  BelowTable = "UNUSED"
  LoadTicks = 6
  WaitArgs = {0, 2}
  Commands = {"exec", "kill", "wait", "yield"}
  MaxCommands = 5
INVARIANT
  NoSecondTurn
