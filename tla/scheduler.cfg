SPECIFICATION FairSpec
CONSTANTS
  MAX_PROCESSES = 3
  QUANTUM = 2
  YieldWait = 2
  DefaultWait = 2
  BelowTable = "UNUSED"
  LoadTicks = 3
  WaitArgs = {0, 1}
  Commands = {"exec", "kill", "wait", "yield", "preempt", "coop"}
  MaxCommands = 4
INVARIANTS
  TypeOK
  TableConsistent
  NoDuplicates
  QuantumRespected
PROPERTIES
  WaitersDoNotRun
  
  EveryProcessEnds
