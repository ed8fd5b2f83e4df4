SPECIFICATION Spec
CONSTANTS
  MAX_PROCESSES = 4
  QUANTUM = 2
  YieldWait = 2
  DefaultWait = 2
  BelowTable = "UNUSED"
  MAX_PIPES = 2
  PIPE_BUF_SIZE = 4
  MsgLen = 2
  ReadLen = 3
  StageTicks = 3
  LoadTicks = 2
  DemoTicks = 3
  Pipelines <- PipelinesTyped
  Commands = {"exec", "kill", "wait", "coop", "demo"}
  WaitArgs = {0, 1}
  MaxCommands = 3
INVARIANTS
  TypeOK
  ConsistentUnlessTorn
  StagesEndFirstUnlessTorn
  MessageArrives
  NoStaleDescriptor
  PipesReturned
