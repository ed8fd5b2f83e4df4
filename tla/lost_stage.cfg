SPECIFICATION Spec
CONSTANTS
  MAX_PROCESSES = 3
  QUANTUM = 2
  YieldWait = 2
  DefaultWait = 2
  BelowTable = "UNUSED"
  MAX_PIPES = 2
  PIPE_BUF_SIZE = 4
  MsgLen = 2
  ReadLen = 3
  StageTicks = 3
  LoadTicks = 2
  DemoTicks = 3
  Pipelines <- JustTwoStages
  Commands = {}
  WaitArgs = {0, 1}
  MaxCommands = 1
INVARIANT
  EveryStageRuns
