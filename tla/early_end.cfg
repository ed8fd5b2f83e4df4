SPECIFICATION Spec
CONSTANTS
  MAX_PROCESSES = 5
  QUANTUM = 2
  YieldWait = 2
  DefaultWait = 2
  BelowTable = "UNUSED"
  MAX_PIPES = 2
  PIPE_BUF_SIZE = 4
  MsgLen = 2
  ReadLen = 3
  StageTicks = 3
  LoadTicks = 2
  DemoTicks = 3
  Pipelines <- JustTwoStages
  Commands = {"demo", "kill"}
  WaitArgs = {0, 1}
  MaxCommands = 3
INVARIANT
  StagesEndFirst
