SPECIFICATION Spec
CONSTANTS
  MAX_PIPES = 2
  PIPE_BUF_SIZE = 2
  Bytes = {0, 1}
  MaxTransfer = 2
INVARIANTS
  TypeOK
  PositionsAgree
PROPERTY
  ImplementsQueues
