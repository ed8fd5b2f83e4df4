SPECIFICATION Spec
CONSTANTS
  MAX_DISK_NODES = 4
  Whole = 2
  MaxNodes = 5
  Names <- MCNames
  Stored <- MCStored
  Texts <- MCTexts
  Size <- MCSize
  MaxCommands = 7
  Junk <- MCJunk
INVARIANTS
  TypeOK
  TreeSound
  RestartRestores
