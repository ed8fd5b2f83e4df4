SPECIFICATION Spec
CONSTANTS
  total_frames = 11
  first_free = 1
  Entries = 6
  Pages <- SomePages
  ImagePages <- OneImageAt
  Image <- Program
  StackPage <- StackAt
  MaxSpaces = 2
INVARIANTS
  TypeOK
  FramesAccounted

  
CONSTRAINT NoOverrun
