SPECIFICATION LoaderSpec
CONSTANTS
  total_frames = 14
  first_free = 1
  Entries = 7
  Pages <- SomePages
  ImagePages <- TwoImagesAt
  Image <- Program
  StackPage <- StackAt
  MaxSpaces = 2
INVARIANT
  ImagesStay
