\* Two directories, files of up to three bytes, two edits while one is read.
CONSTANTS
  Paths = 2
  MaxLen = 3
  MaxEdits = 2
SPECIFICATION Spec
INVARIANT ReadIsComplete
PROPERTY EndsUnlessCut
CHECK_DEADLOCK FALSE
