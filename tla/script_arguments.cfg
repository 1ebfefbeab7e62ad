\* A named compile that fails, then a plain one.
CONSTANTS
  Box = {b1}
  File = {f1, f2}
  NoFile = NoFile
  Name = {m1}
  MaxPorts = 1
  MaxAlloc = 2
  MaxDepth = 3
  MaxContexts = 3
SPECIFICATION Spec
INVARIANT ArgumentsNameTheScript
CHECK_DEADLOCK FALSE
