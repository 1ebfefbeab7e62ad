\* A script that drops an outlet while a value for it is marshalled.
CONSTANTS
  Box = {b1}
  File = {f1}
  NoFile = NoFile
  Name = {m1}
  MaxPorts = 1
  MaxAlloc = 2
  MaxDepth = 3
  MaxContexts = 2
SPECIFICATION Spec
INVARIANT OutletIsLive
CHECK_DEADLOCK FALSE
