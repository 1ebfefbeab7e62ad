\* Two boxes that call, create and delete each other, two script files.
CONSTANTS
  Box = {b1, b2}
  File = {f1, f2}
  NoFile = NoFile
  Name = {"loadbang"}
  MaxPorts = 1
  MaxAlloc = 2
  MaxDepth = 3
  MaxContexts = 3
SYMMETRY Symmetry
CONSTRAINT ThirdContextAlone
SPECIFICATION Spec
INVARIANTS
  DispatchTypeOK
  NewestScriptAnswers
  NestedCallsMeetNewerScripts
  PathIsLastFound
  ConstructionIsUndisturbed
PROPERTY PortsSpec
CHECK_DEADLOCK FALSE
