\* Two boxes, up to three ports of a kind at a time, five ever allocated.
CONSTANTS
  Box = {b1, b2}
  MaxPorts = 3
  MaxAlloc = 5
SPECIFICATION PortsSpec
INVARIANTS
  PortsTypeOK
  InletsMatchPd
  OutletsMatchPd
  InletKnowsItsPosition
PROPERTY SurvivorsAreKept
