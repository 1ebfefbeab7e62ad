\* Every call of outlet with up to three values, every setprop of up to three
\* atoms.
CONSTANTS
  Value <- MCValue
  Depth <- MCDepth
  Passable <- MCPassable
  AddressOf <- MCAddressOf
  High <- MCHigh
  Atom <- MCAtom
  Bits <- MCBits
  Windows = FALSE
  MaxArgs = 3
SPECIFICATION Spec
INVARIANTS
  MessageSpellsAtoms
  ValuesArrive
  ObjectFirstIsOverread
  PropertiesComeBack
CHECK_DEADLOCK FALSE
