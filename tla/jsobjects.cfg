\* Three objects, two addresses, so that addresses run out and are used again.
CONSTANTS
  Object = {o1, o2, o3}
  Address = {a1, a2}
  MaxDepth = 4
SYMMETRY Symmetry
SPECIFICATION Spec
INVARIANTS
  TypeOK
  RegistryIsSound
  OneHandlePerObject
  SendsResolve
  StoredResolveWhileAlive
PROPERTY BindingSpec
