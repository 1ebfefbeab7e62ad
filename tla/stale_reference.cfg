\* A stored reference whose object is gone and whose address is used again.
CONSTANTS
  Object = {o1, o2, o3}
  Address = {a1, a2}
  MaxDepth = 3
SPECIFICATION Spec
INVARIANT ReferencesAreFaithful
