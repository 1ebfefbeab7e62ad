---------------------------- MODULE MCJsObjects ----------------------------
(* Objects are alike for the table, and so are addresses: none is compared  *)
(* with another but for equality, and none is chosen.                       *)
EXTENDS JsObjects, TLC

Symmetry == Permutations(Object) \cup Permutations(Address)
=============================================================================
