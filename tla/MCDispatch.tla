----------------------------- MODULE MCDispatch -----------------------------
(* Boxes and files are compared for equality only.  The third context is for *)
(* a box that is alone and has the ports it was made with.                   *)
EXTENDS Dispatch, TLC

Symmetry == Permutations(Box) \cup Permutations(File)

Alone == \A x, y \in Box : status[x] # "absent" /\ status[y] # "absent" => x = y

ThirdContextAlone == Len(contexts) < 3 \/ (Alone /\ newInlet = 1 /\ newOutlet = 1)
=============================================================================
