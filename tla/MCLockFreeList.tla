--------------------------- MODULE MCLockFreeList ---------------------------
(* Instances of LockFreeList for TLC.                                      *)
EXTENDS LockFreeList

Symmetry == Permutations(Thread)

Empty == <<>>
One == <<1>>
OneTwo == <<1, 2>>
=============================================================================
