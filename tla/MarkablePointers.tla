-------------------------- MODULE MarkablePointers --------------------------
(***************************************************************************)
(* Markable pointers (SPCPrimitives.h): machine words that hold a pointer  *)
(* and, in the lowest bit, a mark.  The users of these words compare and   *)
(* swap them whole, so a word is a record: two words are equal exactly     *)
(* when the pointer and the mark are.                                      *)
(***************************************************************************)
EXTENDS Naturals

NULL == 0

\* The words over a set of pointers.
MarkablePointer(Ptr) == [ptr : Ptr, mark : BOOLEAN]

toMarkable(p, m) == [ptr |-> p, mark |-> m]

isMarked_m(w) == w.mark

toMarkable_m(w, m) == [w EXCEPT !.mark = m]

toPtr_m(w) == w.ptr

\* The link of a node that has been unlinked: a marked null pointer.
NULL_D == toMarkable(NULL, TRUE)
=============================================================================
