------------------------------- MODULE KeySet -------------------------------
(***************************************************************************)
(* What the links of a sorted list promise, however its operations         *)
(* interleave: a set of keys that changes one key at a time.  A key enters *)
(* it only while it is not there, and leaves it either with the operation  *)
(* that extracts its element or because another operation dropped a        *)
(* deleted node.                                                           *)
(***************************************************************************)
EXTENDS Naturals

CONSTANTS Key,
          Initial     \* the keys the set starts with

VARIABLES
  contents,   \* the keys in the set
  delivered   \* delivered[k]: how often an element with key k was extracted

Init ==
  /\ contents = Initial
  /\ delivered = [k \in Key |-> 0]

Add(k) ==
  /\ k \notin contents
  /\ contents' = contents \cup {k}
  /\ UNCHANGED delivered

Extract(k) ==
  /\ k \in contents
  /\ contents' = contents \ {k}
  /\ delivered' = [delivered EXCEPT ![k] = @ + 1]

Drop(k) ==
  /\ k \in contents
  /\ contents' = contents \ {k}
  /\ UNCHANGED delivered

Next == \E k \in Key : Add(k) \/ Extract(k) \/ Drop(k)

Spec == Init /\ [][Next]_<<contents, delivered>>
=============================================================================
