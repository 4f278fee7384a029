------------------------------- MODULE KeyMap -------------------------------
(***************************************************************************)
(* What the priority queue is to its users: a partial map from keys to     *)
(* elements.  An insertion puts an element under its key, in place of the  *)
(* one that was there; an extraction takes one key out.  Which key an      *)
(* extraction may take is stated by TakesMinimum of PriorityQueue.         *)
(***************************************************************************)
EXTENDS Integers

CONSTANTS Producer, Consumer, Key, Calls

VARIABLES contents,  \* the elements in the queue by their keys
          got        \* got[t]: what t has just extracted, or <<>>

vars == <<contents, got>>

Init == got = [t \in Consumer |-> <<>>]

\* The elements carry the call that inserted them: each is put once at most.
Put(k, e) ==
  /\ \A j \in DOMAIN contents : contents[j] # e
  /\ contents' = [j \in DOMAIN contents \cup {k} |-> IF j = k THEN e ELSE contents[j]]
  /\ UNCHANGED got

TakeKey(k, t) ==
  /\ k \in DOMAIN contents
  /\ contents' = [j \in DOMAIN contents \ {k} |-> contents[j]]
  /\ got' = [got EXCEPT ![t] = contents[k]]

Forget(t) == got' = [got EXCEPT ![t] = <<>>] /\ UNCHANGED contents

Next ==
  \/ \E k \in Key, t \in Producer, c \in 0 .. Calls - 1 : Put(k, <<t, c>>)
  \/ \E k \in DOMAIN contents, t \in Consumer : TakeKey(k, t)
  \/ \E t \in Consumer : Forget(t)

Spec == Init /\ [][Next]_vars
=============================================================================
