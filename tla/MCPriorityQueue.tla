-------------------------- MODULE MCPriorityQueue ---------------------------
(* Instances of PriorityQueue for TLC.                                     *)
EXTENDS PriorityQueue

\* Producers that do not consume, and consumers that do not produce, are
\* interchangeable.
Symmetry ==
  {p \in Permutations(Thread) : \A t \in Thread :
     (t \in Producer) = (p[t] \in Producer) /\ (t \in Consumer) = (p[t] \in Consumer)}

Empty == <<>>
One == <<[key |-> 1, height |-> 1]>>
High == <<[key |-> 1, height |-> 2]>>
Mid == <<[key |-> 2, height |-> 1]>>
Two == <<[key |-> 1, height |-> 1], [key |-> 2, height |-> 2]>>
=============================================================================
