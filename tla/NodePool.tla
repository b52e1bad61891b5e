------------------------------ MODULE NodePool ------------------------------
(***************************************************************************)
(* What the search asks of its memory: a pool of nodes that are handed out *)
(* and taken back one by one (the comment of fsa.h: "a constant time O(1)  *)
(* memory manager for objects of a specified type").                       *)
(***************************************************************************)
CONSTANTS Nodes, NoNode

VARIABLES
  held,    \* the nodes its client holds
  answer   \* what the last allocation returned

vars == <<held, answer>>

Init == held = {} /\ answer = NoNode

Allocate(e) ==
  /\ e \in Nodes \ held
  /\ held' = held \cup {e}
  /\ answer' = e

Exhausted ==
  /\ held = Nodes
  /\ answer' = NoNode
  /\ UNCHANGED held

Release(e) ==
  /\ e \in held
  /\ held' = held \ {e}
  /\ UNCHANGED answer

Next ==
  \/ \E e \in Nodes : Allocate(e) \/ Release(e)
  \/ Exhausted

Spec == Init /\ [][Next]_vars
=============================================================================
