------------------------- MODULE FixedSizeAllocator -------------------------
(***************************************************************************)
(* The fixed size allocator of the planner (modules/planner/common/include *)
(* fsa.h): an array whose elements are threaded on two doubly linked       *)
(* lists, the free and the used one.  It implements NodePool for a client  *)
(* that returns only what it holds, as hybridstlastar.h does; the code     *)
(* itself checks nothing ("For efficiency I don't check").                 *)
(*                                                                         *)
(* An element is its index in m_pMemory, counted from one; zero is NULL.   *)
(***************************************************************************)
EXTENDS Naturals

CONSTANT m_MaxElements

\* With none the constructor would write outside of m_pMemory.
ASSUME SizeAssumption == m_MaxElements \in Nat \ {0}

Elements == 1 .. m_MaxElements
NULL == 0

VARIABLES
  m_pFirstFree, m_pFirstUsed,  \* heads of the lists
  pPrev, pNext,                \* links of every element
  held, answer                 \* the client's nodes, and its last alloc()

links == <<m_pFirstFree, m_pFirstUsed, pPrev, pNext>>
vars == <<links, held, answer>>

-----------------------------------------------------------------------------

\* Seeded fault: the last element keeps a link past the end of the array.
InitUnterminated ==
  /\ m_pFirstFree = 1 /\ m_pFirstUsed = NULL
  /\ pPrev = [e \in Elements |-> e - 1]
  /\ pNext = [e \in Elements |-> e + 1]
  /\ held = {} /\ answer = NULL

\* The constructor threads all elements on the free list.
Init ==
  /\ m_pFirstFree = 1 /\ m_pFirstUsed = NULL
  /\ pPrev = [e \in Elements |-> e - 1]
  /\ pNext = [e \in Elements |-> IF e = m_MaxElements THEN NULL ELSE e + 1]
  /\ held = {} /\ answer = NULL

\* Seeded fault: the previous link of the new node is left as it was.
takeStalePrev(new) ==
  /\ m_pFirstFree' = pNext[new]
  /\ m_pFirstUsed' = new
  /\ pNext' = [pNext EXCEPT ![new] = m_pFirstUsed]
  /\ pPrev' = [e \in Elements |-> IF e = m_pFirstUsed THEN new ELSE pPrev[e]]
  /\ held' = held \cup {new} /\ answer' = new

\* From the head of the free list to the head of the used list.
take(new) ==
  /\ m_pFirstFree' = pNext[new]
  /\ m_pFirstUsed' = new
  /\ pNext' = [pNext EXCEPT ![new] = m_pFirstUsed]
  /\ pPrev' = [e \in Elements |-> CASE e = m_pFirstUsed        -> new
                                    [] e \in {new, pNext[new]} -> NULL
                                    [] OTHER                   -> pPrev[e]]
  /\ held' = held \cup {new} /\ answer' = new

alloc ==
  \/ m_pFirstFree = NULL /\ answer' = NULL /\ UNCHANGED <<links, held>>
  \/ m_pFirstFree # NULL /\ take(m_pFirstFree)

\* Seeded faults: the next node's previous link is not mended; the rest of the
\* free list is dropped.
freeOneSided(node) ==
  /\ m_pFirstUsed' = IF pPrev[node] = NULL THEN pNext[node] ELSE m_pFirstUsed
  /\ m_pFirstFree' = node
  /\ pNext' = [e \in Elements |-> CASE e = node        -> m_pFirstFree
                                    [] e = pPrev[node] -> pNext[node]
                                    [] OTHER           -> pNext[e]]
  /\ pPrev' = [e \in Elements |-> IF e = m_pFirstFree THEN node ELSE pPrev[e]]
  /\ held' = held \ {node} /\ UNCHANGED answer

freeForgetful(node) ==
  /\ m_pFirstUsed' = IF pPrev[node] = NULL THEN pNext[node] ELSE m_pFirstUsed
  /\ m_pFirstFree' = node
  /\ pNext' = [e \in Elements |-> CASE e = node        -> NULL
                                    [] e = pPrev[node] -> pNext[node]
                                    [] OTHER           -> pNext[e]]
  /\ pPrev' = [e \in Elements |-> IF e = pNext[node] THEN pPrev[node] ELSE pPrev[e]]
  /\ held' = held \ {node} /\ UNCHANGED answer

\* Out of the used list, to the head of the free list.  The previous link of
\* the node itself is cleared only when the free list was empty.
free(node) ==
  /\ m_pFirstUsed' = IF pPrev[node] = NULL THEN pNext[node] ELSE m_pFirstUsed
  /\ m_pFirstFree' = node
  /\ pNext' = [e \in Elements |-> CASE e = node        -> m_pFirstFree
                                    [] e = pPrev[node] -> pNext[node]
                                    [] OTHER           -> pNext[e]]
  /\ pPrev' = [e \in Elements |->
                 CASE e = m_pFirstFree                -> node
                   [] e = node /\ m_pFirstFree = NULL -> NULL
                   [] e = pNext[node]                 -> pPrev[node]
                   [] OTHER                           -> pPrev[e]]
  /\ held' = held \ {node} /\ UNCHANGED answer

Next == alloc \/ \E node \in held : free(node)

Spec == Init /\ [][Next]_vars

GetFirst == m_pFirstUsed
GetNext(node) == pNext[node]

-----------------------------------------------------------------------------
(* Properties.                                                             *)

\* Every link is an element or NULL.
TypeOK ==
  /\ {m_pFirstFree, m_pFirstUsed, answer} \subseteq Elements \cup {NULL}
  /\ pPrev \in [Elements -> Elements \cup {NULL}]
  /\ pNext \in [Elements -> Elements \cup {NULL}]
  /\ held \subseteq Elements

\* The orders in which a list can visit some of the elements, each once.
Orders ==
  {o \in UNION {[1 .. n -> Elements] : n \in 0 .. m_MaxElements} :
     \A i, j \in DOMAIN o : o[i] = o[j] => i = j}

\* Following pNext from first visits the elements of S, each once, in order o.
Visits(first, o, S) ==
  /\ S = {o[i] : i \in DOMAIN o}
  /\ first = IF o = << >> THEN NULL ELSE o[1]
  /\ \A i \in DOMAIN o :
       pNext[o[i]] = IF i + 1 \in DOMAIN o THEN o[i + 1] ELSE NULL

\* GetFirst and GetNext visit every node the client holds exactly once and end,
\* in whatever order it allocated and freed; and the previous links mirror it,
\* which is what lets free unlink a node in the middle.
IterationVisitsHeld ==
  /\ \E o \in Orders : Visits(GetFirst, o, held)
  /\ \A e \in held : /\ pPrev[e] = NULL <=> e = m_pFirstUsed
                     /\ pPrev[e] # NULL => pNext[pPrev[e]] = e

\* No element is ever lost: the free list visits all those not held.
FreeListComplete ==
  \E o \in Orders : Visits(m_pFirstFree, o, Elements \ held)

\* The lists implement the pool: alloc never hands out a node that is still
\* held, and returns NULL only when all of them are.
Pool == INSTANCE NodePool WITH Nodes <- Elements, NoNode <- NULL
PoolSpec == Pool!Spec
=============================================================================
