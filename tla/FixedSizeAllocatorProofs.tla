---------------------- MODULE FixedSizeAllocatorProofs ----------------------
(***************************************************************************)
(* The lists of the allocator are sound for every number of elements, and  *)
(* implement the pool.  The inductive invariant gives both lists an order  *)
(* and counts them: an element is on exactly one of the two.               *)
(***************************************************************************)
EXTENDS FixedSizeAllocator, TLAPS

\* Following the links next from first visits S in the order o of length n.
Threads(first, next, o, n, S) ==
  /\ n \in Nat
  /\ o \in [1 .. n -> Elements]
  /\ \A i, j \in 1 .. n : o[i] = o[j] => i = j
  /\ \A i \in 1 .. n : o[i] \in S
  /\ \A e \in S : \E i \in 1 .. n : e = o[i]
  /\ first = IF n = 0 THEN NULL ELSE o[1]
  /\ \A i \in 1 .. n : next[o[i]] = IF i < n THEN o[i + 1] ELSE NULL

List(first, next, n, S) == \E o : Threads(first, next, o, n, S)

BackLinks ==
  \A e \in held : /\ pPrev[e] \in held \cup {NULL}
                  /\ pPrev[e] = NULL <=> e = m_pFirstUsed
                  /\ pPrev[e] # NULL => pNext[pPrev[e]] = e

IInv ==
  /\ TypeOK
  /\ BackLinks
  /\ \E nf, nu \in Nat : /\ nf + nu = m_MaxElements
                         /\ List(m_pFirstFree, pNext, nf, Elements \ held)
                         /\ List(m_pFirstUsed, pNext, nu, held)

-----------------------------------------------------------------------------
(* Lists.                                                                  *)

\* A link that is NULL leads to no element.
LEMMA NullIsNoElement == NULL \notin Elements
  BY DEF NULL, Elements

\* The head of a list, and the successor of each of its elements, are on it.
LEMMA ListClosed ==
  ASSUME NEW first, NEW next, NEW n, NEW S, List(first, next, n, S)
  PROVE  /\ n \in Nat /\ S \subseteq Elements
         /\ first = NULL <=> S = {}
         /\ n = 0 <=> S = {}
         /\ first # NULL => first \in S
         /\ \A e \in S : /\ next[e] \in S \cup {NULL}
                         /\ next[e] \notin {first, e}
<1>1. PICK o : Threads(first, next, o, n, S)
  BY DEF List
<1>2. n \in Nat /\ S \subseteq Elements
  BY <1>1 DEF Threads
<1>3. (n = 0 <=> S = {}) /\ (n # 0 => first \in S)
  BY <1>1 DEF Threads
<1>4. first = NULL <=> n = 0
  BY <1>1, <1>2, <1>3, NullIsNoElement DEF Threads
<1>5. ASSUME NEW e \in S
      PROVE  next[e] \in S \cup {NULL} /\ next[e] \notin {first, e}
  <2>1. PICK i \in 1 .. n : e = o[i]
    BY <1>1 DEF Threads
  <2>2. next[e] = IF i < n THEN o[i + 1] ELSE NULL
    BY <1>1, <2>1 DEF Threads
  <2>3. CASE i < n
    <3>1. i + 1 \in 1 .. n /\ 1 \in 1 .. n /\ i + 1 # i /\ i + 1 # 1
      BY <1>2, <2>1, <2>3
    <3>2. o[i + 1] \in S /\ o[i + 1] # o[i] /\ o[i + 1] # o[1]
      BY <1>1, <3>1, <2>1 DEF Threads
    <3>3. first = o[1]
      BY <1>1, <3>1 DEF Threads
    <3> QED
      BY <2>1, <2>2, <2>3, <3>2, <3>3
  <2>4. CASE ~(i < n)
    BY <2>2, <2>4, <1>2, <1>3, <1>4, NullIsNoElement
  <2> QED
    BY <2>3, <2>4
<1> QED
  BY <1>2, <1>3, <1>4, <1>5

\* A new element linked to the head becomes the head.
LEMMA ListPush ==
  ASSUME NEW first, NEW next, NEW next2, NEW n, NEW S,
         List(first, next, n, S), NEW e \in Elements \ S,
         next2[e] = first, \A x \in S : next2[x] = next[x]
  PROVE  List(e, next2, n + 1, S \cup {e})
<1>1. PICK o : Threads(first, next, o, n, S)
  BY DEF List
<1> DEFINE o2 == [i \in 1 .. n + 1 |-> IF i = 1 THEN e ELSE o[i - 1]]
<1>2. n \in Nat /\ \A i \in 1 .. n : o[i] \in S /\ o[i] \in Elements
  BY <1>1 DEF Threads
<1>3. /\ o2 \in [1 .. n + 1 -> Elements]
      /\ \A i, j \in 1 .. n + 1 : o2[i] = o2[j] => i = j
      /\ \A i \in 1 .. n + 1 : o2[i] \in S \cup {e}
  <2>1. \A i, j \in 1 .. n : o[i] = o[j] => i = j
    BY <1>1 DEF Threads
  <2>2. \A i \in 1 .. n + 1 : i = 1 \/ i - 1 \in 1 .. n
    BY <1>2
  <2> QED
    BY <1>2, <2>1, <2>2
<1>4. ASSUME NEW x \in S \cup {e}
      PROVE  \E i \in 1 .. n + 1 : x = o2[i]
  <2>1. CASE x = e
    BY <2>1, <1>2
  <2>2. CASE x \in S
    <3>1. PICK i \in 1 .. n : x = o[i]
      BY <2>2, <1>1 DEF Threads
    <3>2. i + 1 \in 1 .. n + 1 /\ x = o2[i + 1]
      BY <3>1, <1>2
    <3> QED
      BY <3>2
  <2> QED
    BY <2>1, <2>2
<1>5. e = o2[1] /\ n + 1 # 0
  BY <1>2
<1>6. ASSUME NEW i \in 1 .. n + 1
      PROVE  next2[o2[i]] = IF i < n + 1 THEN o2[i + 1] ELSE NULL
  <2>1. CASE i = 1
    BY <2>1, <1>1, <1>2 DEF Threads
  <2>2. CASE i # 1
    <3>1. i - 1 \in 1 .. n /\ o2[i] = o[i - 1]
      BY <2>2, <1>2
    <3>2. next2[o[i - 1]] = next[o[i - 1]]
      BY <3>1, <1>2
    <3>3. next[o[i - 1]] = IF i - 1 < n THEN o[i] ELSE NULL
      BY <3>1, <1>1 DEF Threads
    <3> QED
      BY <2>2, <3>1, <3>2, <3>3, <1>2
  <2> QED
    BY <2>1, <2>2
<1>7. Threads(e, next2, o2, n + 1, S \cup {e})
  <2> HIDE DEF o2
  <2> QED
    BY <1>2, <1>3, <1>4, <1>5, <1>6 DEF Threads
<1> QED
  BY <1>7 DEF List

\* An element that is unlinked, by its predecessor or as the head, is off the
\* list, and all the others stay on it.
LEMMA ListRemove ==
  ASSUME NEW first, NEW first2, NEW next, NEW next2, NEW n, NEW S,
         List(first, next, n, S), NEW e \in S,
         first2 = IF e = first THEN next[e] ELSE first,
         \A x \in S \ {e} :
            next2[x] = IF next[x] = e THEN next[e] ELSE next[x]
  PROVE  n - 1 \in Nat /\ List(first2, next2, n - 1, S \ {e})
<1>1. PICK o : Threads(first, next, o, n, S)
  BY DEF List
<1>2. /\ n \in Nat
      /\ \A i \in 1 .. n : o[i] \in S /\ o[i] \in Elements
      /\ \A i, j \in 1 .. n : o[i] = o[j] => i = j
      /\ \A i \in 1 .. n : next[o[i]] = IF i < n THEN o[i + 1] ELSE NULL
  BY <1>1 DEF Threads
<1>3. PICK k \in 1 .. n : e = o[k]
  BY <1>1 DEF Threads
<1>4. n \in Nat /\ n - 1 \in Nat
  BY <1>2, <1>3
<1> DEFINE o2 == [i \in 1 .. n - 1 |-> IF i < k THEN o[i] ELSE o[i + 1]]
<1>5. \A i \in 1 .. n - 1 : /\ i \in 1 .. n /\ i + 1 \in 1 .. n
                            /\ i < k \/ k < i + 1
  BY <1>2, <1>3
<1>6. /\ o2 \in [1 .. n - 1 -> Elements]
      /\ \A i \in 1 .. n - 1 : o2[i] \in S \ {e}
  BY <1>2, <1>3, <1>5
<1>7. ASSUME NEW i \in 1 .. n - 1, NEW j \in 1 .. n - 1, o2[i] = o2[j]
      PROVE  i = j
  BY <1>2, <1>3, <1>5, <1>7
<1>8. ASSUME NEW x \in S \ {e}
      PROVE  \E i \in 1 .. n - 1 : x = o2[i]
  <2>1. PICK i \in 1 .. n : x = o[i]
    BY <1>1 DEF Threads
  <2>2. CASE i < k
    <3>1. i \in 1 .. n - 1 /\ x = o2[i]
      BY <2>1, <2>2, <1>2, <1>3
    <3> QED
      BY <3>1
  <2>3. CASE i > k
    <3>1. i - 1 \in 1 .. n - 1 /\ x = o2[i - 1]
      BY <2>1, <2>3, <1>2, <1>3
    <3> QED
      BY <3>1
  <2> QED
    BY <2>1, <2>2, <2>3, <1>2, <1>3
<1>9. first2 = IF n - 1 = 0 THEN NULL ELSE o2[1]
  <2>1. first = o[1] /\ 1 \in 1 .. n
    BY <1>1, <1>2, <1>3 DEF Threads
  <2>2. e = first <=> k = 1
    BY <2>1, <1>2, <1>3
  <2>3. CASE k = 1
    <3>1. first2 = IF 1 < n THEN o[2] ELSE NULL
      <4>1. first2 = next[e] /\ next[e] = next[o[1]]
        BY <2>2, <2>3, <1>3
      <4>2. next[o[1]] = IF 1 < n THEN o[1 + 1] ELSE NULL
        BY <2>1, <1>2
      <4> QED
        BY <4>1, <4>2
    <3>2. n - 1 # 0 => 1 \in 1 .. n - 1 /\ o2[1] = o[2]
      <4>1. n - 1 # 0 => 1 \in 1 .. n - 1
        BY <1>4
      <4>2. 1 \in 1 .. n - 1 => o2[1] = o[2]
        BY <2>3
      <4> QED
        BY <4>1, <4>2
    <3> QED
      BY <3>1, <3>2, <1>2, <1>3
  <2>4. CASE k # 1
    <3>1. first2 = o[1]
      BY <2>1, <2>2, <2>4
    <3>2. 1 \in 1 .. n - 1 /\ n - 1 # 0 /\ 1 < k
      BY <2>4, <1>2, <1>3
    <3> QED
      BY <3>1, <3>2
  <2> QED
    BY <2>3, <2>4
<1>10. ASSUME NEW i \in 1 .. n - 1
       PROVE  next2[o2[i]] = IF i < n - 1 THEN o2[i + 1] ELSE NULL
  <2>1. o2[i] \in S \ {e}
    BY <1>6
  <2>2. next2[o2[i]] = IF next[o2[i]] = e THEN next[e] ELSE next[o2[i]]
    BY <2>1
  <2>3. next[e] = IF k < n THEN o[k + 1] ELSE NULL
    BY <1>2, <1>3
  <2>4. CASE i + 1 < k
    <3>1. /\ o2[i] = o[i] /\ i + 1 \in 1 .. n - 1 /\ o2[i + 1] = o[i + 1]
          /\ next[o[i]] = o[i + 1] /\ o[i + 1] # e
      BY <2>4, <1>2, <1>3, <1>5
    <3> QED
      BY <2>2, <3>1, <1>2, <1>3
  <2>5. CASE i + 1 = k
    <3>1. o2[i] = o[i] /\ next[o[i]] = e
      BY <2>5, <1>2, <1>3, <1>5
    <3>2. i < n - 1 => i + 1 \in 1 .. n - 1 /\ o2[i + 1] = o[k + 1]
      BY <2>5, <1>2, <1>3
    <3> QED
      BY <2>2, <2>3, <2>5, <3>1, <3>2, <1>2, <1>3
  <2>6. CASE k <= i
    <3>1. o2[i] = o[i + 1] /\ i + 1 \in 1 .. n
      BY <2>6, <1>2, <1>3, <1>5
    <3>2. next[o[i + 1]] = IF i + 1 < n THEN o[i + 2] ELSE NULL
      BY <3>1, <1>2
    <3>3. i + 1 < n => i + 2 \in 1 .. n /\ o[i + 2] # e /\ o2[i + 1] = o[i + 2]
      BY <2>6, <1>2, <1>3
    <3>4. i + 1 < n <=> i < n - 1
      BY <1>2
    <3>5. CASE i + 1 < n
      BY <2>2, <3>1, <3>2, <3>3, <3>4, <3>5
    <3>6. CASE ~(i + 1 < n)
      <4>1. next[o2[i]] = NULL
        BY <3>1, <3>2, <3>6
      <4>2. NULL # e
        BY <1>2, <1>3, NullIsNoElement
      <4> QED
        BY <2>2, <3>4, <3>6, <4>1, <4>2
    <3> QED
      BY <3>5, <3>6
  <2> QED
    BY <2>4, <2>5, <2>6, <1>2, <1>3
<1>11. Threads(first2, next2, o2, n - 1, S \ {e})
  <2> HIDE DEF o2
  <2> QED
    BY <1>4, <1>6, <1>7, <1>8, <1>9, <1>10 DEF Threads
<1> QED
  BY <1>4, <1>11 DEF List

-----------------------------------------------------------------------------
(* The invariant.                                                          *)

\* All elements are in the list of the free ones at first.
LEMMA InitSound == Init => IInv
<1> SUFFICES ASSUME Init PROVE IInv
  OBVIOUS
<1> DEFINE fo == [i \in 1 .. m_MaxElements |-> i]
           uo == [i \in 1 .. 0 |-> i]
<1>1. TypeOK /\ BackLinks
  BY SizeAssumption DEF Init, TypeOK, BackLinks, Elements, NULL
<1>2. Threads(m_pFirstFree, pNext, fo, m_MaxElements, Elements \ held)
  <2>1. /\ m_MaxElements \in Nat /\ m_MaxElements # 0
        /\ Elements \ held = 1 .. m_MaxElements
    BY SizeAssumption DEF Init, Elements
  <2>2. \A e \in 1 .. m_MaxElements : e = fo[e]
    OBVIOUS
  <2>3. fo \in [1 .. m_MaxElements -> Elements]
    BY DEF Elements
  <2>4. \A i \in 1 .. m_MaxElements :
           pNext[fo[i]] = IF i < m_MaxElements THEN fo[i + 1] ELSE NULL
    BY <2>1 DEF Init, Elements
  <2>5. m_pFirstFree = fo[1]
    BY <2>1 DEF Init
  <2> HIDE DEF fo
  <2> QED
    BY <2>1, <2>2, <2>3, <2>4, <2>5 DEF Threads
<1>3. Threads(m_pFirstUsed, pNext, uo, 0, held)
  <2>1. uo \in [1 .. 0 -> Elements] /\ \A i \in 1 .. 0 : FALSE
    OBVIOUS
  <2> QED
    BY <2>1 DEF Init, Threads
<1> QED
  BY <1>1, <1>2, <1>3, SizeAssumption DEF IInv, List

\* alloc moves the head of the free list to the head of the used one.
LEMMA TakeStep ==
  ASSUME IInv, m_pFirstFree # NULL, take(m_pFirstFree)
  PROVE  IInv' /\ m_pFirstFree \in Elements \ held
<1>1. PICK nf \in Nat, nu \in Nat :
             /\ nf + nu = m_MaxElements
             /\ List(m_pFirstFree, pNext, nf, Elements \ held)
             /\ List(m_pFirstUsed, pNext, nu, held)
  BY DEF IInv
<1>2. PICK new \in Elements \ held : new = m_pFirstFree
  BY <1>1, ListClosed
<1>3. /\ pNext[new] \in (Elements \ held) \cup {NULL} /\ pNext[new] # new
      /\ m_pFirstUsed \in held \cup {NULL}
  BY <1>1, <1>2, ListClosed
<1>4. /\ pNext' = [pNext EXCEPT ![new] = m_pFirstUsed]
      /\ pNext'[new] = m_pFirstUsed
      /\ \A e \in Elements \ {new} : pNext'[e] = pNext[e]
      /\ held' = held \cup {new} /\ answer' = new
      /\ m_pFirstUsed' = new /\ m_pFirstFree' = pNext[new]
  BY <1>2 DEF take, IInv, TypeOK
<1>5. List(m_pFirstUsed', pNext', nu + 1, held')
  <2>1. \A x \in held : pNext'[x] = pNext[x]
    BY <1>2, <1>4 DEF IInv, TypeOK
  <2>2. List(new, pNext', nu + 1, held \cup {new})
    <3>1. List(m_pFirstUsed, pNext, nu, held)
      BY <1>1
    <3>2. pNext'[new] = m_pFirstUsed
      BY <1>4
    <3> QED
      BY <2>1, <3>1, <3>2, ListPush
  <2> QED
    BY <1>4, <2>2
<1>6. nf - 1 \in Nat /\ List(m_pFirstFree', pNext', nf - 1, (Elements \ held)')
  <2>1. \A x \in (Elements \ held) \ {new} :
           pNext'[x] = IF pNext[x] = new THEN pNext[new] ELSE pNext[x]
    BY <1>1, <1>2, <1>4, ListClosed
  <2>2. /\ nf - 1 \in Nat
        /\ List(pNext[new], pNext', nf - 1, (Elements \ held) \ {new})
    <3>1. List(m_pFirstFree, pNext, nf, Elements \ held)
      BY <1>1
    <3>2. pNext[new] = IF new = m_pFirstFree THEN pNext[new] ELSE m_pFirstFree
      BY <1>2
    <3> QED
      BY <2>1, <3>1, <3>2, ListRemove
  <2>3. (Elements \ held)' = (Elements \ held) \ {new}
    BY <1>4
  <2> QED
    BY <1>4, <2>2, <2>3
<1>7. TypeOK'
  BY <1>2, <1>3, <1>4 DEF take, IInv, TypeOK
<1>8. BackLinks'
  <2> SUFFICES ASSUME NEW e \in held'
               PROVE  /\ pPrev'[e] \in held' \cup {NULL}
                      /\ pPrev'[e] = NULL <=> e = m_pFirstUsed'
                      /\ pPrev'[e] # NULL => pNext'[pPrev'[e]] = e
    BY DEF BackLinks
  <2>1. e \in Elements /\ e # NULL
    BY <1>7, NullIsNoElement DEF TypeOK
  <2>2. CASE e = new
    <3>1. pPrev'[e] = NULL
      BY <1>2, <1>3, <2>1, <2>2 DEF take
    <3> QED
      BY <1>4, <2>2, <3>1
  <2>3. CASE e # new /\ e = m_pFirstUsed
    <3>1. e # pNext[new]
      BY <1>2, <1>3, <1>4, <2>1, <2>3
    <3>2. pPrev'[e] = new
      BY <1>2, <2>1, <2>3, <3>1 DEF take
    <3> QED
      BY <1>2, <1>4, <2>3, <3>2, NullIsNoElement
  <2>4. CASE e # new /\ e # m_pFirstUsed
    <3>1. e \in held /\ e # pNext[new]
      BY <1>3, <1>4, <2>1, <2>4
    <3>2. pPrev'[e] = pPrev[e]
      BY <1>2, <2>1, <2>4, <3>1 DEF take
    <3>3. pPrev[e] \in held /\ pPrev[e] # NULL /\ pNext[pPrev[e]] = e
      BY <2>4, <3>1, NullIsNoElement DEF IInv, BackLinks
    <3>4. pNext'[pPrev[e]] = pNext[pPrev[e]]
      BY <1>2, <1>4, <3>3 DEF IInv, TypeOK
    <3> QED
      BY <1>4, <2>4, <3>2, <3>3, <3>4
  <2> QED
    BY <2>2, <2>3, <2>4
<1>9. (nf - 1) + (nu + 1) = m_MaxElements /\ nu + 1 \in Nat
  BY <1>1
<1> QED
  BY <1>2, <1>5, <1>6, <1>7, <1>8, <1>9 DEF IInv

\* free moves any held element to the head of the free list.
LEMMA FreeStep ==
  ASSUME IInv, NEW node \in held, free(node)
  PROVE  IInv'
<1>1. PICK nf \in Nat, nu \in Nat :
             /\ nf + nu = m_MaxElements
             /\ List(m_pFirstFree, pNext, nf, Elements \ held)
             /\ List(m_pFirstUsed, pNext, nu, held)
  BY DEF IInv
<1>2. /\ node \in Elements /\ node # NULL
      /\ pNext[node] \in held \cup {NULL} /\ pNext[node] # node
      /\ pNext[node] # m_pFirstUsed
      /\ m_pFirstFree \in (Elements \ held) \cup {NULL}
      /\ pPrev[node] \in held \cup {NULL}
      /\ pPrev[node] = NULL <=> node = m_pFirstUsed
      /\ pPrev[node] # NULL => pNext[pPrev[node]] = node
  BY <1>1, ListClosed, NullIsNoElement DEF IInv, TypeOK, BackLinks
<1>3. pPrev[node] # node
  BY <1>2
<1>4. /\ pNext'[node] = m_pFirstFree
      /\ \A e \in Elements \ {node} :
           pNext'[e] = IF e = pPrev[node] THEN pNext[node] ELSE pNext[e]
      /\ held' = held \ {node} /\ answer' = answer
      /\ m_pFirstFree' = node
      /\ m_pFirstUsed' = IF pPrev[node] = NULL THEN pNext[node] ELSE m_pFirstUsed
  BY <1>2 DEF free
\* The predecessor is the only element that is followed by the node.
<1>5. ASSUME NEW x \in held
      PROVE  pNext[x] = node <=> x = pPrev[node]
  <2>1. pNext[x] = node => pPrev[node] # NULL
    BY <1>1, <1>2, ListClosed
  <2>2. PICK o : Threads(m_pFirstUsed, pNext, o, nu, held)
    BY <1>1 DEF List
  <2>3. ASSUME pNext[x] = node, pPrev[node] # NULL
        PROVE  x = pPrev[node]
    <3>1. PICK i \in 1 .. nu : x = o[i]
      BY <2>2 DEF Threads
    <3>2. PICK j \in 1 .. nu : pPrev[node] = o[j]
      BY <1>2, <2>2, <2>3 DEF Threads
    <3>3. /\ pNext[o[i]] = (IF i < nu THEN o[i + 1] ELSE NULL)
          /\ pNext[o[j]] = (IF j < nu THEN o[j + 1] ELSE NULL)
          /\ pNext[o[i]] = node /\ pNext[o[j]] = node
      BY <1>2, <2>2, <2>3, <3>1, <3>2 DEF Threads
    <3>4. i < nu /\ j < nu /\ o[i + 1] = o[j + 1]
      BY <1>2, <3>3
    <3>5. i + 1 \in 1 .. nu /\ j + 1 \in 1 .. nu
      BY <3>4
    <3>6. i + 1 = j + 1
      BY <2>2, <3>4, <3>5 DEF Threads
    <3> QED
      BY <3>1, <3>2, <3>6
  <2> QED
    BY <1>2, <2>1, <2>3, NullIsNoElement DEF IInv, TypeOK
<1>6. nu - 1 \in Nat /\ List(m_pFirstUsed', pNext', nu - 1, held')
  <2>1. \A x \in held \ {node} :
           pNext'[x] = IF pNext[x] = node THEN pNext[node] ELSE pNext[x]
    BY <1>4, <1>5 DEF IInv, TypeOK
  <2>2. m_pFirstUsed' = IF node = m_pFirstUsed THEN pNext[node] ELSE m_pFirstUsed
    BY <1>2, <1>4
  <2>3. List(m_pFirstUsed, pNext, nu, held)
    BY <1>1
  <2>4. nu - 1 \in Nat /\ List(m_pFirstUsed', pNext', nu - 1, held \ {node})
    BY <2>1, <2>2, <2>3, ListRemove
  <2> QED
    BY <1>4, <2>4
<1>7. List(m_pFirstFree', pNext', nf + 1, (Elements \ held)')
  <2>1. \A x \in Elements \ held : pNext'[x] = pNext[x]
    BY <1>2, <1>4, NullIsNoElement
  <2>2. List(node, pNext', nf + 1, (Elements \ held) \cup {node})
    <3>1. node \in Elements \ (Elements \ held)
      BY <1>2
    <3> QED
      BY <1>1, <1>4, <2>1, <3>1, ListPush
  <2>3. (Elements \ held)' = (Elements \ held) \cup {node}
    BY <1>2, <1>4
  <2> QED
    BY <1>4, <2>2, <2>3
<1>8. TypeOK'
  <2>1. m_pFirstUsed' \in Elements \cup {NULL} /\ m_pFirstFree' \in Elements
    BY <1>2, <1>4 DEF IInv, TypeOK
  <2>2. pNext' \in [Elements -> Elements \cup {NULL}]
    BY <1>2 DEF free, IInv, TypeOK
  <2>3. pPrev' \in [Elements -> Elements \cup {NULL}]
    BY <1>2 DEF free, IInv, TypeOK
  <2> QED
    BY <1>4, <2>1, <2>2, <2>3 DEF IInv, TypeOK
<1>9. BackLinks'
  <2> SUFFICES ASSUME NEW e \in held'
               PROVE  /\ pPrev'[e] \in held' \cup {NULL}
                      /\ pPrev'[e] = NULL <=> e = m_pFirstUsed'
                      /\ pPrev'[e] # NULL => pNext'[pPrev'[e]] = e
    BY DEF BackLinks
  <2>1. /\ e \in held /\ e \in Elements /\ e # node /\ e # NULL
        /\ e # m_pFirstFree
    BY <1>2, <1>4, NullIsNoElement DEF IInv, TypeOK
  <2>2. pPrev'[e] = IF e = pNext[node] THEN pPrev[node] ELSE pPrev[e]
    BY <2>1 DEF free
  <2>3. /\ pPrev[e] \in held \cup {NULL}
        /\ pPrev[e] = NULL <=> e = m_pFirstUsed
        /\ pPrev[e] # NULL => pNext[pPrev[e]] = e
    BY <2>1 DEF IInv, BackLinks
  <2>4. CASE e = pNext[node]
    <3>1. pPrev'[e] = pPrev[node] /\ e # m_pFirstUsed
      BY <1>2, <2>2, <2>4
    <3>2. pPrev[node] # NULL => pNext'[pPrev[node]] = e
      BY <1>2, <1>3, <1>4, <2>4 DEF IInv, TypeOK
    <3> QED
      BY <1>2, <1>3, <1>4, <2>4, <3>1, <3>2
  <2>5. CASE e # pNext[node]
    <3>1. pPrev'[e] = pPrev[e] /\ pPrev[e] # node
      BY <1>2, <2>2, <2>3, <2>5
    <3>2. e = m_pFirstUsed' <=> e = m_pFirstUsed
      BY <1>2, <1>4, <2>1, <2>5
    <3>3. pPrev[e] # NULL => pNext'[pPrev[e]] = e
      <4> SUFFICES ASSUME pPrev[e] # NULL PROVE pNext'[pPrev[e]] = e
        OBVIOUS
      <4>1. pPrev[e] \in held \ {node} /\ pNext[pPrev[e]] = e
        BY <2>3, <3>1
      <4>2. pPrev[e] # pPrev[node]
        BY <1>2, <2>1, <4>1
      <4> QED
        BY <1>4, <4>1, <4>2 DEF IInv, TypeOK
    <3> QED
      BY <1>4, <2>3, <3>1, <3>2, <3>3
  <2> QED
    BY <2>4, <2>5
<1>10. (nf + 1) + (nu - 1) = m_MaxElements /\ nf + 1 \in Nat
  BY <1>1
<1> QED
  BY <1>6, <1>7, <1>8, <1>9, <1>10 DEF IInv

\* The inductive invariant.
THEOREM Inductive == Spec => []IInv
<1>1. IInv /\ [Next]_vars => IInv'
  <2> SUFFICES ASSUME IInv, [Next]_vars PROVE IInv'
    OBVIOUS
  <2>1. CASE UNCHANGED vars \/ (m_pFirstFree = NULL /\ alloc)
    <3>1. UNCHANGED <<links, held>> /\ answer' \in Elements \cup {NULL}
      BY <2>1 DEF vars, alloc, IInv, TypeOK
    <3> QED
      BY <3>1 DEF links, IInv, TypeOK, BackLinks
  <2>2. CASE m_pFirstFree # NULL /\ alloc
    BY <2>2, TakeStep DEF alloc
  <2>3. ASSUME NEW node \in held, free(node)
        PROVE  IInv'
    BY <2>3, FreeStep
  <2> QED
    BY <2>1, <2>2, <2>3 DEF Next
<1> QED
  BY <1>1, InitSound, PTL DEF Spec

\* Every link the allocator follows is an element or NULL.
THEOREM TypeCorrect == Spec => []TypeOK
<1>1. IInv => TypeOK
  BY DEF IInv
<1> QED
  BY <1>1, Inductive, PTL

\* A list is visited in some order, each of its elements once.
LEMMA ListVisits ==
  ASSUME NEW first, NEW n \in 0 .. m_MaxElements, NEW S,
         List(first, pNext, n, S)
  PROVE  \E o \in Orders : Visits(first, o, S)
<1>1. PICK o : Threads(first, pNext, o, n, S)
  BY DEF List
<1>2. o \in Orders
  BY <1>1 DEF Threads, Orders
<1>3. DOMAIN o = 1 .. n /\ n \in Nat
  BY <1>1 DEF Threads
<1>4. S = {o[i] : i \in DOMAIN o}
  BY <1>1, <1>3 DEF Threads
<1>5. o = << >> <=> n = 0
  <2>1. DOMAIN << >> = {}
    OBVIOUS
  <2>2. n # 0 => o # << >>
    BY <1>3, <2>1
  <2>3. n = 0 => o = << >>
    BY <1>1, SMT DEF Threads
  <2> QED
    BY <2>2, <2>3
<1>6. first = IF o = << >> THEN NULL ELSE o[1]
  BY <1>1, <1>5 DEF Threads
<1>7. ASSUME NEW i \in DOMAIN o
      PROVE  pNext[o[i]] = IF i + 1 \in DOMAIN o THEN o[i + 1] ELSE NULL
  BY <1>1, <1>3 DEF Threads
<1> QED
  BY <1>2, <1>4, <1>6, <1>7 DEF Visits

\* Iterating over the pool visits exactly the nodes its client holds.
THEOREM IterationCorrect == Spec => []IterationVisitsHeld
<1>1. IInv => IterationVisitsHeld
  <2> SUFFICES ASSUME IInv PROVE IterationVisitsHeld
    OBVIOUS
  <2>1. PICK nu \in 0 .. m_MaxElements : List(m_pFirstUsed, pNext, nu, held)
    BY SizeAssumption DEF IInv
  <2> QED
    BY <2>1, ListVisits DEF IInv, BackLinks, IterationVisitsHeld, GetFirst
<1> QED
  BY <1>1, Inductive, PTL

\* No element leaves both lists.
THEOREM NothingIsLost == Spec => []FreeListComplete
<1>1. IInv => FreeListComplete
  <2> SUFFICES ASSUME IInv PROVE FreeListComplete
    OBVIOUS
  <2>1. PICK nf \in 0 .. m_MaxElements :
               List(m_pFirstFree, pNext, nf, Elements \ held)
    BY SizeAssumption DEF IInv
  <2> QED
    BY <2>1, ListVisits DEF FreeListComplete
<1> QED
  BY <1>1, Inductive, PTL

\* The allocator implements the pool, whatever its size.
THEOREM ImplementsPool == Spec => PoolSpec
<1>1. Init => Pool!Init
  BY DEF Init, Pool!Init
<1>2. IInv /\ [Next]_vars => [Pool!Next]_(Pool!vars)
  <2> SUFFICES ASSUME IInv, [Next]_vars PROVE [Pool!Next]_(Pool!vars)
    OBVIOUS
  <2>1. CASE UNCHANGED vars
    BY <2>1 DEF vars, Pool!vars
  <2>2. CASE m_pFirstFree = NULL /\ alloc
    <3>1. PICK nf : List(m_pFirstFree, pNext, nf, Elements \ held)
      BY DEF IInv
    <3>2. Elements \ held = {}
      BY <2>2, <3>1, ListClosed
    <3>3. held = Elements /\ answer' = NULL /\ held' = held
      BY <2>2, <3>2 DEF alloc, IInv, TypeOK
    <3> QED
      BY <3>3 DEF Pool!Next, Pool!Exhausted
  <2>3. CASE m_pFirstFree # NULL /\ alloc
    <3>1. take(m_pFirstFree)
      BY <2>3 DEF alloc
    <3>2. m_pFirstFree \in Elements \ held
      BY <2>3, <3>1, TakeStep
    <3> QED
      BY <3>1, <3>2 DEF take, Pool!Next, Pool!Allocate
  <2>4. ASSUME NEW node \in held, free(node)
        PROVE  Pool!Next
    BY <2>4 DEF IInv, TypeOK, free, Pool!Next, Pool!Release
  <2> QED
    BY <2>1, <2>2, <2>3, <2>4 DEF Next
<1> QED
  BY <1>1, <1>2, Inductive, PTL DEF Spec, PoolSpec, Pool!Spec
=============================================================================
