----------------------- MODULE HybridAStarSearchProofs -----------------------
(***************************************************************************)
(* The search of the open space planner, for pools of any size, any finite *)
(* number of cells, any movements that leave their cell, any costs above   *)
(* zero and any heuristic.                                                 *)
(*                                                                         *)
(* The invariant says who owns the nodes, that the nodes on the lists are  *)
(* a tree with the start as its root, whose steps are movements, that cost *)
(* falls strictly from every node to its parent, and that no movement from *)
(* a closed node leads out of the lists.  From the costs follows that the  *)
(* loops over the parents end at the start and that a node whose parent is *)
(* changed is not above its new parent; from the counts of nodes above and *)
(* below follows that the way back is the way there.                       *)
(*                                                                         *)
(* A second invariant is about what the ways cost where every movement     *)
(* costs the same: a movement from a closed node leads to a node that      *)
(* costs at most one movement more.  The goal that is popped has therefore *)
(* been reached by no more movements than any way there needs.             *)
(*                                                                         *)
(* What links lead to, and what is reachable, is defined by recursion: the *)
(* lemmas at the beginning turn a recursive function into one that repeats *)
(* a step, by taking the least number for which that fails.                *)
(***************************************************************************)
EXTENDS HybridAStarSearch, FiniteSetTheorems, SequenceTheorems, FunctionTheorems,
        WellFoundedInduction, TLAPS

-----------------------------------------------------------------------------
(* Induction, and functions defined by recursion.                          *)

\* A set of numbers has a least one.
LEMMA Least ==
  ASSUME NEW S \in SUBSET Nat, S # {}
  PROVE  \E m \in S : \A k \in S : m <= k
<1> DEFINE R == {ss \in Nat \X Nat : ss[1] < ss[2]}
<1>1. IsWellFoundedOn(R, Nat)
  BY NatLessThanWellFounded DEF OpToRel
<1>2. \E x \in S : \A y \in S : ~ (<<y, x>> \in R)
  BY <1>1, WFMin
<1>3. PICK x \in S : \A y \in S : ~ (<<y, x>> \in R)
  BY <1>2
<1>4. \A y \in S : x <= y
  <2> TAKE y \in S
  <2>1. x \in Nat /\ y \in Nat
    OBVIOUS
  <2>2. ~ (<<y, x>> \in R)
    BY <1>3
  <2>3. ~ (y < x)
    BY <2>1, <2>2
  <2> QED
    BY <2>1, <2>3
<1> QED
  BY <1>4

\* Induction over the natural numbers, for a set.
LEMMA Induction ==
  ASSUME NEW S, 0 \in S, \A k \in Nat : k \in S => k + 1 \in S
  PROVE  \A k \in Nat : k \in S
<1> DEFINE T == {k \in Nat : k \notin S}
<1>1. CASE T = {}
  BY <1>1
<1>2. CASE T # {}
  <2>1. PICK m \in T : \A k \in T : m <= k
    BY <1>2, Least
  <2>2. m \in Nat /\ m # 0
    BY <2>1
  <2>3. m - 1 \in Nat /\ m - 1 \notin T
     BY <2>1, <2>2
  <2> QED
    BY <2>1, <2>2, <2>3
<1> QED
  BY <1>1, <1>2

\* What repeating step from a gives, as a function of how often.
Repeats(N, V, a, step) ==
  {h \in [0 .. N -> V] : h[0] = a /\ \A k \in 1 .. N : h[k] = step[h[k - 1]]}

\* A step can be repeated any number of times.
LEMMA Repeated ==
  ASSUME NEW N \in Nat, NEW V, NEW a \in V, NEW step \in [V -> V]
  PROVE  Repeats(N, V, a, step) # {}
<1> DEFINE Good(t, h) == h[0] = a /\ \A k \in 1 .. t : h[k] = step[h[k - 1]]
           S == {t \in Nat : \E h \in [0 .. t -> V] : Good(t, h)}
<1>1. 0 \in S
  <2>1. [k \in 0 .. 0 |-> a] \in [0 .. 0 -> V] /\ Good(0, [k \in 0 .. 0 |-> a])
    OBVIOUS
  <2> QED
    BY <2>1
<1>2. ASSUME NEW t \in Nat, t \in S
      PROVE  t + 1 \in S
  <2>1. PICK h \in [0 .. t -> V] : Good(t, h)
    BY <1>2
  <2> DEFINE e == [k \in 0 .. t + 1 |-> IF k = t + 1 THEN step[h[t]] ELSE h[k]]
  <2>2. e \in [0 .. t + 1 -> V]
    OBVIOUS
  <2>3. e[0] = a
    BY <2>1
  <2>4. ASSUME NEW k \in 1 .. t + 1
        PROVE  e[k] = step[e[k - 1]]
    <3>1. CASE k = t + 1
      BY <3>1
    <3>2. CASE k \in 1 .. t
      <4>1. h[k] = step[h[k - 1]]
        BY <2>1, <3>2
      <4> QED
        BY <3>2, <4>1
    <3> QED
      BY <3>1, <3>2
  <2>5. Good(t + 1, e)
    <3> HIDE DEF e
    <3> QED
      BY <2>3, <2>4
  <2> HIDE DEF e, Good
  <2>6. \E g \in [0 .. t + 1 -> V] : Good(t + 1, g)
    BY <2>2, <2>5
  <2> QED
    BY <2>6
<1>3. N \in S
  <2> HIDE DEF S
  <2> QED
    BY <1>1, <1>2, Induction
<1> QED
  BY <1>3 DEF Repeats

\* The sets that Followed goes through.
Follows(link, S) ==
  {far \in [0 .. MaxNodes -> SUBSET (Nodes \cup {NoNode})] :
     /\ far[0] = S
     /\ \A k \in 1 .. MaxNodes :
          far[k] = far[k - 1] \cup {link[y] : y \in far[k - 1] \ {NoNode}}
     /\ Followed(link, S) = far[MaxNodes] \ {NoNode}}

\* Followed is what its recursive definition says.
LEMMA FollowedIs ==
  ASSUME MaxNodes \in Nat, NEW link \in [Nodes -> Nodes \cup {NoNode}],
         NEW S \in SUBSET (Nodes \cup {NoNode})
  PROVE  Follows(link, S) # {}
<1> DEFINE V == SUBSET (Nodes \cup {NoNode})
           step == [U \in V |-> U \cup {link[y] : y \in U \ {NoNode}}]
           Reads(g) == g = [k \in 0 .. MaxNodes |->
                              IF k = 0 THEN S
                              ELSE g[k - 1] \cup {link[y] : y \in g[k - 1] \ {NoNode}}]
           far == CHOOSE g : Reads(g)
<1>1. step \in [V -> V]
  OBVIOUS
<1>2. S \in V
  OBVIOUS
<1>3. PICK h \in Repeats(MaxNodes, V, S, step) : TRUE
  <2> HIDE DEF step, V
  <2> QED
    BY <1>1, <1>2, Repeated
<1>4. Reads(h)
  <2>1. ASSUME NEW k \in 0 .. MaxNodes
        PROVE  h[k] = IF k = 0 THEN S
                      ELSE h[k - 1] \cup {link[y] : y \in h[k - 1] \ {NoNode}}
    <3>1. CASE k = 0
      BY <3>1 DEF Repeats
    <3>2. CASE k # 0
      <4>1. k \in 1 .. MaxNodes /\ k - 1 \in 0 .. MaxNodes
        BY <3>2
      <4>2. h[k - 1] \in V /\ h[k] = step[h[k - 1]]
        <5> HIDE DEF step, V
        <5> QED
          BY <4>1 DEF Repeats
      <4> QED
        BY <3>2, <4>2
    <3> QED
      BY <3>1, <3>2
  <2>2. h = [k \in 0 .. MaxNodes |-> h[k]]
    BY DEF Repeats
  <2> QED
    BY <2>1, <2>2
<1>5. Reads(far)
  <2> HIDE DEF Reads
  <2> QED
    BY <1>4
<1>6. far = [k \in 0 .. MaxNodes |->
               IF k = 0 THEN S
               ELSE far[k - 1] \cup {link[y] : y \in far[k - 1] \ {NoNode}}]
  BY <1>5
<1>7. Followed(link, S) = far[MaxNodes] \ {NoNode}
  BY DEF Followed
<1> HIDE DEF far
<1>8. far[0] = S
  BY <1>6
<1>9. \A k \in 1 .. MaxNodes :
        far[k] = far[k - 1] \cup {link[y] : y \in far[k - 1] \ {NoNode}}
  <2> TAKE k \in 1 .. MaxNodes
  <2>1. k \in 0 .. MaxNodes /\ k # 0
    OBVIOUS
  <2> QED
    BY <1>6, <2>1
<1>10. far \in [0 .. MaxNodes -> V]
  <2>1. ASSUME NEW k \in Nat, k <= MaxNodes => far[k] \in V
        PROVE  k + 1 <= MaxNodes => far[k + 1] \in V
    <3> SUFFICES ASSUME k + 1 <= MaxNodes
                 PROVE  far[k + 1] \in V
      OBVIOUS
    <3>1. k + 1 \in 1 .. MaxNodes /\ far[k] \in V /\ k + 1 - 1 = k
      BY <2>1
    <3>2. far[k + 1] = far[k] \cup {link[y] : y \in far[k] \ {NoNode}}
      BY <1>9, <3>1
    <3> QED
      BY <3>1, <3>2
  <2> DEFINE T == {k \in Nat : k <= MaxNodes => far[k] \in V}
  <2>2. \A k \in Nat : k \in T
    <3>1. 0 \in T
      BY <1>2, <1>8
    <3>2. \A k \in Nat : k \in T => k + 1 \in T
      BY <2>1
    <3> HIDE DEF T
    <3> QED
      BY <3>1, <3>2, Induction
  <2>3. \A k \in 0 .. MaxNodes : far[k] \in V
    BY <2>2
  <2> QED
    BY <1>6, <2>3
<1> QED
  BY <1>7, <1>8, <1>9, <1>10 DEF Follows

\* Whatever holds of S and is passed on by link holds of all that is followed.
LEMMA FollowedWithin ==
  ASSUME MaxNodes \in Nat, NEW link \in [Nodes -> Nodes \cup {NoNode}],
         NEW S \in SUBSET (Nodes \cup {NoNode}), NEW T,
         S \subseteq T \cup {NoNode},
         \A y \in T \cap Nodes : link[y] \in T \cup {NoNode}
  PROVE  Followed(link, S) \subseteq T \cap Nodes
<1>1. PICK far \in [0 .. MaxNodes -> SUBSET (Nodes \cup {NoNode})] :
        /\ far[0] = S
        /\ \A k \in 1 .. MaxNodes :
             far[k] = far[k - 1] \cup {link[y] : y \in far[k - 1] \ {NoNode}}
        /\ Followed(link, S) = far[MaxNodes] \ {NoNode}
  <2>1. PICK far \in Follows(link, S) : TRUE
    BY FollowedIs
  <2> QED
    BY <2>1 DEF Follows
<1> DEFINE K == {k \in Nat : k <= MaxNodes => far[k] \subseteq T \cup {NoNode}}
<1>2. 0 \in K
  BY <1>1
<1>3. ASSUME NEW k \in Nat, k \in K
      PROVE  k + 1 \in K
  <2> SUFFICES ASSUME k + 1 <= MaxNodes
               PROVE  far[k + 1] \subseteq T \cup {NoNode}
    OBVIOUS
  <2>1. k + 1 \in 1 .. MaxNodes /\ k \in 0 .. MaxNodes /\ k + 1 - 1 = k
    OBVIOUS
  <2>2. far[k + 1] = far[k] \cup {link[y] : y \in far[k] \ {NoNode}}
    BY <1>1, <2>1
  <2>3. far[k] \subseteq T \cup {NoNode} /\ far[k] \subseteq Nodes \cup {NoNode}
    BY <1>3, <2>1
  <2> QED
    BY <2>2, <2>3
<1>4. MaxNodes \in K
  <2> HIDE DEF K
  <2> QED
    BY <1>2, <1>3, Induction
<1>5. far[MaxNodes] \subseteq T \cup {NoNode} /\ far[MaxNodes] \subseteq Nodes \cup {NoNode}
  BY <1>4
<1> QED
  BY <1>1, <1>5

\* One node more than those of a set.
LEMMA OneMore ==
  ASSUME NEW S, NEW x, IsFiniteSet(S), x \notin S
  PROVE  Cardinality(S \cup {x}) = Cardinality(S) + 1
<1>1. Cardinality(S \cup {x})
        = IF x \in S THEN Cardinality(S) ELSE Cardinality(S) + 1
  BY FS_AddElement, Zenon
<1> QED
  BY <1>1

\* Two nodes.
LEMMA TwoElements ==
  ASSUME NEW a, NEW b, a # b
  PROVE  Cardinality({a} \cup {b}) = 2
<1>1. IsFiniteSet({a}) /\ Cardinality({a}) = 1
  BY FS_Singleton
<1>2. Cardinality({a} \cup {b}) = Cardinality({a}) + 1
  BY <1>1, OneMore
<1> QED
  BY <1>1, <1>2

\* NoNode is one more.
LEMMA NodesFinite ==
  ASSUME MaxNodes \in Nat
  PROVE  /\ IsFiniteSet(Nodes) /\ Cardinality(Nodes) = MaxNodes
         /\ IsFiniteSet(Nodes \cup {NoNode})
         /\ Cardinality(Nodes \cup {NoNode}) = MaxNodes + 1
         /\ NoNode \notin Nodes
<1>1. IsFiniteSet(1 .. MaxNodes) /\ Cardinality(1 .. MaxNodes) = MaxNodes
  <2>1. IsFiniteSet(1 .. MaxNodes)
          /\ Cardinality(1 .. MaxNodes) = IF 1 > MaxNodes THEN 0 ELSE MaxNodes - 1 + 1
    BY FS_Interval
  <2> QED
    BY <2>1
<1>2. NoNode \notin Nodes
  BY DEF Nodes, NoNode
<1> QED
  BY <1>1, <1>2, FS_AddElement DEF Nodes

\* Links are followed to the end: as long as they lead to more nodes, there is one
\* more each time, and after MaxNodes times there are no more.
LEMMA FollowedClosed ==
  ASSUME MaxNodes \in Nat, NEW link \in [Nodes -> Nodes \cup {NoNode}],
         NEW S \in SUBSET (Nodes \cup {NoNode}), S # {}
  PROVE  /\ S \ {NoNode} \subseteq Followed(link, S)
         /\ Followed(link, S) \subseteq Nodes
         /\ \A y \in Followed(link, S) : link[y] \in Followed(link, S) \cup {NoNode}
<1>1. PICK far \in [0 .. MaxNodes -> SUBSET (Nodes \cup {NoNode})] :
        /\ far[0] = S
        /\ \A k \in 1 .. MaxNodes :
             far[k] = far[k - 1] \cup {link[y] : y \in far[k - 1] \ {NoNode}}
        /\ Followed(link, S) = far[MaxNodes] \ {NoNode}
  <2>1. PICK far \in Follows(link, S) : TRUE
    BY FollowedIs
  <2> QED
    BY <2>1 DEF Follows
<1> DEFINE Closed(U) == \A y \in U \ {NoNode} : link[y] \in U
           K == {k \in Nat : k <= MaxNodes =>
                   /\ S \subseteq far[k]
                   /\ Closed(far[k]) \/ Cardinality(far[k]) >= k + 1}
<1>2. \A U \in SUBSET (Nodes \cup {NoNode}) :
        /\ IsFiniteSet(U) /\ Cardinality(U) \in Nat
        /\ Cardinality(U) <= MaxNodes + 1
        /\ Cardinality(U) = MaxNodes + 1 => U = Nodes \cup {NoNode}
  BY NodesFinite, FS_Subset, FS_CardinalityType
<1>3. 0 \in K
  <2>1. IsFiniteSet(S) /\ Cardinality(S) \in Nat
    BY <1>2
  <2>2. Cardinality(S) # 0
    BY <2>1, FS_EmptySet
  <2> QED
    BY <1>1, <2>1, <2>2
<1>4. ASSUME NEW k \in Nat, k \in K
      PROVE  k + 1 \in K
  <2> SUFFICES ASSUME k + 1 <= MaxNodes
               PROVE  /\ S \subseteq far[k + 1]
                      /\ Closed(far[k + 1]) \/ Cardinality(far[k + 1]) >= k + 2
    OBVIOUS
  <2>1. k + 1 \in 1 .. MaxNodes /\ k \in 0 .. MaxNodes /\ k + 1 - 1 = k
    OBVIOUS
  <2>2. far[k + 1] = far[k] \cup {link[y] : y \in far[k] \ {NoNode}}
    BY <1>1, <2>1
  <2>3. /\ S \subseteq far[k]
        /\ Closed(far[k]) \/ Cardinality(far[k]) >= k + 1
        /\ far[k] \in SUBSET (Nodes \cup {NoNode})
        /\ far[k + 1] \in SUBSET (Nodes \cup {NoNode})
    BY <1>4, <2>1
  <2>4. CASE Closed(far[k])
    <3>1. far[k + 1] = far[k]
      BY <2>2, <2>4
    <3> QED
      BY <2>3, <2>4, <3>1
  <2>5. CASE ~Closed(far[k])
    <3>1. PICK y \in far[k] \ {NoNode} : link[y] \notin far[k]
      BY <2>5
    <3>2. far[k] \subseteq far[k + 1] /\ far[k] # far[k + 1]
      BY <2>2, <3>1
    <3>3. IsFiniteSet(far[k + 1]) /\ Cardinality(far[k + 1]) \in Nat
            /\ Cardinality(far[k]) \in Nat
      BY <1>2, <2>3
    <3>4. Cardinality(far[k]) <= Cardinality(far[k + 1])
            /\ Cardinality(far[k + 1]) # Cardinality(far[k])
      BY <3>2, <3>3, FS_Subset
    <3> QED
      BY <2>3, <2>5, <3>2, <3>3, <3>4
  <2> QED
    BY <2>4, <2>5
<1>5. MaxNodes \in K
  <2> HIDE DEF K
  <2> QED
    BY <1>3, <1>4, Induction
<1>6. /\ S \subseteq far[MaxNodes]
      /\ far[MaxNodes] \in SUBSET (Nodes \cup {NoNode})
      /\ Closed(far[MaxNodes]) \/ Cardinality(far[MaxNodes]) >= MaxNodes + 1
  BY <1>5
<1>7. Closed(far[MaxNodes])
  <2>1. CASE Cardinality(far[MaxNodes]) >= MaxNodes + 1
    <3>1. far[MaxNodes] = Nodes \cup {NoNode}
      BY <1>2, <1>6, <2>1
    <3> QED
      BY <3>1
  <2> QED
    BY <1>6, <2>1
<1> QED
  BY <1>1, <1>6, <1>7

-----------------------------------------------------------------------------
(* The sequences of successors.                                            *)

Distinct(q) == \A i, j \in DOMAIN q : q[i] = q[j] => i = j

\* What Append adds to the elements of a sequence.
LEMMA AppendTo ==
  ASSUME NEW S, NEW q \in Seq(S), NEW x \in S
  PROVE  /\ Append(q, x) \in Seq(S)
         /\ InSeq(Append(q, x)) = InSeq(q) \cup {x}
         /\ Distinct(q) /\ x \notin InSeq(q) => Distinct(Append(q, x))
<1>1. /\ Append(q, x) \in Seq(S) /\ Len(q) \in Nat /\ DOMAIN q = 1 .. Len(q)
      /\ DOMAIN Append(q, x) = 1 .. Len(q) + 1
      /\ \A i \in 1 .. Len(q) : Append(q, x)[i] = q[i]
      /\ Append(q, x)[Len(q) + 1] = x
  OBVIOUS
<1>2. InSeq(Append(q, x)) = InSeq(q) \cup {x}
  <2>1. \A y \in InSeq(q) \cup {x} : y \in InSeq(Append(q, x))
    BY <1>1 DEF InSeq
  <2>2. \A y \in InSeq(Append(q, x)) : y \in InSeq(q) \cup {x}
    <3> TAKE y \in InSeq(Append(q, x))
    <3>1. PICK i \in 1 .. Len(q) + 1 : y = Append(q, x)[i]
      BY <1>1 DEF InSeq
    <3>2. CASE i \in 1 .. Len(q)
      BY <1>1, <3>1, <3>2 DEF InSeq
    <3>3. CASE i = Len(q) + 1
      BY <1>1, <3>1, <3>3
    <3> QED
      BY <1>1, <3>2, <3>3
  <2> QED
    BY <2>1, <2>2
<1>3. ASSUME Distinct(q), x \notin InSeq(q)
      PROVE  Distinct(Append(q, x))
  <2>1. \A i \in 1 .. Len(q) : q[i] # x
    BY <1>1, <1>3 DEF InSeq
  <2>2. \A i, j \in 1 .. Len(q) : q[i] = q[j] => i = j
    BY <1>1, <1>3 DEF Distinct
  <2>3. ASSUME NEW i \in 1 .. Len(q) + 1, NEW j \in 1 .. Len(q) + 1,
               Append(q, x)[i] = Append(q, x)[j]
        PROVE  i = j
    BY <1>1, <2>1, <2>2, <2>3
  <2> QED
    BY <1>1, <2>3 DEF Distinct
<1> QED
  BY <1>1, <1>2, <1>3

\* What Tail leaves of them.
LEMMA TailOf ==
  ASSUME NEW S, NEW q \in Seq(S), q # << >>
  PROVE  /\ Head(q) \in S /\ Tail(q) \in Seq(S)
         /\ InSeq(q) = {Head(q)} \cup InSeq(Tail(q))
         /\ Distinct(q) => Distinct(Tail(q)) /\ Head(q) \notin InSeq(Tail(q))
<1>1. /\ Len(q) \in Nat \ {0} /\ DOMAIN q = 1 .. Len(q)
      /\ Head(q) \in S /\ Tail(q) \in Seq(S) /\ Head(q) = q[1]
      /\ DOMAIN Tail(q) = 1 .. Len(q) - 1
      /\ \A i \in 1 .. Len(q) - 1 : Tail(q)[i] = q[i + 1]
  OBVIOUS
<1>2. \A y \in InSeq(Tail(q)) \cup {Head(q)} : y \in InSeq(q)
  <2>1. \A i \in 1 .. Len(q) - 1 : i + 1 \in 1 .. Len(q) /\ 1 \in 1 .. Len(q)
    BY <1>1
  <2>2. 1 \in 1 .. Len(q)
    BY <1>1
  <2> QED
    BY <1>1, <2>1, <2>2 DEF InSeq
<1>3. \A y \in InSeq(q) : y \in InSeq(Tail(q)) \cup {Head(q)}
  <2> TAKE y \in InSeq(q)
  <2>1. PICK i \in 1 .. Len(q) : y = q[i]
    BY <1>1 DEF InSeq
  <2>2. CASE i = 1
    BY <1>1, <2>1, <2>2
  <2>3. CASE i # 1
    <3>1. i - 1 \in 1 .. Len(q) - 1 /\ i - 1 + 1 = i
      BY <1>1, <2>3
    <3>2. y = Tail(q)[i - 1]
      BY <1>1, <2>1, <3>1
    <3> QED
      BY <1>1, <3>1, <3>2 DEF InSeq
  <2> QED
    BY <2>2, <2>3
<1>4. ASSUME Distinct(q)
      PROVE  Distinct(Tail(q)) /\ Head(q) \notin InSeq(Tail(q))
  <2>1. \A i, j \in 1 .. Len(q) : q[i] = q[j] => i = j
    BY <1>1, <1>4 DEF Distinct
  <2>2. ASSUME NEW i \in 1 .. Len(q) - 1, NEW j \in 1 .. Len(q) - 1,
               Tail(q)[i] = Tail(q)[j]
        PROVE  i = j
    <3>1. i + 1 \in 1 .. Len(q) /\ j + 1 \in 1 .. Len(q) /\ q[i + 1] = q[j + 1]
      BY <1>1, <2>2
    <3>2. i + 1 = j + 1
      BY <2>1, <3>1
    <3> QED
      BY <3>2
  <2>3. \A i \in 1 .. Len(q) - 1 : Tail(q)[i] # Head(q)
    <3> TAKE i \in 1 .. Len(q) - 1
    <3>1. i + 1 \in 1 .. Len(q) /\ 1 \in 1 .. Len(q) /\ i + 1 # 1
      BY <1>1
    <3> QED
      BY <1>1, <2>1, <3>1
  <2> QED
    BY <1>1, <2>2, <2>3 DEF Distinct, InSeq
<1> QED
  BY <1>1, <1>2, <1>3, <1>4

\* A sequence without repetition is as long as its elements are many.
LEMMA DistinctCount ==
  ASSUME NEW S, NEW q \in Seq(S), Distinct(q)
  PROVE  Cardinality(InSeq(q)) = Len(q)
<1>1. Len(q) \in Nat /\ DOMAIN q = 1 .. Len(q)
  OBVIOUS
<1>2. q \in [1 .. Len(q) -> InSeq(q)]
  BY <1>1 DEF InSeq
<1>3. \A y \in InSeq(q) : \E i \in 1 .. Len(q) : q[i] = y
  BY <1>1 DEF InSeq
<1>4. \A i, j \in 1 .. Len(q) : q[i] = q[j] => i = j
  BY <1>1 DEF Distinct
<1>5. q \in Bijection(1 .. Len(q), InSeq(q))
  BY <1>2, <1>3, <1>4, Fun_IsBij
<1>6. ExistsBijection(1 .. Len(q), InSeq(q))
  BY <1>5 DEF ExistsBijection
<1> QED
  BY <1>1, <1>6, FS_CountingElements

-----------------------------------------------------------------------------
(* The inductive invariant.                                                *)

Listed == m_OpenList \cup m_ClosedList \cup ({n} \ {NoNode})

NodeContents == [user : UserStates, parent : Nodes \cup {NoNode},
                 child : Nodes \cup {NoNode}, g : Nat]

Typed ==
  /\ held \subseteq Nodes /\ m_AllocateNodeCount = Cardinality(held)
  /\ node \in [Nodes -> NodeContents]
  /\ m_OpenList \subseteq Nodes /\ m_ClosedList \subseteq Nodes
  /\ m_Successors \in Seq(Nodes) /\ pending \in Seq(UserStates)
  /\ {n, m_Start, m_Goal} \subseteq Nodes \cup {NoNode}
  /\ m_State \in {"NOT_INITIALISED", "SEARCHING", "SUCCEEDED", "FAILED"}
  /\ world \in Worlds

\* What goes with where perform_4dnode_search is.
Phased ==
  /\ pc \in {"idle", "step", "generate", "shot", "over"}
  /\ pc \in {"step", "generate"} => m_State = "SEARCHING"
  /\ pc = "shot" => m_State \in {"SEARCHING", "SUCCEEDED"}
  /\ pc = "over" => m_State \in {"SUCCEEDED", "FAILED"}
  /\ pc = "idle" => m_State # "SEARCHING" /\ held = {} /\ excuses = {}
  /\ pc = "generate" => n \in Nodes
  /\ pc # "generate" => n = NoNode /\ m_Successors = << >> /\ pending = << >>
  /\ m_State # "SEARCHING" => m_OpenList = {} /\ m_ClosedList = {}
  /\ pc = "over" /\ m_State = "FAILED" => held = {}

\* The owners of the nodes that are held.
Owned ==
  m_State = "SEARCHING" =>
    /\ held = Listed \cup InSeq(m_Successors) \cup {m_Goal}
    /\ m_OpenList \cap m_ClosedList = {}
    /\ n \notin m_OpenList \cup m_ClosedList
    /\ InSeq(m_Successors) \cap Listed = {}
    /\ m_Goal \notin Listed \cup InSeq(m_Successors)
    /\ Distinct(m_Successors)

\* What the nodes on the lists and the one that is expanded make up: a tree.
Rooted ==
  m_State = "SEARCHING" =>
    /\ m_Start \in Listed
    /\ node[m_Start].user = world.start /\ node[m_Goal].user = world.goal
    /\ \A x \in held : node[x].child = NoNode
    /\ \A x \in m_ClosedList \cup ({n} \ {NoNode}) : at(x) # world.goal.at

StepsAreMoves ==
  m_State = "SEARCHING" =>
    \A x \in Listed \ {m_Start} : Leads(at(node[x].parent), at(x))

\* What GetSuccessors is at.
Generated ==
  pc = "generate" =>
    /\ InSeq(pending) \subseteq InSeq(Moves[at(n)])
    /\ \A x \in InSeq(m_Successors) : Leads(at(n), at(x))

\* Where the nodes on the lists are.
Seen == {at(y) : y \in Listed}

\* Nothing is left out: from a closed node every movement leads to a node on the
\* lists, from the one that is expanded also to one that is still to be.
Covered ==
  m_State = "SEARCHING" =>
    /\ m_CancelRequest => excuses # {}
    /\ excuses = {} =>
         /\ \A x \in m_ClosedList : \A d \in Cells : Leads(at(x), d) => d \in Seen
         /\ pc = "generate" =>
              \A d \in Cells : Leads(at(n), d) =>
                \/ d \in Seen
                \/ \E y \in InSeq(m_Successors) : at(y) = d
                \/ \E s \in InSeq(pending) : s.at = d

\* What a search that has succeeded leaves.
Solved ==
  pc \in {"shot", "over"} /\ m_State = "SUCCEEDED" =>
    /\ m_Start # m_Goal
    /\ node[m_Start].child = NoNode <=> world.start.at = world.goal.at

IInv ==
  /\ Typed /\ Phased /\ Owned
  /\ Rooted /\ OneNodePerCell /\ ParentsLeadToStart /\ StepsAreMoves
  /\ Generated /\ Covered
  /\ Solved /\ SolutionIsPath /\ FailureMeansUnreachable

-----------------------------------------------------------------------------
(* What the assumption and the types give.                                 *)

\* What a world consists of.
LEMMA WorldType ==
  ASSUME NEW w \in Worlds
  PROVE  /\ w.cost_map \in Tables /\ w.start \in UserStates /\ w.goal \in UserStates
         /\ w.h \in [Cells -> Nat]
         /\ w.start.at \in Cells /\ w.goal.at \in Cells
BY SearchAssumption DEF SearchAssumption, UserStates

\* A movement leads out of its cell.
LEMMA MovesAway ==
  ASSUME NEW c \in Cells, NEW s \in InSeq(Moves[c])
  PROVE  s \in UserStates /\ s.at \in Cells /\ s.at # c
<1>1. Moves[c] \in Seq(UserStates) /\ \A i \in DOMAIN Moves[c] : Moves[c][i].at # c
  BY SearchAssumption DEF SearchAssumption
<1>2. PICK i \in DOMAIN Moves[c] : s = Moves[c][i]
  BY DEF InSeq
<1>3. s \in UserStates
  BY <1>1, <1>2
<1> QED
  BY <1>1, <1>2, <1>3 DEF UserStates

\* Movements cost something.
LEMMA CostType ==
  ASSUME NEW w \in Worlds, NEW s \in UserStates, NEW t \in UserStates
  PROVE  Cost(w.cost_map, s, t) \in Nat \ {0}
BY WorldType, SearchAssumption DEF SearchAssumption

\* What a node consists of.
LEMMA NodeType ==
  ASSUME Typed, NEW x \in Nodes
  PROVE  /\ node[x].user \in UserStates /\ at(x) \in Cells /\ node[x].g \in Nat
         /\ node[x].parent \in Nodes \cup {NoNode}
         /\ node[x].child \in Nodes \cup {NoNode}
BY DEF Typed, NodeContents, UserStates, at

\* There are as many nodes as the pool is large.
LEMMA PoolSize ==
  /\ MaxNodes \in Nat /\ IsFiniteSet(Nodes) /\ Cardinality(Nodes) = MaxNodes
  /\ MaxNodes >= 2 /\ NoNode \notin Nodes
BY SearchAssumption, NodesFinite DEF SearchAssumption

\* The pool gives a node that is not in use, while there is one.
LEMMA UnusedType ==
  ASSUME NEW S, S \subseteq Nodes, S # Nodes
  PROVE  Unused(S) \in Nodes /\ Unused(S) \notin S
<1>1. \E x \in Nodes : x \notin S
  OBVIOUS
<1> QED
  BY <1>1 DEF Unused

\* The constructor leaves contents of a node.
LEMMA FreshType ==
  ASSUME NEW user \in UserStates
  PROVE  Fresh(user) \in NodeContents
BY DEF Fresh, NodeContents

\* The start and the goal of a world are contents for nodes.
LEMMA ForgottenType ==
  /\ Forgotten \in [Nodes -> NodeContents]
  /\ AnyWorld \in Worlds
<1>1. AnyWorld \in Worlds
  BY SearchAssumption DEF SearchAssumption, AnyWorld
<1>2. \E user \in UserStates : TRUE
  BY <1>1, WorldType
<1>3. (CHOOSE user \in UserStates : TRUE) \in UserStates
  BY <1>2
<1>4. Fresh(CHOOSE user \in UserStates : TRUE) \in NodeContents
  BY <1>3, FreshType
<1> QED
  BY <1>1, <1>4 DEF Forgotten

\* Nodes can be counted.
LEMMA HeldFinite ==
  ASSUME Typed, NEW S, S \subseteq Nodes
  PROVE  IsFiniteSet(S) /\ Cardinality(S) \in Nat
BY PoolSize, FS_Subset, FS_CardinalityType

\* What is freed is no longer counted.
LEMMA Freed ==
  ASSUME Typed, NEW S, S \subseteq held, Freeing(S)
  PROVE  held' \subseteq Nodes /\ m_AllocateNodeCount' = Cardinality(held')
<1>1. IsFiniteSet(held) /\ Cardinality(held) \in Nat /\ held \subseteq Nodes
  BY HeldFinite DEF Typed
<1>2. held \cap S = S
  OBVIOUS
<1>3. Cardinality(held \ S) = Cardinality(held) - Cardinality(held \cap S)
  BY <1>1, FS_Difference
<1> QED
  BY <1>1, <1>2, <1>3 DEF Freeing, Typed

-----------------------------------------------------------------------------
(* A lemma for every step, beginning with the first states.                *)

\* Before the first search.
LEMMA InitHolds ==
  ASSUME Init
  PROVE  IInv
<1>1. Typed
  BY ForgottenType, FS_EmptySet, EmptySeq, Zenon DEF Init, Typed
<1>2. Phased
  BY DEF Init, Phased
<1> QED
  BY <1>1, <1>2 DEF Init, IInv, Owned, Rooted, OneNodePerCell, ParentsLeadToStart,
     StepsAreMoves, Generated, Covered, Solved, SolutionIsPath, FailureMeansUnreachable

\* The first two nodes.
LEMMA StartNodes ==
  ASSUME IInv, SetStartAndGoalStates
  PROVE  /\ m_Start' \in Nodes /\ m_Goal' \in Nodes /\ m_Start' # m_Goal'
         /\ held' = {m_Start', m_Goal'} /\ m_AllocateNodeCount' = 2
         /\ world' \in Worlds /\ n' = NoNode
         /\ m_OpenList' = {m_Start'} /\ m_ClosedList' = {}
         /\ m_Successors' = << >> /\ pending' = << >> /\ excuses' = {}
         /\ m_State' = "SEARCHING" /\ pc' = "step" /\ m_CancelRequest' = FALSE
         /\ node' \in [Nodes -> NodeContents]
         /\ node'[m_Start'] = Fresh(world'.start)
         /\ node'[m_Goal'] = Fresh(world'.goal)
<1>1. /\ held = {} /\ excuses = {} /\ m_OpenList = {} /\ m_ClosedList = {}
      /\ n = NoNode /\ m_Successors = << >> /\ pending = << >>
      /\ m_AllocateNodeCount = Cardinality(held)
      /\ node \in [Nodes -> NodeContents]
  BY DEF IInv, Phased, Typed, SetStartAndGoalStates, Start
<1>2. /\ world' \in Worlds /\ m_Start' = Unused(held)
      /\ m_Goal' = Unused(held \cup {m_Start'})
      /\ held' = held \cup {m_Start', m_Goal'}
      /\ m_AllocateNodeCount' = m_AllocateNodeCount + 2
      /\ node' = [node EXCEPT ![m_Start'] = Fresh(world'.start),
                              ![m_Goal'] = Fresh(world'.goal)]
      /\ m_OpenList' = m_OpenList \cup {m_Start'}
      /\ m_State' = "SEARCHING" /\ pc' = "step" /\ m_CancelRequest' = FALSE
      /\ UNCHANGED <<m_ClosedList, m_Successors, n, pending, excuses>>
  BY DEF SetStartAndGoalStates, Start
<1>3. m_Start' \in Nodes
  <2>1. held # Nodes
    BY <1>1, PoolSize, FS_EmptySet
  <2> QED
    BY <1>1, <1>2, <2>1, UnusedType
<1>4. m_Goal' \in Nodes /\ m_Goal' # m_Start'
  <2>1. {m_Start'} # Nodes
    <3>1. Cardinality({m_Start'}) = 1
      BY FS_Singleton
    <3> QED
      BY <3>1, PoolSize
  <2>2. m_Goal' = Unused({m_Start'})
    BY <1>1, <1>2
  <2> QED
    BY <1>3, <2>1, <2>2, UnusedType
<1>5. Fresh(world'.start) \in NodeContents /\ Fresh(world'.goal) \in NodeContents
  BY <1>2, WorldType, FreshType
<1>6. /\ node' \in [Nodes -> NodeContents]
      /\ node'[m_Start'] = Fresh(world'.start)
      /\ node'[m_Goal'] = Fresh(world'.goal)
  BY <1>1, <1>2, <1>3, <1>4, <1>5
<1>7. m_AllocateNodeCount' = 2
  BY <1>1, <1>2, FS_EmptySet
<1> QED
  BY <1>1, <1>2, <1>3, <1>4, <1>6, <1>7

\* A new search.
LEMMA StartStep ==
  ASSUME IInv, SetStartAndGoalStates
  PROVE  IInv'
<1> USE StartNodes
<1>1. Cardinality(held') = 2
  <2>1. m_Start' # m_Goal'
    OBVIOUS
  <2>2. Cardinality({m_Start'} \cup {m_Goal'}) = 2
    <3> HIDE StartNodes
    <3> QED
      BY <2>1, TwoElements
  <2>3. held' = {m_Start'} \cup {m_Goal'}
    OBVIOUS
  <2> QED
    BY <2>2, <2>3
<1>2. Typed'
  <2>1. << >> \in Seq(Nodes) /\ << >> \in Seq(UserStates)
    BY EmptySeq
  <2> QED
    BY <1>1, <2>1 DEF Typed
<1>3. Phased'
  BY DEF Phased
<1>4. Listed' = {m_Start'}
  BY DEF Listed
<1>5. InSeq(m_Successors)' = {}
  BY DEF InSeq
<1>6. Owned'
  <2>1. Distinct(m_Successors)'
    BY DEF Distinct
  <2>2. n' \notin {m_Start'}
    BY PoolSize
  <2> QED
    BY <1>4, <1>5, <2>1, <2>2 DEF Owned
<1>7. /\ node'[m_Start'].user = world'.start /\ node'[m_Start'].parent = NoNode
      /\ node'[m_Start'].child = NoNode /\ node'[m_Start'].g = 0
      /\ node'[m_Goal'].user = world'.goal /\ node'[m_Goal'].child = NoNode
  BY DEF Fresh
<1>8. Rooted'
  BY <1>4, <1>7, PoolSize DEF Rooted
<1>9. OneNodePerCell' /\ ParentsLeadToStart' /\ StepsAreMoves'
  BY <1>4, <1>7 DEF OneNodePerCell, ParentsLeadToStart, StepsAreMoves
<1>10. Generated' /\ Covered' /\ Solved' /\ SolutionIsPath' /\ FailureMeansUnreachable'
  BY DEF Generated, Covered, Solved, SolutionIsPath, FailureMeansUnreachable
<1> QED
  BY <1>2, <1>3, <1>6, <1>8, <1>9, <1>10 DEF IInv

-----------------------------------------------------------------------------
(* Failure.                                                                *)

\* ReachableIn is what its recursive definition says.
LEMMA ReachableInIs ==
  ASSUME world \in Worlds
  PROVE  /\ Cardinality(Cells) \in Nat
         /\ ReachableIn[0] = {world.start.at}
         /\ \A k \in 1 .. Cardinality(Cells) :
              ReachableIn[k] = ReachableIn[k - 1]
                \cup {d \in Cells : \E c \in ReachableIn[k - 1] : Leads(c, d)}
<1> DEFINE C == Cardinality(Cells)
           V == SUBSET Cells
           a == {world.start.at}
           step == [U \in V |-> U \cup {d \in Cells : \E c \in U : Leads(c, d)}]
           Reads(r) == r = [k \in 0 .. C |->
                         IF k = 0 THEN {world.start.at}
                         ELSE r[k - 1]
                           \cup {d \in Cells : \E c \in r[k - 1] : Leads(c, d)}]
<1>1. C \in Nat
  BY SearchAssumption, FS_CardinalityType DEF SearchAssumption
<1>2. step \in [V -> V]
  OBVIOUS
<1>3. a \in V
  BY WorldType
<1> HIDE DEF C
<1>4. PICK h \in Repeats(C, V, a, step) : TRUE
  <2> HIDE DEF step, V, a
  <2> QED
    BY <1>1, <1>2, <1>3, Repeated
<1>5. Reads(h)
  <2>1. ASSUME NEW k \in 0 .. C
        PROVE  h[k] = IF k = 0 THEN {world.start.at}
                      ELSE h[k - 1]
                        \cup {d \in Cells : \E c \in h[k - 1] : Leads(c, d)}
    <3>1. CASE k = 0
      BY <3>1 DEF Repeats
    <3>2. CASE k # 0
      <4>1. k \in 1 .. C /\ k - 1 \in 0 .. C
        BY <1>1, <3>2
      <4>2. h[k - 1] \in V /\ h[k] = step[h[k - 1]]
        <5> HIDE DEF step, V, a
        <5> QED
          BY <4>1 DEF Repeats
      <4> QED
        BY <3>2, <4>2
    <3> QED
      BY <3>1, <3>2
  <2>2. h = [k \in 0 .. C |-> h[k]]
    BY DEF Repeats
  <2> QED
    BY <2>1, <2>2
<1>6. Reads(ReachableIn)
  <2>1. ReachableIn = CHOOSE r : Reads(r)
    BY DEF ReachableIn, C
  <2> HIDE DEF Reads
  <2> QED
    BY <1>5, <2>1
<1>7. ReachableIn[0] = {world.start.at}
  BY <1>1, <1>6
<1>8. \A k \in 1 .. C :
        ReachableIn[k] = ReachableIn[k - 1]
          \cup {d \in Cells : \E c \in ReachableIn[k - 1] : Leads(c, d)}
  <2> TAKE k \in 1 .. C
  <2>1. k \in 0 .. C /\ k # 0
    OBVIOUS
  <2> QED
    BY <1>6, <2>1
<1> QED
  BY <1>1, <1>7, <1>8 DEF C

\* A set of cells that holds the start and is not left by a movement holds all
\* that is reachable.
LEMMA ReachableWithin ==
  ASSUME world \in Worlds, NEW T, world.start.at \in T,
         \A c \in T : \A d \in Cells : Leads(c, d) => d \in T
  PROVE  Reachable \subseteq T
<1> DEFINE C == Cardinality(Cells)
           K == {k \in Nat : k <= C => ReachableIn[k] \subseteq T}
<1>1. 0 \in K
  BY ReachableInIs
<1>2. ASSUME NEW k \in Nat, k \in K
      PROVE  k + 1 \in K
  <2> SUFFICES ASSUME k + 1 <= C
               PROVE  ReachableIn[k + 1] \subseteq T
    OBVIOUS
  <2>1. k + 1 \in 1 .. C /\ k + 1 - 1 = k /\ k <= C
    BY ReachableInIs
  <2>2. ReachableIn[k + 1] = ReachableIn[k]
          \cup {d \in Cells : \E c \in ReachableIn[k] : Leads(c, d)}
    BY <2>1, ReachableInIs
  <2>3. ReachableIn[k] \subseteq T
    BY <1>2, <2>1
  <2> QED
    BY <2>2, <2>3
<1>3. C \in K
  <2>1. C \in Nat
    BY ReachableInIs
  <2> HIDE DEF K
  <2> QED
    BY <1>1, <1>2, <2>1, Induction
<1> QED
  BY <1>3, ReachableInIs DEF Reachable

\* With nothing open and nothing left out, the goal is not reachable.
LEMMA Exhaustive ==
  ASSUME IInv, pc = "step", m_OpenList = {}, excuses = {}
  PROVE  world.goal.at \notin Reachable
<1>1. m_State = "SEARCHING" /\ n = NoNode /\ world \in Worlds
  BY DEF IInv, Phased, Typed
<1>2. Listed = m_ClosedList
  BY <1>1 DEF Listed
<1>3. \A c \in Seen : \A d \in Cells : Leads(c, d) => d \in Seen
  BY <1>1, <1>2 DEF IInv, Covered, Seen
<1>4. world.start.at \in Seen
  BY <1>1 DEF IInv, Rooted, Seen, at
<1>5. world.goal.at \notin Seen
  BY <1>1, <1>2 DEF IInv, Rooted, Seen
<1> QED
  BY <1>1, <1>3, <1>4, <1>5, ReachableWithin

\* Reachable depends on nothing but the world.
LEMMA SameReachable ==
  ASSUME UNCHANGED world
  PROVE  Reachable' = Reachable
BY DEF Reachable, ReachableIn, Leads, InSeq

\* A search that fails frees every node, and has seen all that can be reached.
LEMMA GiveUpStep ==
  ASSUME IInv, GiveUp
  PROVE  IInv'
<1>1. /\ pc = "step" /\ m_State = "SEARCHING" /\ n = NoNode
      /\ m_Successors = << >> /\ pending = << >>
  BY DEF IInv, Phased, GiveUp, Fail
<1>2. /\ held' = held \ (m_OpenList \cup m_ClosedList \cup {m_Goal})
      /\ m_AllocateNodeCount' = m_AllocateNodeCount - Cardinality(m_OpenList)
                                  - Cardinality(m_ClosedList) - Cardinality({m_Goal})
      /\ m_OpenList' = {} /\ m_ClosedList' = {}
      /\ m_State' = "FAILED" /\ pc' = "over"
      /\ m_OpenList = {} \/ m_CancelRequest
      /\ UNCHANGED <<node, m_Successors, m_Start, m_Goal, n, pending, world, excuses>>
  BY DEF GiveUp, Fail
<1>3. /\ held = m_OpenList \cup m_ClosedList \cup {m_Goal}
      /\ m_OpenList \cap m_ClosedList = {}
      /\ (m_OpenList \cup m_ClosedList) \cap {m_Goal} = {}
      /\ m_OpenList \subseteq Nodes /\ m_ClosedList \subseteq Nodes
  <2>1. InSeq(m_Successors) = {}
    BY <1>1 DEF InSeq
  <2> QED
    BY <1>1, <2>1 DEF IInv, Owned, Listed, Typed
<1>4. held' = {}
  BY <1>2, <1>3
<1>5. m_AllocateNodeCount' = 0
  <2>1. /\ IsFiniteSet(m_OpenList) /\ Cardinality(m_OpenList) \in Nat
        /\ IsFiniteSet(m_ClosedList) /\ Cardinality(m_ClosedList) \in Nat
    BY <1>3, HeldFinite DEF IInv
  <2>2. /\ IsFiniteSet(m_OpenList \cup m_ClosedList)
        /\ Cardinality(m_OpenList \cup m_ClosedList)
             = Cardinality(m_OpenList) + Cardinality(m_ClosedList)
    <3>1. /\ IsFiniteSet(m_OpenList \cup m_ClosedList)
          /\ Cardinality(m_OpenList \cup m_ClosedList)
               = Cardinality(m_OpenList) + Cardinality(m_ClosedList)
                   - Cardinality(m_OpenList \cap m_ClosedList)
      BY <2>1, FS_Union
    <3>2. Cardinality(m_OpenList \cap m_ClosedList) = 0
      BY <1>3, FS_EmptySet
    <3> QED
      BY <2>1, <3>1, <3>2
  <2>3. IsFiniteSet({m_Goal}) /\ Cardinality({m_Goal}) = 1
    BY FS_Singleton
  <2>4. Cardinality((m_OpenList \cup m_ClosedList) \cup {m_Goal})
          = Cardinality(m_OpenList \cup m_ClosedList) + Cardinality({m_Goal})
              - Cardinality((m_OpenList \cup m_ClosedList) \cap {m_Goal})
    BY <2>2, <2>3, FS_Union
  <2>5. Cardinality(held) = Cardinality(m_OpenList) + Cardinality(m_ClosedList) + 1
    <3>1. Cardinality((m_OpenList \cup m_ClosedList) \cap {m_Goal}) = 0
      BY <1>3, FS_EmptySet
    <3>2. held = (m_OpenList \cup m_ClosedList) \cup {m_Goal}
      BY <1>3
    <3> QED
      BY <2>1, <2>2, <2>3, <2>4, <3>1, <3>2
  <2> QED
    BY <1>2, <2>1, <2>3, <2>5 DEF IInv, Typed
<1>6. Typed'
  BY <1>2, <1>4, <1>5, FS_EmptySet DEF IInv, Typed
<1>7. Phased'
  BY <1>1, <1>2, <1>4 DEF Phased
<1>8. FailureMeansUnreachable'
  <2> SUFFICES ASSUME excuses = {}
               PROVE  world.goal.at \notin Reachable'
    BY <1>2 DEF FailureMeansUnreachable
  <2>1. m_OpenList = {}
    BY <1>1, <1>2 DEF IInv, Covered
  <2>2. world.goal.at \notin Reachable
    BY <1>1, <2>1, Exhaustive
  <2>3. Reachable' = Reachable
    BY <1>2, SameReachable
  <2> QED
    BY <2>2, <2>3
<1>9. /\ Owned' /\ Rooted' /\ OneNodePerCell' /\ ParentsLeadToStart' /\ StepsAreMoves'
      /\ Generated' /\ Covered' /\ Solved' /\ SolutionIsPath'
  BY <1>2 DEF Owned, Rooted, OneNodePerCell, ParentsLeadToStart, StepsAreMoves,
     Generated, Covered, Solved, SolutionIsPath
<1> QED
  BY <1>6, <1>7, <1>8, <1>9 DEF IInv

\* A shot only asks for a cancellation.
LEMMA ShotStep ==
  ASSUME IInv, TryRSCurve
  PROVE  IInv'
<1>1. /\ pc = "shot" /\ m_State \in {"SEARCHING", "SUCCEEDED"}
      /\ n = NoNode /\ m_Successors = << >> /\ pending = << >>
      /\ pc' = IF m_State = "SEARCHING" THEN "step" ELSE "over"
      /\ \/ UNCHANGED <<m_CancelRequest, excuses>>
         \/ excuses' = excuses \cup {"cancelled"}
      /\ UNCHANGED <<pool, node, lists, m_Successors, m_Start, m_Goal, m_State, n,
                     pending, world>>
  BY DEF IInv, Phased, TryRSCurve, Shoot
<1>2. Typed'
  BY <1>1 DEF IInv, Typed, pool, lists
<1>3. Phased'
  BY <1>1 DEF IInv, Phased, pool, lists
<1>4. Listed' = Listed
  BY <1>1 DEF Listed, lists
<1>5. Owned' /\ Rooted' /\ OneNodePerCell' /\ ParentsLeadToStart' /\ StepsAreMoves'
  BY <1>1, <1>4 DEF IInv, Owned, Rooted, OneNodePerCell, ParentsLeadToStart,
     StepsAreMoves, pool, lists, at, Leads, InSeq, Distinct
<1>6. Generated'
  BY <1>1 DEF Generated
<1>7. Covered'
  <2> SUFFICES ASSUME m_State = "SEARCHING"
               PROVE  Covered'
    BY <1>1 DEF Covered
  <2>1. Seen' = Seen /\ \A x \in Nodes : at(x)' = at(x)
    BY <1>1, <1>4 DEF Seen, at
  <2>2. \A c, d \in Cells : Leads(c, d)' <=> Leads(c, d)
    BY <1>1 DEF Leads, InSeq
  <2>3. m_CancelRequest' => excuses' # {}
    BY <1>1 DEF IInv, Covered
  <2>4. pc' # "generate"
    BY <1>1
  <2>5. ASSUME excuses' = {}, NEW x \in m_ClosedList', NEW d \in Cells, Leads(at(x), d)'
        PROVE  d \in Seen'
    <3>1. excuses = {} /\ x \in m_ClosedList /\ x \in Nodes
      BY <1>1, <2>5 DEF lists, IInv, Typed
    <3>2. at(x) \in Cells
      BY <3>1, NodeType DEF IInv
    <3>3. Leads(at(x), d)
      BY <1>1, <2>5, <3>2 DEF Leads, InSeq, at
    <3> QED
      BY <2>1, <3>1, <3>3 DEF IInv, Covered
  <2> QED
    BY <2>3, <2>4, <2>5 DEF Covered
<1>8. Solved' /\ SolutionIsPath'
  BY <1>1 DEF IInv, Solved, SolutionIsPath, pool, Leads, InSeq, at
<1>9. FailureMeansUnreachable'
  BY <1>1 DEF FailureMeansUnreachable
<1> QED
  BY <1>2, <1>3, <1>5, <1>6, <1>7, <1>8, <1>9 DEF IInv

\* The nodes that are left are the ones FreeSolutionNodes visits.
LEMMA SolutionVisited ==
  ASSUME IInv, pc = "over", m_State = "SUCCEEDED"
  PROVE  SolutionNodes = held
<1>1. /\ {m_Start, m_Goal} \subseteq held /\ held \subseteq Nodes
      /\ node[m_Goal].child = NoNode /\ m_Start # m_Goal
      /\ node[m_Start].child = NoNode <=> world.start.at = world.goal.at
  BY DEF IInv, SolutionIsPath, Solved, Typed
<1>2. CASE world.start.at = world.goal.at
  <2>1. held = {m_Start, m_Goal}
    BY <1>2 DEF IInv, SolutionIsPath
  <2> QED
    BY <1>1, <1>2, <2>1 DEF SolutionNodes
<1>3. CASE world.start.at # world.goal.at
  <2> DEFINE link == [y \in Nodes |-> IF y = m_Goal THEN NoNode ELSE node[y].child]
             D == Followed(link, {m_Start})
  <2>1. SolutionNodes = D
    BY <1>1, <1>3 DEF SolutionNodes
  <2>2. link \in [Nodes -> Nodes \cup {NoNode}]
    BY NodeType DEF IInv
  <2>3. /\ \A x \in held \ {m_Goal} :
             node[x].child \in held /\ node[x].g < node[node[x].child].g
        /\ \A x \in held \ {m_Start} :
             node[x].parent \in held /\ node[node[x].parent].child = x
    BY <1>3 DEF IInv, SolutionIsPath
  <2>4. D \subseteq held
    <3>1. \A y \in held \cap Nodes : link[y] \in held \cup {NoNode}
      BY <1>1, <2>3
    <3>2. {m_Start} \subseteq held \cup {NoNode} /\ {m_Start} \subseteq Nodes \cup {NoNode}
      BY <1>1
    <3> HIDE DEF link
    <3> QED
      BY <2>2, <3>1, <3>2, PoolSize, FollowedWithin
  <2>5. /\ m_Start \in D
        /\ \A y \in D : link[y] \in D \cup {NoNode}
    <3>1. {m_Start} \subseteq Nodes \cup {NoNode} /\ {m_Start} # {} /\ m_Start # NoNode
      BY <1>1, PoolSize
    <3> HIDE DEF link
    <3> QED
      BY <2>2, <3>1, PoolSize, FollowedClosed
  <2>6. held \subseteq D
    <3> SUFFICES ASSUME held \ D # {}
                 PROVE  FALSE
      OBVIOUS
    <3> HIDE DEF D
    <3> DEFINE G == {node[x].g : x \in held \ D}
    <3>1. G \subseteq Nat /\ G # {}
      BY <1>1, NodeType DEF IInv
    <3>2. PICK least \in G : \A k \in G : least <= k
      <4> HIDE DEF G
      <4> QED
        BY <3>1, Least
    <3>3. PICK h \in held \ D : \A x \in held \ D : node[h].g <= node[x].g
      BY <3>2
    <3>4. h # m_Start /\ node[h].parent \in held /\ node[node[h].parent].child = h
      BY <2>3, <2>5, <3>3
    <3>5. node[h].parent # m_Goal
      BY <1>1, <3>3, <3>4, PoolSize
    <3>6. node[node[h].parent].g < node[h].g
      BY <2>3, <3>4, <3>5
    <3>7. node[h].parent \in D
      <4>1. node[node[h].parent].g \in Nat /\ node[h].g \in Nat
        BY <1>1, <3>3, <3>4, NodeType DEF IInv
      <4> QED
        BY <3>3, <3>4, <3>6, <4>1
    <3>8. link[node[h].parent] = h
      BY <1>1, <3>4, <3>5
    <3>9. h \in D \cup {NoNode} /\ h \in Nodes
      BY <1>1, <2>5, <3>3, <3>7, <3>8
    <3> QED
      BY <3>3, <3>9, PoolSize
  <2> QED
    BY <2>1, <2>4, <2>6
<1> QED
  BY <1>2, <1>3

\* The nodes of a solution are freed.
LEMMA FreeSolutionStep ==
  ASSUME IInv, FreeSolutionNodes
  PROVE  IInv'
<1>1. /\ pc = "over" /\ m_State \in {"SUCCEEDED", "FAILED"}
      /\ n = NoNode /\ m_Successors = << >> /\ pending = << >>
      /\ m_OpenList = {} /\ m_ClosedList = {}
      /\ pc' = "idle" /\ node' = Forgotten /\ world' = AnyWorld /\ excuses' = {}
      /\ m_Start' = NoNode /\ m_Goal' = NoNode
      /\ UNCHANGED <<lists, m_Successors, m_State, n, pending>>
  BY DEF IInv, Phased, FreeSolutionNodes
<1>2. held' = {} /\ m_AllocateNodeCount' = Cardinality(held')
  <2>1. CASE m_State = "SUCCEEDED"
    <3>1. Freeing(held)
      BY <1>1, <2>1, SolutionVisited DEF FreeSolutionNodes
    <3> QED
      BY <3>1, Freed DEF Freeing, IInv
  <2>2. CASE m_State = "FAILED"
    BY <1>1, <2>2 DEF IInv, Phased, Typed, FreeSolutionNodes, pool
  <2> QED
    BY <1>1, <2>1, <2>2
<1>3. Typed'
  BY <1>1, <1>2, ForgottenType DEF IInv, Typed, lists
<1>4. Phased'
  BY <1>1, <1>2 DEF Phased, lists
<1> QED
  BY <1>1, <1>3, <1>4 DEF IInv, Owned, Rooted, OneNodePerCell, ParentsLeadToStart,
     StepsAreMoves, Generated, Covered, Solved, SolutionIsPath, FailureMeansUnreachable

-----------------------------------------------------------------------------
(* The goal is reached.                                                    *)

\* The parents of a node, up to the start: cheaper and cheaper, and one below
\* every one of them.
LEMMA Ancestry ==
  ASSUME IInv, m_State = "SEARCHING", NEW x \in Listed
  PROVE  /\ AncestorsOf(x) \subseteq Listed
         /\ x = m_Start => AncestorsOf(x) = {}
         /\ x # m_Start => m_Start \in AncestorsOf(x)
         /\ \A y \in AncestorsOf(x) : node[y].g < node[x].g
         /\ \A c \in AncestorsOf(x) \cup {x} :
              node[c].parent \in AncestorsOf(x) \cup {NoNode}
         /\ \A y \in AncestorsOf(x) : \E c \in AncestorsOf(x) \cup {x} : node[c].parent = y
<1> DEFINE link == [y \in Nodes |-> node[y].parent]
           A == AncestorsOf(x)
<1>1. link \in [Nodes -> Nodes \cup {NoNode}]
  BY NodeType DEF IInv
<1>2. Listed \subseteq Nodes /\ x \in Nodes /\ NoNode \notin Nodes
  BY PoolSize DEF IInv, Typed, Listed
<1>3. \A y \in Listed :
        /\ node[y].g \in Nat
        /\ y = m_Start => node[y].parent = NoNode
        /\ y # m_Start => /\ node[y].parent \in Listed
                          /\ node[node[y].parent].g < node[y].g
  BY <1>2, NodeType DEF IInv, ParentsLeadToStart, Listed
<1>4. /\ A = Followed(link, {node[x].parent})
      /\ {node[x].parent} \subseteq Nodes \cup {NoNode}
      /\ {node[x].parent} # {}
  BY <1>2, NodeType DEF IInv, AncestorsOf
<1>5. A \subseteq {y \in Listed : node[y].g < node[x].g}
  <2> DEFINE T == {y \in Listed : node[y].g < node[x].g}
  <2>1. {node[x].parent} \subseteq T \cup {NoNode}
    BY <1>3
  <2>2. \A y \in T \cap Nodes : link[y] \in T \cup {NoNode}
    <3> TAKE y \in T \cap Nodes
    <3>1. CASE y = m_Start
      BY <1>3, <3>1
    <3>2. CASE y # m_Start
      <4>1. /\ node[y].parent \in Listed /\ node[node[y].parent].g < node[y].g
            /\ node[y].g < node[x].g
        BY <1>3, <3>2
      <4>2. node[node[y].parent].g \in Nat /\ node[y].g \in Nat /\ node[x].g \in Nat
        BY <1>3, <4>1
      <4> QED
        BY <4>1, <4>2
    <3> QED
      BY <3>1, <3>2
  <2> HIDE DEF T, link
  <2>3. Followed(link, {node[x].parent}) \subseteq T \cap Nodes
    BY <1>1, <1>4, <2>1, <2>2, PoolSize, FollowedWithin
  <2> QED
    BY <1>4, <2>3 DEF T
<1>6. /\ {node[x].parent} \ {NoNode} \subseteq A
      /\ \A y \in A : link[y] \in A \cup {NoNode}
  <2> HIDE DEF link
  <2> QED
    BY <1>1, <1>4, PoolSize, FollowedClosed
<1>7. \A c \in A \cup {x} : node[c].parent \in A \cup {NoNode}
  BY <1>2, <1>5, <1>6
<1>8. ASSUME x = m_Start
      PROVE  A = {}
  <2>1. {node[x].parent} \subseteq {} \cup {NoNode}
    BY <1>3, <1>8
  <2>2. \A y \in {} \cap Nodes : link[y] \in {} \cup {NoNode}
    OBVIOUS
  <2> HIDE DEF link
  <2>3. Followed(link, {node[x].parent}) \subseteq {} \cap Nodes
    BY <1>1, <1>4, <2>1, <2>2, PoolSize, FollowedWithin
  <2> QED
    BY <1>4, <2>3
<1>9. ASSUME x # m_Start
      PROVE  m_Start \in A
  <2> HIDE DEF A
  <2> DEFINE G == {node[y].g : y \in A}
  <2>1. node[x].parent \in A
    BY <1>2, <1>3, <1>6, <1>9
  <2>2. G \subseteq Nat /\ G # {}
    BY <1>3, <1>5, <2>1
  <2>3. PICK least \in G : \A k \in G : least <= k
    <3> HIDE DEF G
    <3> QED
      BY <2>2, Least
  <2>4. PICK y \in A : \A z \in A : node[y].g <= node[z].g
    BY <2>3
  <2>5. ASSUME y # m_Start
        PROVE  FALSE
    <3>1. y \in Listed /\ node[y].parent \in Listed
            /\ node[node[y].parent].g < node[y].g
      BY <1>3, <1>5, <2>5
    <3>2. node[y].parent \in A
      BY <1>2, <1>7, <3>1
    <3>3. node[y].g <= node[node[y].parent].g
      BY <2>4, <3>2
    <3>4. node[y].g \in Nat /\ node[node[y].parent].g \in Nat
      BY <1>3, <3>1
    <3> QED
      BY <3>1, <3>3, <3>4
  <2> QED
    BY <2>5
<1>10. \A y \in A : \E c \in A \cup {x} : node[c].parent = y
  <2> DEFINE T == {node[c].parent : c \in A \cup {x}}
  <2>1. {node[x].parent} \subseteq T \cup {NoNode}
    OBVIOUS
  <2>2. \A y \in T \cap Nodes : link[y] \in T \cup {NoNode}
    <3> TAKE y \in T \cap Nodes
    <3>1. y \in A
      BY <1>2, <1>7
    <3> QED
      BY <3>1
  <2>3. A \subseteq T
    <3> HIDE DEF T, link
    <3>1. Followed(link, {node[x].parent}) \subseteq T \cap Nodes
      BY <1>1, <1>4, <2>1, <2>2, PoolSize, FollowedWithin
    <3> QED
      BY <1>4, <3>1
  <2> QED
    BY <2>3
<1> QED
  BY <1>5, <1>7, <1>8, <1>9, <1>10

\* There are as many nodes below as above, so one parent has one node below it.
LEMMA OneBelow ==
  ASSUME IInv, m_State = "SEARCHING", NEW x \in Listed
  PROVE  \A c, d \in AncestorsOf(x) \cup {x} :
           node[c].parent = node[d].parent /\ node[c].parent # NoNode => c = d
<1> DEFINE A == AncestorsOf(x)
           S == (A \cup {x}) \ {m_Start}
           up == [c \in S |-> node[c].parent]
<1>1. /\ A \subseteq Nodes /\ x \in Nodes /\ x \notin A
      /\ \A c \in A \cup {x} : node[c].parent \in A \cup {NoNode}
      /\ \A y \in A : \E c \in A \cup {x} : node[c].parent = y
      /\ m_Start \in A \cup {x}
  <2>1. Listed \subseteq Nodes
    BY DEF IInv, Typed, Listed
  <2>2. node[x].g \in Nat
    BY <2>1, NodeType DEF IInv
  <2> QED
    BY <2>1, <2>2, Ancestry
<1>2. \A c \in A \cup {x} : c = m_Start <=> node[c].parent = NoNode
  BY Ancestry, PoolSize DEF IInv, ParentsLeadToStart, Listed
<1>3. up \in [S -> A]
  BY <1>1, <1>2
<1>4. \A y \in A : \E c \in S : up[c] = y
  BY <1>1, <1>2, PoolSize
<1>5. up \in Surjection(S, A)
  <2> HIDE DEF up, S, A
  <2> QED
    BY <1>3, <1>4, Fun_IsSurj
<1>6. IsFiniteSet(A) /\ IsFiniteSet(S) /\ Cardinality(S) = Cardinality(A)
  <2>1. IsFiniteSet(A) /\ Cardinality(A) \in Nat
    BY <1>1, HeldFinite DEF IInv
  <2>2. IsFiniteSet(A \cup {x}) /\ Cardinality(A \cup {x}) = Cardinality(A) + 1
    <3>1. IsFiniteSet(A \cup {x}) /\ Cardinality(A \cup {x})
            = IF x \in A THEN Cardinality(A) ELSE Cardinality(A) + 1
      <4> HIDE DEF A
      <4> QED
        BY <2>1, FS_AddElement, Zenon
    <3> QED
      BY <1>1, <3>1
  <2>3. IsFiniteSet(S) /\ Cardinality(S)
          = IF m_Start \in A \cup {x} THEN Cardinality(A \cup {x}) - 1
                                       ELSE Cardinality(A \cup {x})
    <3> HIDE DEF A
    <3> QED
      BY <2>2, FS_RemoveElement, Zenon
  <2> QED
    BY <1>1, <2>1, <2>2, <2>3
<1>7. up \in Injection(S, A)
  <2> HIDE DEF up, S, A
  <2> QED
    BY <1>5, <1>6, FS_SurjSameCardinalityImpliesInj
<1>8. \A c, d \in S : up[c] = up[d] => c = d
  <2> HIDE DEF up, S, A
  <2> QED
    BY <1>7, Fun_InjectionProperties
<1> QED
  BY <1>2, <1>8

\* What the goal's node and the links to the children become.
LEMMA GoalReached ==
  ASSUME IInv, NEW x \in m_OpenList, ReachGoal(x), x # m_Start
  PROVE  LET A == AncestorsOf(x)
             up(c) == IF c = x THEN m_Goal ELSE c
         IN  /\ held' = A \cup {m_Goal}
             /\ node' \in [Nodes -> NodeContents]
             /\ m_Goal \notin A \cup {x}
             /\ \A c \in A \cup {x} :
                  /\ up(c) \in held'
                  /\ node'[up(c)].user.at = at(c)
                  /\ node'[up(c)].parent = node[c].parent
                  /\ node'[up(c)].g = node[c].g
             /\ \A c \in A \cup {x} :
                  node[c].parent # NoNode => node'[node[c].parent].child = up(c)
             /\ node'[m_Goal].child = NoNode
             /\ m_AllocateNodeCount' = Cardinality(held')
<1> DEFINE A == AncestorsOf(x)
           up(c) == IF c = x THEN m_Goal ELSE c
           goal == [node[m_Goal] EXCEPT !.parent = node[x].parent, !.g = node[x].g]
           below(y) == CHOOSE c \in Path(x) \cup {x} : node[c].parent = y
           linked == [y \in Nodes |->
                        IF y = m_Goal THEN goal
                        ELSE IF y \notin Path(x) THEN node[y]
                        ELSE [node[y] EXCEPT !.child =
                                IF below(y) = x THEN m_Goal ELSE below(y)]]
           unused == Unneeded((m_OpenList \ {x}) \cup m_ClosedList, linked)
           all == IF at(x) = at(m_Start) THEN unused ELSE unused \cup {x}
<1>1. /\ pc = "step" /\ m_State = "SEARCHING" /\ n = NoNode /\ m_Successors = << >>
      /\ at(x) = at(m_Goal)
      /\ node' = linked /\ Freeing(all)
      /\ Listed = m_OpenList \cup m_ClosedList /\ x \in Listed
  BY DEF ReachGoal, Pop, IInv, Phased, Listed
<1>2. /\ Listed \subseteq Nodes /\ x \in Nodes /\ m_Goal \in Nodes \cup {NoNode}
      /\ held = Listed \cup {m_Goal} /\ m_Goal \notin Listed /\ held \subseteq Nodes
      /\ node \in [Nodes -> NodeContents]
      /\ \A y \in held : node[y].child = NoNode
      /\ m_OpenList \cap m_ClosedList = {}
  <2>1. InSeq(m_Successors) = {}
    BY <1>1 DEF InSeq
  <2> QED
    BY <1>1, <2>1 DEF IInv, Typed, Listed, Owned, Rooted
<1>3. m_Goal \in Nodes
  BY <1>2
<1>4. /\ A \subseteq Listed /\ m_Start \in A
      /\ \A c \in A \cup {x} : node[c].parent \in A \cup {NoNode}
      /\ \A y \in A : \E c \in A \cup {x} : node[c].parent = y
      /\ \A y \in A : node[y].g < node[x].g
  BY <1>1, Ancestry
<1>5. x \notin A
  <2>1. node[x].g \in Nat
    BY <1>2, NodeType DEF IInv
  <2> QED
    BY <1>4, <2>1
<1>6. at(x) # at(m_Start) /\ Path(x) = A
  <2>1. m_Start \in Listed
    BY <1>4
  <2> QED
    BY <1>1, <2>1 DEF IInv, OneNodePerCell, Listed, Path
<1>7. \A c \in A \cup {x} : node[c].parent # NoNode => below(node[c].parent) = c
  <2> TAKE c \in A \cup {x}
  <2> SUFFICES ASSUME node[c].parent # NoNode
               PROVE  below(node[c].parent) = c
    OBVIOUS
  <2>1. \A d \in A \cup {x} : node[c].parent = node[d].parent => c = d
    BY <1>1, OneBelow
  <2> QED
    BY <1>6, <2>1
<1>8. \A y \in A : below(y) \in A \cup {x} /\ node[below(y)].parent = y
  <2> TAKE y \in A
  <2>1. PICK c \in A \cup {x} : node[c].parent = y
    BY <1>4
  <2>2. y # NoNode
    BY <1>2, <1>4, PoolSize
  <2> QED
    BY <1>7, <2>1, <2>2
<1> HIDE DEF A, below
<1>9. goal \in NodeContents /\ goal.child = NoNode /\ goal.user = node[m_Goal].user
        /\ goal.parent = node[x].parent /\ goal.g = node[x].g
  <2>1. node[m_Goal] \in NodeContents /\ node[x] \in NodeContents
    BY <1>2, <1>3
  <2>2. node[m_Goal].child = NoNode
    BY <1>2
  <2> QED
    BY <2>1, <2>2 DEF NodeContents
<1> HIDE DEF goal
<1>10. \A y \in A : /\ linked[y] \in NodeContents
                    /\ linked[y].user = node[y].user
                    /\ linked[y].parent = node[y].parent
                    /\ linked[y].g = node[y].g
                    /\ linked[y].child = up(below(y))
                    /\ linked[y].child # NoNode
  <2> TAKE y \in A
  <2>1. y \in Nodes /\ y # m_Goal /\ y \in Path(x) /\ node[y] \in NodeContents
    BY <1>2, <1>4, <1>6
  <2>2. linked[y] = [node[y] EXCEPT !.child = up(below(y))]
    BY <2>1
  <2>3. up(below(y)) \in Nodes
    BY <1>2, <1>3, <1>4, <1>8
  <2> QED
    BY <2>1, <2>2, <2>3, PoolSize DEF NodeContents
<1>11. linked[m_Goal] = goal
  BY <1>3
<1>12. \A y \in Nodes \ (A \cup {m_Goal}) : linked[y] = node[y]
  BY <1>6
<1>13. linked \in [Nodes -> NodeContents]
  <2>1. \A y \in Nodes : linked[y] \in NodeContents
    BY <1>2, <1>9, <1>10, <1>11, <1>12
  <2> QED
    BY <2>1
<1> HIDE DEF linked
<1>14. all = Listed \ A
  <2>1. unused = (Listed \ {x}) \ A
    <3>1. (m_OpenList \ {x}) \cup m_ClosedList = Listed \ {x}
      BY <1>1, <1>2
    <3>2. \A y \in Listed \ {x} : linked[y].child = NoNode <=> y \notin A
      BY <1>2, <1>10, <1>12
    <3> QED
      BY <3>1, <3>2 DEF Unneeded
  <2> QED
    BY <1>1, <1>5, <1>6, <2>1
<1>15. held' = A \cup {m_Goal} /\ m_AllocateNodeCount' = Cardinality(held')
  <2>1. all \subseteq held
    BY <1>2, <1>14
  <2>2. held' = held \ all
    BY <1>1 DEF Freeing
  <2>3. m_AllocateNodeCount' = Cardinality(held')
    <3> HIDE DEF all
    <3> QED
      BY <1>1, <2>1, Freed DEF IInv
  <2> HIDE DEF all
  <2> QED
    BY <1>2, <1>4, <1>14, <2>2, <2>3
<1>16. \A c \in A \cup {x} :
         /\ up(c) \in held'
         /\ node'[up(c)].user.at = at(c)
         /\ node'[up(c)].parent = node[c].parent
         /\ node'[up(c)].g = node[c].g
  <2> TAKE c \in A \cup {x}
  <2>1. CASE c = x
    BY <1>1, <1>9, <1>11, <1>15, <2>1 DEF at
  <2>2. CASE c # x
    BY <1>1, <1>10, <1>15, <2>2 DEF at
  <2> QED
    BY <2>1, <2>2
<1>17. \A c \in A \cup {x} :
         node[c].parent # NoNode => node'[node[c].parent].child = up(c)
  <2> TAKE c \in A \cup {x}
  <2> SUFFICES ASSUME node[c].parent # NoNode
               PROVE  node'[node[c].parent].child = up(c)
    OBVIOUS
  <2>1. node[c].parent \in A
    BY <1>4
  <2> QED
    BY <1>1, <1>7, <1>10, <2>1
<1>18. m_Goal \notin A \cup {x}
  BY <1>1, <1>2, <1>4
<1> QED
  BY <1>1, <1>9, <1>11, <1>13, <1>15, <1>16, <1>17, <1>18 DEF A

\* The start is the goal: nothing else is left.
LEMMA StartReached ==
  ASSUME IInv, ReachGoal(m_Start), m_Start \in m_OpenList
  PROVE  /\ held' = {m_Start, m_Goal} /\ m_AllocateNodeCount' = Cardinality(held')
         /\ m_Start # m_Goal
         /\ node' \in [Nodes -> NodeContents]
         /\ node'[m_Start].child = NoNode /\ node'[m_Goal].child = NoNode
         /\ node'[m_Goal].user = node[m_Goal].user
         /\ node'[m_Goal].g = node[m_Start].g
<1> DEFINE goal == [node[m_Goal] EXCEPT !.parent = node[m_Start].parent,
                                        !.g = node[m_Start].g]
           linked == [y \in Nodes |-> IF y = m_Goal THEN goal ELSE node[y]]
           unused == Unneeded((m_OpenList \ {m_Start}) \cup m_ClosedList, linked)
<1>1. Path(m_Start) = {}
  BY DEF Path
<1>2. /\ pc = "step" /\ m_State = "SEARCHING" /\ n = NoNode /\ m_Successors = << >>
      /\ Listed = m_OpenList \cup m_ClosedList
  BY DEF ReachGoal, Pop, IInv, Phased, Listed
<1>3. node' = linked /\ Freeing(unused)
  <2>1. \A below : linked = [y \in Nodes |->
                      IF y = m_Goal THEN goal
                      ELSE IF y \notin Path(m_Start) THEN node[y]
                      ELSE below[y]]
    BY <1>1
  <2> QED
    BY <1>1 DEF ReachGoal
<1>4. /\ Listed \subseteq Nodes /\ held = Listed \cup {m_Goal} /\ m_Goal \notin Listed
      /\ m_Goal \in Nodes /\ m_Start \in Nodes
      /\ node \in [Nodes -> NodeContents]
      /\ \A y \in held : node[y].child = NoNode
      /\ m_OpenList \cap m_ClosedList = {}
  <2>1. InSeq(m_Successors) = {}
    BY <1>2 DEF InSeq
  <2> QED
    BY <1>2, <2>1 DEF IInv, Typed, Listed, Owned, Rooted
<1>5. /\ goal \in NodeContents /\ goal.child = NoNode /\ goal.user = node[m_Goal].user
      /\ goal.g = node[m_Start].g
  <2>1. /\ node[m_Goal] \in NodeContents /\ node[m_Start] \in NodeContents
        /\ node[m_Goal].child = NoNode
    BY <1>4
  <2> QED
    BY <2>1 DEF NodeContents
<1> HIDE DEF goal
<1>6. /\ linked \in [Nodes -> NodeContents] /\ linked[m_Goal] = goal
      /\ \A y \in Nodes \ {m_Goal} : linked[y] = node[y]
  BY <1>4, <1>5
<1> HIDE DEF linked
<1>7. unused = Listed \ {m_Start}
  <2>1. (m_OpenList \ {m_Start}) \cup m_ClosedList = Listed \ {m_Start}
    BY <1>2, <1>4
  <2>2. \A y \in Listed : linked[y].child = NoNode
    BY <1>4, <1>6
  <2> QED
    BY <2>1, <2>2 DEF Unneeded
<1>8. held' = {m_Start, m_Goal} /\ m_AllocateNodeCount' = Cardinality(held')
  <2>1. unused \subseteq held /\ m_Start \in Listed
    BY <1>2, <1>4, <1>7
  <2>2. held' = held \ unused
    BY <1>3 DEF Freeing
  <2> QED
    BY <1>3, <1>4, <1>7, <2>1, <2>2, Freed DEF IInv
<1> QED
  BY <1>2, <1>3, <1>4, <1>5, <1>6, <1>8

\* The goal is popped: what is kept is the way to it.
LEMMA ReachGoalStep ==
  ASSUME IInv, NEW x \in m_OpenList, ReachGoal(x)
  PROVE  IInv'
<1>1. /\ pc = "step" /\ m_State = "SEARCHING" /\ n = NoNode
      /\ m_Successors = << >> /\ pending = << >>
      /\ m_State' = "SUCCEEDED" /\ pc' = "shot"
      /\ m_OpenList' = {} /\ m_ClosedList' = {} /\ at(x) = at(m_Goal)
      /\ UNCHANGED <<m_Successors, m_Start, m_Goal, m_CancelRequest, n, pending,
                     world, excuses>>
  BY DEF IInv, Phased, ReachGoal, Pop
<1>2. /\ x \in Listed /\ m_Start \in Listed /\ Listed \subseteq Nodes
      /\ Listed \subseteq held /\ m_Goal \in held /\ held \subseteq Nodes
      /\ at(m_Start) = world.start.at /\ at(m_Goal) = world.goal.at
      /\ m_Start # m_Goal
  BY <1>1 DEF IInv, Typed, Listed, Owned, Rooted, at
<1>3. /\ held' \subseteq Nodes /\ m_AllocateNodeCount' = Cardinality(held')
      /\ node' \in [Nodes -> NodeContents]
      /\ Solved' /\ SolutionIsPath'
  <2>1. CASE x = m_Start
    <3>1. ReachGoal(m_Start) /\ m_Start \in m_OpenList
      BY <2>1
    <3>2. /\ held' = {m_Start, m_Goal} /\ m_AllocateNodeCount' = Cardinality(held')
          /\ node' \in [Nodes -> NodeContents]
          /\ node'[m_Start].child = NoNode /\ node'[m_Goal].child = NoNode
          /\ node'[m_Goal].user = node[m_Goal].user
      BY <3>1, StartReached
    <3>3. world.start.at = world.goal.at
      BY <1>1, <1>2, <2>1
    <3>4. Solved'
      BY <1>1, <1>2, <3>2, <3>3 DEF Solved
    <3>5. SolutionIsPath'
      BY <1>1, <1>2, <3>2, <3>3 DEF SolutionIsPath, at
    <3> QED
      BY <1>2, <3>2, <3>4, <3>5
  <2>2. CASE x # m_Start
    <3> DEFINE A == AncestorsOf(x)
               up(c) == IF c = x THEN m_Goal ELSE c
    <3>1. /\ held' = A \cup {m_Goal}
          /\ node' \in [Nodes -> NodeContents]
          /\ m_Goal \notin A \cup {x}
          /\ \A c \in A \cup {x} :
               /\ up(c) \in held'
               /\ node'[up(c)].user.at = at(c)
               /\ node'[up(c)].parent = node[c].parent
               /\ node'[up(c)].g = node[c].g
          /\ \A c \in A \cup {x} :
               node[c].parent # NoNode => node'[node[c].parent].child = up(c)
          /\ node'[m_Goal].child = NoNode
          /\ m_AllocateNodeCount' = Cardinality(held')
      BY <2>2, GoalReached
    <3>2. /\ A \subseteq Listed /\ m_Start \in A /\ x \notin A
          /\ \A c \in A \cup {x} : node[c].parent \in A \cup {NoNode}
          /\ \A y \in A : \E c \in A \cup {x} : node[c].parent = y
      <4>1. node[x].g \in Nat
        BY <1>2, NodeType DEF IInv
      <4> QED
        BY <1>1, <1>2, <2>2, <4>1, Ancestry
    <3>3. \A c \in A \cup {x} : node[c].parent # NoNode =>
            /\ c # m_Start
            /\ node[node[c].parent].g < node[c].g
            /\ Leads(at(node[c].parent), at(c))
      BY <1>1, <1>2, <3>2 DEF IInv, ParentsLeadToStart, StepsAreMoves, Listed
    <3>4. \A c \in A \cup {x} : c # m_Start => node[c].parent \in A
      BY <1>1, <1>2, <3>2 DEF IInv, ParentsLeadToStart, Listed
    <3>5. at(x) # at(m_Start)
      BY <1>1, <1>2, <2>2 DEF IInv, OneNodePerCell, Listed
    <3>6. world.start.at # world.goal.at
      BY <1>1, <1>2, <3>5
    <3> HIDE DEF A
    <3>7. NoNode \notin A /\ m_Start \in A /\ m_Goal \in Nodes /\ m_Goal # NoNode
      BY <1>2, <3>2, PoolSize
    <3>8. \A y \in A : \E c \in A \cup {x} :
            /\ node[c].parent = y /\ node'[y].child = up(c)
            /\ node'[y].child \in held'
      <4> TAKE y \in A
      <4>1. PICK c \in A \cup {x} : node[c].parent = y
        BY <3>2
      <4> QED
        BY <3>1, <3>7, <4>1
    <3>9. Solved'
      <4>1. node'[m_Start].child # NoNode
        BY <1>2, <3>1, <3>2, <3>7, <3>8, PoolSize
      <4> QED
        BY <1>1, <1>2, <3>6, <4>1 DEF Solved
    <3>10. ASSUME NEW y \in held' \ {m_Goal}
           PROVE  /\ node'[y].child \in held'
                  /\ node'[node'[y].child].parent = y
                  /\ node'[y].g < node'[node'[y].child].g
                  /\ Leads(node'[y].user.at, node'[node'[y].child].user.at)
      <4>1. y \in A /\ y # x /\ up(y) = y
        BY <3>1, <3>2
      <4>2. PICK c \in A \cup {x} :
              /\ node[c].parent = y /\ node'[y].child = up(c)
              /\ node'[y].child \in held'
        BY <3>8, <4>1
      <4>3. y # NoNode
        BY <3>7, <4>1
      <4>4. /\ node'[y].user.at = at(y) /\ node'[y].g = node[y].g
            /\ node'[up(c)].parent = y /\ node'[up(c)].user.at = at(c)
            /\ node'[up(c)].g = node[c].g
        BY <3>1, <4>1, <4>2
      <4>5. node[y].g < node[c].g /\ Leads(at(y), at(c))
        BY <3>3, <4>2, <4>3
      <4> HIDE DEF up
      <4> QED
        BY <4>2, <4>4, <4>5
    <3>11. ASSUME NEW y \in held' \ {m_Start}
           PROVE  node'[y].parent \in held' /\ node'[node'[y].parent].child = y
      <4>1. PICK c \in A \cup {x} : y = up(c) /\ c # m_Start
        <5>1. CASE y = m_Goal
          BY <2>2, <5>1
        <5>2. CASE y # m_Goal
          BY <3>1, <3>2, <5>2
        <5> QED
          BY <5>1, <5>2
      <4>2. node[c].parent \in A
        BY <3>4, <4>1
      <4>3. node'[y].parent = node[c].parent
        BY <3>1, <4>1
      <4>4. node'[node[c].parent].child = up(c)
        BY <3>1, <3>7, <4>2
      <4> QED
        BY <3>1, <4>1, <4>2, <4>3, <4>4
    <3>12. node'[m_Goal].user.at = world.goal.at
      BY <1>1, <1>2, <3>1
    <3>13. SolutionIsPath'
      <4>1. /\ m_Start' = m_Start /\ m_Goal' = m_Goal /\ world' = world
        BY <1>1
      <4>2. /\ {m_Start, m_Goal} \subseteq held'
            /\ node'[m_Goal].user.at = world.goal.at /\ node'[m_Goal].child = NoNode
            /\ world.start.at # world.goal.at
        BY <3>1, <3>6, <3>7, <3>12
      <4>3. \A y \in held' \ {m_Goal} :
              Leads(node'[y].user.at, node'[node'[y].child].user.at)
        BY <3>10
      <4> QED
        BY <3>10, <3>11, <4>1, <4>2, <4>3 DEF SolutionIsPath, at, Leads, InSeq
    <3> QED
      BY <1>2, <3>1, <3>2, <3>9, <3>13
  <2> QED
    BY <2>1, <2>2
<1>4. Typed'
  <2>1. << >> \in Seq(Nodes) /\ << >> \in Seq(UserStates)
    BY EmptySeq
  <2> QED
    BY <1>1, <1>3, <2>1 DEF IInv, Typed
<1>5. Phased'
  BY <1>1 DEF Phased
<1>6. /\ Owned' /\ Rooted' /\ OneNodePerCell' /\ ParentsLeadToStart' /\ StepsAreMoves'
      /\ Generated' /\ Covered' /\ FailureMeansUnreachable'
  BY <1>1 DEF Owned, Rooted, OneNodePerCell, ParentsLeadToStart, StepsAreMoves,
     Generated, Covered, FailureMeansUnreachable
<1> QED
  BY <1>3, <1>4, <1>5, <1>6 DEF IInv

-----------------------------------------------------------------------------
(* The successors.                                                         *)

\* What is where while the search goes on.
LEMMA Searching ==
  ASSUME IInv, m_State = "SEARCHING"
  PROVE  /\ Listed \subseteq Nodes /\ Listed \subseteq held /\ held \subseteq Nodes
         /\ m_Start \in Listed /\ m_Start # NoNode
         /\ m_Goal \in Nodes /\ m_Goal \in held /\ m_Goal \notin Listed
         /\ m_OpenList \subseteq Listed /\ m_ClosedList \subseteq Listed
         /\ n # NoNode => n \in Listed
         /\ world \in Worlds
         /\ at(m_Goal) = world.goal.at
<1>1. Listed \subseteq Nodes
  BY DEF IInv, Typed, Listed
<1> QED
  BY <1>1, PoolSize DEF IInv, Typed, Listed, Owned, Rooted, at

\* The tree is the same as long as its nodes are.
LEMMA SameTree ==
  ASSUME IInv, m_State = "SEARCHING", Listed' = Listed,
         UNCHANGED <<m_Start, m_Goal, world>>,
         m_OpenList' \subseteq Nodes, m_ClosedList' \subseteq Nodes,
         \A y \in held : node'[y] = node[y]
  PROVE  /\ OneNodePerCell' /\ ParentsLeadToStart' /\ StepsAreMoves' /\ Seen' = Seen
         /\ node'[m_Start].user = world.start /\ node'[m_Goal].user = world.goal
<1>1. /\ Listed \subseteq held /\ m_Start \in held /\ m_Goal \in held
      /\ Listed \subseteq Nodes /\ NoNode \notin Nodes
  BY Searching, PoolSize
<1>2. \A x \in Listed : node'[x] = node[x]
  BY <1>1
<1>3. \A x \in Listed : x # m_Start => node[x].parent \in Listed
  BY <1>1 DEF IInv, ParentsLeadToStart, Listed
<1>4. OneNodePerCell'
  <2> SUFFICES \A x, y \in Listed : node'[x].user.at = node'[y].user.at => x = y
    BY DEF OneNodePerCell, Listed, at
  <2> QED
    BY <1>2 DEF IInv, OneNodePerCell, Listed, at
<1>5. ParentsLeadToStart'
  <2> SUFFICES \A x \in Listed :
                 IF x = m_Start THEN node'[x].parent = NoNode /\ node'[x].g = 0
                 ELSE /\ node'[x].parent \in Listed
                      /\ node'[node'[x].parent].g < node'[x].g
    BY <1>1 DEF ParentsLeadToStart, Listed
  <2> TAKE x \in Listed
  <2>1. CASE x = m_Start
    BY <1>2, <2>1 DEF IInv, ParentsLeadToStart, Listed
  <2>2. CASE x # m_Start
    BY <1>2, <1>3, <2>2 DEF IInv, ParentsLeadToStart, Listed
  <2> QED
    BY <2>1, <2>2
<1>6. StepsAreMoves'
  <2> SUFFICES \A x \in Listed \ {m_Start} :
                 Leads(node'[node'[x].parent].user.at, node'[x].user.at)
    BY DEF StepsAreMoves, Leads, InSeq, at
  <2> TAKE x \in Listed \ {m_Start}
  <2>1. Leads(at(node[x].parent), at(x))
    BY DEF IInv, StepsAreMoves
  <2> QED
    BY <1>2, <1>3, <2>1 DEF at
<1>7. Seen' = Seen
  BY <1>2 DEF Seen, at
<1> QED
  BY <1>1, <1>4, <1>5, <1>6, <1>7 DEF IInv, Rooted

\* Only a search that goes on is restricted.
LEMMA NotOver ==
  ASSUME m_State' = "SEARCHING"
  PROVE  Solved' /\ SolutionIsPath' /\ FailureMeansUnreachable'
BY DEF Solved, SolutionIsPath, FailureMeansUnreachable

\* A node is taken off the heap.
LEMMA ExpandStep ==
  ASSUME IInv, NEW x \in m_OpenList, Expand(x)
  PROVE  IInv'
<1>1. /\ pc = "step" /\ m_State = "SEARCHING" /\ n = NoNode
      /\ m_Successors = << >> /\ pending = << >>
      /\ ~m_CancelRequest /\ at(x) # at(m_Goal)
      /\ pending' = Moves[at(x)] /\ m_OpenList' = m_OpenList \ {x} /\ n' = x
      /\ m_Successors' = << >> /\ pc' = "generate"
      /\ held' = held /\ m_AllocateNodeCount' = m_AllocateNodeCount
      /\ UNCHANGED <<node, m_ClosedList, m_Start, m_Goal, m_State, m_CancelRequest,
                     world, excuses>>
  BY DEF IInv, Phased, Expand, Pop, pool, search
<1>2. x \in Listed /\ x \in Nodes /\ x \notin m_ClosedList /\ at(x) \in Cells
  BY <1>1, NodeType DEF IInv, Typed, Owned, Listed
<1>3. Listed' = Listed
  BY <1>1, <1>2, PoolSize DEF Listed
<1>4. Typed'
  <2>1. << >> \in Seq(Nodes) /\ Moves[at(x)] \in Seq(UserStates)
    BY <1>2, EmptySeq, SearchAssumption DEF SearchAssumption
  <2> QED
    BY <1>1, <1>2, <2>1 DEF IInv, Typed
<1>5. Phased'
  BY <1>1, <1>2 DEF Phased
<1>6. /\ OneNodePerCell' /\ ParentsLeadToStart' /\ StepsAreMoves' /\ Seen' = Seen
      /\ node'[m_Start].user = world.start /\ node'[m_Goal].user = world.goal
  BY <1>1, <1>3, SameTree DEF IInv, Typed
<1>7. InSeq(m_Successors) = {} /\ InSeq(m_Successors)' = {} /\ Distinct(m_Successors)'
  BY <1>1 DEF InSeq, Distinct
<1>8. Owned'
  BY <1>1, <1>2, <1>3, <1>7 DEF IInv, Owned
<1>9. Rooted'
  <2>1. at(x) # world.goal.at
    BY <1>1, Searching
  <2> QED
    BY <1>1, <1>2, <1>3, <1>6, <2>1 DEF IInv, Rooted, at
<1>10. Generated'
  BY <1>1, <1>7 DEF Generated, at, InSeq
<1>11. Covered'
  <2>1. \A y \in m_ClosedList : \A d \in Cells :
          excuses = {} /\ Leads(at(y), d) => d \in Seen
    BY <1>1 DEF IInv, Covered
  <2>2. \A d \in Cells : Leads(at(x), d) => \E s \in InSeq(Moves[at(x)]) : s.at = d
    BY DEF Leads
  <2>3. \A d \in Cells : Leads(at(x), d) => \E s \in InSeq(pending)' : s.at = d
    BY <1>1, <2>2 DEF InSeq
  <2>4. /\ \A y : at(y)' = at(y) /\ n' = x
        /\ \A c, d : Leads(c, d)' <=> Leads(c, d)
    BY <1>1 DEF at, Leads, InSeq
  <2> QED
    BY <1>1, <1>6, <2>1, <2>3, <2>4 DEF Covered, Leads, at
<1> QED
  BY <1>1, <1>4, <1>5, <1>6, <1>8, <1>9, <1>10, <1>11, NotOver DEF IInv

\* All successors have been looked at.
LEMMA CloseStep ==
  ASSUME IInv, Close
  PROVE  IInv'
<1>1. /\ pc = "generate" /\ m_State = "SEARCHING" /\ n \in Nodes
      /\ m_Successors = << >> /\ pending = << >>
      /\ m_ClosedList' = m_ClosedList \cup {n} /\ n' = NoNode /\ pc' = "shot"
      /\ held' = held /\ m_AllocateNodeCount' = m_AllocateNodeCount
      /\ UNCHANGED <<node, m_OpenList, m_Successors, pending, m_Start, m_Goal,
                     m_State, m_CancelRequest, world, excuses>>
  BY DEF IInv, Phased, Close, pool, search
<1>2. Listed' = Listed
  BY <1>1, PoolSize DEF Listed
<1>3. Typed'
  BY <1>1 DEF IInv, Typed
<1>4. Phased'
  BY <1>1 DEF Phased
<1>5. /\ OneNodePerCell' /\ ParentsLeadToStart' /\ StepsAreMoves' /\ Seen' = Seen
      /\ node'[m_Start].user = world.start /\ node'[m_Goal].user = world.goal
  BY <1>1, <1>2, <1>3, SameTree DEF Typed
<1>6. Owned'
  <2>1. n' \notin m_OpenList' \cup m_ClosedList'
    BY <1>1, <1>3, PoolSize DEF Typed
  <2> QED
    BY <1>1, <1>2, <2>1 DEF IInv, Owned, Distinct, InSeq
<1>7. Rooted'
  BY <1>1, <1>2, <1>5, PoolSize DEF IInv, Rooted, at
<1>8. Generated'
  BY <1>1 DEF Generated
<1>9. Covered'
  <2>1. InSeq(m_Successors) = {} /\ InSeq(pending) = {}
    BY <1>1 DEF InSeq
  <2>2. \A y \in m_ClosedList' : \A d \in Cells :
          excuses = {} /\ Leads(at(y), d) => d \in Seen
    BY <1>1, <2>1 DEF IInv, Covered
  <2>3. m_CancelRequest => excuses # {}
    BY <1>1 DEF IInv, Covered
  <2> QED
    BY <1>1, <1>5, <2>2, <2>3 DEF Covered, Leads, InSeq, at
<1> QED
  BY <1>1, <1>3, <1>4, <1>5, <1>6, <1>7, <1>8, <1>9, NotOver DEF IInv

\* One movement is tried: the way back leads to a cell on the lists, and without a
\* node for it the search is excused.
LEMMA AddSuccessorStep ==
  ASSUME IInv, AddSuccessor
  PROVE  IInv'
<1>. PICK s : s = Head(pending)
  OBVIOUS
<1>1. /\ pc = "generate" /\ m_State = "SEARCHING" /\ n \in Nodes /\ n # NoNode
      /\ pending # << >> /\ pending' = Tail(pending)
      /\ UNCHANGED <<m_OpenList, m_ClosedList, n, m_Start, m_Goal, m_State,
                     m_CancelRequest, world, pc>>
  BY PoolSize DEF IInv, Phased, AddSuccessor, lists, search
<1>2. Listed' = Listed
  BY <1>1 DEF Listed
<1>3. /\ s \in UserStates /\ pending' \in Seq(UserStates)
      /\ InSeq(pending) = {s} \cup InSeq(pending')
  BY <1>1, TailOf DEF IInv, Typed
<1>4. /\ n \in Listed /\ n \in held /\ m_Goal \in held
      /\ s \in InSeq(Moves[at(n)]) /\ s.at \in Cells
  BY <1>1, <1>3, Searching DEF IInv, Generated, UserStates
<1>5. ASSUME UNCHANGED <<pool, node, m_Successors>>
      PROVE  /\ Typed' /\ Phased' /\ Owned' /\ Rooted' /\ OneNodePerCell'
             /\ ParentsLeadToStart' /\ StepsAreMoves' /\ Generated' /\ Seen' = Seen
  <2>1. Typed' /\ Phased'
    BY <1>1, <1>3, <1>5 DEF IInv, Typed, Phased, pool
  <2>2. /\ OneNodePerCell' /\ ParentsLeadToStart' /\ StepsAreMoves' /\ Seen' = Seen
        /\ node'[m_Start].user = world.start /\ node'[m_Goal].user = world.goal
    BY <1>1, <1>2, <1>5, <2>1, SameTree DEF Typed
  <2>3. Owned'
    BY <1>1, <1>2, <1>5 DEF IInv, Owned, pool, Distinct, InSeq
  <2>4. Rooted'
    BY <1>1, <1>2, <1>5, <2>2 DEF IInv, Rooted, pool, at
  <2>5. Generated'
    <3>1. /\ InSeq(pending)' \subseteq InSeq(pending)
          /\ InSeq(pending) \subseteq InSeq(Moves[at(n)])
      BY <1>1, <1>3 DEF IInv, Generated, InSeq
    <3>2. \A y \in InSeq(m_Successors) : Leads(at(n), at(y))
      BY <1>1 DEF IInv, Generated
    <3>3. /\ \A y : at(y)' = at(y)
          /\ \A c, d : Leads(c, d)' <=> Leads(c, d)
          /\ InSeq(m_Successors)' = InSeq(m_Successors) /\ at(n)' = at(n)
      BY <1>1, <1>5 DEF at, InSeq, Leads
    <3>4. \A y \in InSeq(m_Successors)' : Leads(at(n), at(y)')
      BY <3>2, <3>3
    <3>5. InSeq(pending)' \subseteq InSeq(Moves[at(n)])
      BY <3>1
    <3>6. (InSeq(pending) \subseteq InSeq(Moves[at(n)]))'
      BY <3>3, <3>5 DEF InSeq, at
    <3>7. (\A y \in InSeq(m_Successors) : Leads(at(n), at(y)))'
      BY <1>1, <1>5, <3>2 DEF Leads, InSeq, at
    <3> QED
      BY <3>6, <3>7 DEF Generated
  <2> QED
    BY <2>1, <2>2, <2>3, <2>4, <2>5
<1>6. ASSUME ~Kept(s), UNCHANGED <<pool, node, m_Successors, excuses>>
      PROVE  IInv'
  <2>1. /\ Typed' /\ Phased' /\ Owned' /\ Rooted' /\ OneNodePerCell'
        /\ ParentsLeadToStart' /\ StepsAreMoves' /\ Generated' /\ Seen' = Seen
    BY <1>5, <1>6
  <2>2. ASSUME excuses = {}, NEW d \in Cells, Leads(at(n), d)
        PROVE  \/ d \in Seen
               \/ \E y \in InSeq(m_Successors) : at(y) = d
               \/ \E t \in InSeq(pending') : t.at = d
    <3>1. ASSUME d = s.at
          PROVE  d \in Seen
      <4>1. d \notin world.blocked
        BY <2>2 DEF Leads
      <4>2. node[n].parent # NoNode /\ d = at(node[n].parent)
        BY <3>1, <4>1, <1>6 DEF Kept
      <4>3. node[n].parent \in Listed
        BY <1>1, <1>4, <4>2 DEF IInv, ParentsLeadToStart, Listed
      <4> QED
        BY <4>2, <4>3 DEF Seen
    <3>2. \/ d \in Seen
          \/ \E y \in InSeq(m_Successors) : at(y) = d
          \/ \E t \in InSeq(pending) : t.at = d
      BY <1>1, <2>2 DEF IInv, Covered
    <3> QED
      BY <1>3, <3>1, <3>2
  <2>3. Covered'
    <3>1. /\ m_CancelRequest => excuses # {}
          /\ \A y \in m_ClosedList : \A d \in Cells :
               excuses = {} /\ Leads(at(y), d) => d \in Seen
      BY <1>1 DEF IInv, Covered
    <3>2. /\ \A y : at(y)' = at(y) /\ n' = n
          /\ \A c, d : Leads(c, d)' <=> Leads(c, d)
          /\ InSeq(m_Successors)' = InSeq(m_Successors)
          /\ InSeq(pending)' = InSeq(pending')
      BY <1>1, <1>6 DEF at, Leads, InSeq
    <3> QED
      BY <1>1, <1>6, <2>1, <2>2, <3>1, <3>2 DEF Covered, at, Leads
  <2> QED
    BY <1>1, <2>1, <2>3, NotOver DEF IInv
<1>7. ASSUME excuses' = excuses \cup {"exhausted"}, UNCHANGED <<pool, node, m_Successors>>
      PROVE  IInv'
  <2>1. Covered'
    BY <1>7 DEF Covered
  <2> QED
    BY <1>1, <1>5, <1>7, <2>1, NotOver DEF IInv
<1>8. ASSUME Kept(s), held # Nodes, NEW x, x = Unused(held),
             held' = held \cup {x},
             node' = [node EXCEPT ![x] = Fresh(s)],
             m_Successors' = Append(m_Successors, x),
             m_AllocateNodeCount' = m_AllocateNodeCount + 1,
             excuses' = excuses
      PROVE  IInv'
  <2>1. /\ x \in Nodes /\ x \notin held /\ held \subseteq Nodes
        /\ Listed \subseteq held /\ InSeq(m_Successors) \subseteq held
        /\ m_Successors \in Seq(Nodes) /\ Distinct(m_Successors)
        /\ node \in [Nodes -> NodeContents]
    BY <1>1, <1>8, UnusedType, Searching DEF IInv, Typed, Owned
  <2>2. /\ m_Successors' \in Seq(Nodes)
        /\ InSeq(m_Successors') = InSeq(m_Successors) \cup {x}
        /\ Distinct(m_Successors')
    BY <1>8, <2>1, AppendTo
  <2>3. /\ node' \in [Nodes -> NodeContents]
        /\ \A y \in held : node'[y] = node[y]
        /\ node'[x] = Fresh(s) /\ node'[x].child = NoNode /\ node'[x].user = s
    <3>1. Fresh(s) \in NodeContents
      BY <1>3, FreshType
    <3>2. node'[x] = Fresh(s)
      BY <1>8, <2>1
    <3> QED
      BY <1>8, <2>1, <3>1, <3>2 DEF Fresh
  <2>4. Cardinality(held') = m_AllocateNodeCount'
    <3>1. IsFiniteSet(held) /\ Cardinality(held) \in Nat
      BY <2>1, HeldFinite DEF IInv
    <3>2. Cardinality(held \cup {x}) = Cardinality(held) + 1
      BY <1>8, <2>1, <3>1, OneMore
    <3> QED
      BY <1>8, <2>1, <3>1, <3>2 DEF IInv, Typed
  <2>5. Typed' /\ Phased'
    BY <1>1, <1>3, <1>8, <2>1, <2>2, <2>3, <2>4 DEF IInv, Typed, Phased
  <2>6. /\ OneNodePerCell' /\ ParentsLeadToStart' /\ StepsAreMoves' /\ Seen' = Seen
        /\ node'[m_Start].user = world.start /\ node'[m_Goal].user = world.goal
    BY <1>1, <1>2, <2>3, <2>5, SameTree DEF Typed
  <2>7. Owned'
    <3>1. /\ held = Listed \cup InSeq(m_Successors) \cup {m_Goal}
          /\ m_OpenList \cap m_ClosedList = {} /\ n \notin m_OpenList \cup m_ClosedList
          /\ InSeq(m_Successors) \cap Listed = {}
          /\ m_Goal \notin Listed \cup InSeq(m_Successors)
      BY <1>1 DEF IInv, Owned
    <3>2. InSeq(m_Successors)' = InSeq(m_Successors) \cup {x} /\ Distinct(m_Successors)'
      BY <2>2 DEF InSeq, Distinct
    <3> QED
      BY <1>1, <1>2, <1>4, <1>8, <2>1, <3>1, <3>2 DEF Owned
  <2>8. Rooted'
    <3>1. /\ m_Start \in Listed /\ \A y \in held : node[y].child = NoNode
          /\ \A y \in m_ClosedList \cup ({n} \ {NoNode}) :
               y \in held /\ at(y) # world.goal.at
      BY <1>1, <2>1 DEF IInv, Rooted, Listed
    <3> QED
      BY <1>1, <1>2, <1>8, <2>3, <2>6, <3>1 DEF Rooted, at
  <2>9. /\ \A y \in held : at(y)' = at(y) /\ x # n
        /\ \A c, d : Leads(c, d)' <=> Leads(c, d)
        /\ InSeq(m_Successors)' = InSeq(m_Successors) \cup {x}
        /\ InSeq(pending)' = InSeq(pending')
        /\ at(x)' = s.at /\ at(n)' = at(n)
    BY <1>1, <1>4, <2>1, <2>2, <2>3 DEF at, Leads, InSeq
  <2>10. Generated'
    <3>1. /\ InSeq(pending) \subseteq InSeq(Moves[at(n)])
          /\ \A y \in InSeq(m_Successors) : Leads(at(n), at(y))
      BY <1>1 DEF IInv, Generated
    <3>2. Leads(at(n), s.at)
      BY <1>4, <1>8 DEF Leads, Kept
    <3>3. InSeq(pending)' \subseteq InSeq(Moves[at(n)])
      BY <1>3, <2>9, <3>1
    <3>4. ASSUME NEW y \in InSeq(m_Successors)'
          PROVE  Leads(at(n), at(y)')
      BY <2>1, <2>9, <3>1, <3>2
    <3> QED
      BY <1>1, <2>9, <3>3, <3>4 DEF Generated, InSeq, Leads
  <2>11. Covered'
    <3>1. m_CancelRequest => excuses # {}
      BY <1>1 DEF IInv, Covered
    <3>2. ASSUME excuses = {}, NEW y \in m_ClosedList, NEW d \in Cells, Leads(at(y)', d)
          PROVE  d \in Seen
      <4>1. y \in held
        BY <2>1 DEF Listed
      <4> QED
        BY <1>1, <2>9, <3>2, <4>1 DEF IInv, Covered
    <3>3. ASSUME excuses = {}, NEW d \in Cells, Leads(at(n), d)
          PROVE  \/ d \in Seen
                 \/ \E y \in InSeq(m_Successors)' : at(y)' = d
                 \/ \E t \in InSeq(pending)' : t.at = d
      <4>1. CASE d \in Seen
        BY <4>1
      <4>2. CASE \E y \in InSeq(m_Successors) : at(y) = d
        BY <2>1, <2>9, <4>2
      <4>3. CASE \E t \in InSeq(pending) : t.at = d
        BY <1>3, <2>9, <4>3
      <4> QED
        BY <1>1, <3>3, <4>1, <4>2, <4>3 DEF IInv, Covered
    <3> QED
      BY <1>1, <1>8, <2>6, <2>9, <3>1, <3>2, <3>3 DEF Covered, Leads, at
  <2> QED
    BY <1>1, <2>5, <2>6, <2>7, <2>8, <2>10, <2>11, NotOver DEF IInv
<1> QED
  <2> HIDE DEF IInv
  <2> QED
    BY <1>6, <1>7, <1>8 DEF AddSuccessor

\* The successor the loop takes next.
LEMMA NextSuccessor ==
  ASSUME IInv, NEW s, Loop(s)
  PROVE  /\ pc = "generate" /\ m_State = "SEARCHING" /\ pending = << >>
         /\ n \in Listed /\ n # NoNode
         /\ s \in held /\ s \in Nodes /\ s \notin Listed /\ s # m_Goal
         /\ m_Successors' \in Seq(Nodes)
         /\ InSeq(m_Successors) = {s} \cup InSeq(m_Successors)'
         /\ s \notin InSeq(m_Successors)' /\ Distinct(m_Successors)'
         /\ Leads(at(n), at(s)) /\ at(s) \in Cells /\ at(s) # at(n)
         /\ newg(s) \in Nat /\ node[n].g \in Nat /\ node[n].g < newg(s)
<1>1. /\ pc = "generate" /\ m_State = "SEARCHING" /\ pending = << >> /\ n \in Nodes
      /\ m_Successors \in Seq(Nodes) /\ m_Successors # << >>
      /\ s = Head(m_Successors) /\ m_Successors' = Tail(m_Successors)
      /\ Distinct(m_Successors)
  BY DEF IInv, Phased, Owned, Typed, Loop
<1>2. /\ s \in Nodes /\ m_Successors' \in Seq(Nodes)
      /\ InSeq(m_Successors) = {s} \cup InSeq(m_Successors')
      /\ Distinct(m_Successors') /\ s \notin InSeq(m_Successors')
  BY <1>1, TailOf
<1>3. InSeq(m_Successors)' = InSeq(m_Successors') /\ Distinct(m_Successors)'
  BY <1>2 DEF InSeq, Distinct
<1>4. n # NoNode /\ n \in Listed
  BY <1>1, PoolSize, Searching
<1>5. s \in held /\ s \notin Listed /\ s # m_Goal
  BY <1>1, <1>2 DEF IInv, Owned
<1>6. /\ Leads(at(n), at(s)) /\ at(s) \in Cells /\ at(n) \in Cells
      /\ node[n].user \in UserStates /\ node[s].user \in UserStates
      /\ node[n].g \in Nat
  BY <1>1, <1>2, NodeType DEF IInv, Generated
<1>7. at(s) # at(n)
  <2>1. PICK m \in InSeq(Moves[at(n)]) : m.at = at(s)
    BY <1>6 DEF Leads
  <2> QED
    BY <1>6, <2>1, MovesAway
<1>8. newg(s) \in Nat /\ node[n].g < newg(s)
  <2>1. Cost(world.cost_map, node[n].user, node[s].user) \in Nat \ {0}
    BY <1>6, CostType DEF IInv, Typed
  <2> QED
    BY <1>6, <2>1 DEF newg
<1> QED
  BY <1>1, <1>2, <1>3, <1>4, <1>5, <1>6, <1>7, <1>8

\* Nothing is left out while the cell of the successor is on the lists.
LEMMA StillCovered ==
  ASSUME IInv, NEW s, Loop(s),
         UNCHANGED <<n, pending, world, excuses, m_State, m_CancelRequest>>,
         \A y \in held : at(y)' = at(y),
         Seen \cup {at(s)} \subseteq Seen', m_ClosedList' \subseteq m_ClosedList
  PROVE  Covered'
<1>1. /\ pc = "generate" /\ m_State = "SEARCHING" /\ pending = << >> /\ n \in Listed
      /\ InSeq(m_Successors) = {s} \cup InSeq(m_Successors)'
      /\ Listed \subseteq held /\ m_ClosedList \subseteq Listed
      /\ InSeq(m_Successors) \subseteq held
  BY NextSuccessor, Searching DEF IInv, Owned
<1>2. \A c, d : Leads(c, d)' <=> Leads(c, d)
  BY DEF Leads, InSeq
<1>3. ASSUME excuses = {}, NEW y \in m_ClosedList, NEW d \in Cells, Leads(at(y)', d)
      PROVE  d \in Seen
  <2>1. y \in held
    BY <1>1
  <2> QED
    BY <1>1, <1>3, <2>1 DEF IInv, Covered
<1>4. ASSUME excuses = {}, NEW d \in Cells, Leads(at(n), d)
      PROVE  d \in Seen' \/ \E y \in InSeq(m_Successors)' : at(y)' = d
  <2>1. InSeq(pending) = {}
    BY <1>1 DEF InSeq
  <2>2. d \in Seen \/ \E y \in InSeq(m_Successors) : at(y) = d
    BY <1>1, <1>4, <2>1 DEF IInv, Covered
  <2> QED
    BY <1>1, <2>2
<1>5. m_CancelRequest => excuses # {}
  BY <1>1 DEF IInv, Covered
<1>6. n \in held /\ at(n)' = node'[n].user.at
  BY <1>1 DEF at
<1>7. at(n)' = at(n)
  BY <1>1, <1>6 DEF at
<1> QED
  BY <1>2, <1>3, <1>4, <1>5, <1>7 DEF Covered, at, Leads

\* The successors that are left are still one movement away.
LEMMA StillGenerated ==
  ASSUME IInv, NEW s, Loop(s), UNCHANGED <<n, pending, world>>,
         \A y \in held : at(y)' = at(y)
  PROVE  Generated'
<1>1. /\ pc = "generate" /\ m_State = "SEARCHING" /\ pending = << >> /\ n \in Listed
      /\ InSeq(m_Successors)' \subseteq InSeq(m_Successors)
      /\ Listed \subseteq held /\ InSeq(m_Successors) \subseteq held
  BY NextSuccessor, Searching DEF IInv, Owned
<1>2. \A c, d : Leads(c, d)' <=> Leads(c, d)
  BY DEF Leads, InSeq
<1>3. InSeq(pending)' = {}
  BY <1>1 DEF InSeq
<1>4. at(n)' = at(n)
  BY <1>1 DEF at
<1>5. \A y \in InSeq(m_Successors)' : Leads(at(n), at(y)')
  BY <1>1 DEF IInv, Generated
<1> QED
  BY <1>2, <1>3, <1>4, <1>5 DEF Generated, Leads, InSeq, at

\* A successor is not better than what is on the lists.
LEMMA DiscardStep ==
  ASSUME IInv, NEW s, Discard(s)
  PROVE  IInv'
<1>1. /\ Loop(s) /\ Freeing({s})
      /\ Cheaper(m_OpenList, s) \/ Cheaper(m_ClosedList, s)
      /\ UNCHANGED <<node, m_OpenList, m_ClosedList, n, pending, m_Start, m_Goal,
                     m_State, m_CancelRequest, world, excuses, pc>>
  BY DEF Discard, lists, search
<1>2. /\ pc = "generate" /\ m_State = "SEARCHING" /\ pending = << >>
      /\ n \in Listed /\ n # NoNode
      /\ s \in held /\ s \in Nodes /\ s \notin Listed /\ s # m_Goal
      /\ m_Successors' \in Seq(Nodes)
      /\ InSeq(m_Successors) = {s} \cup InSeq(m_Successors)'
      /\ s \notin InSeq(m_Successors)' /\ Distinct(m_Successors)'
  BY <1>1, NextSuccessor
<1>3. Listed' = Listed
  BY <1>1 DEF Listed
<1>4. held' = held \ {s} /\ held' \subseteq Nodes /\ m_AllocateNodeCount' = Cardinality(held')
  <2>1. {s} \subseteq held
    BY <1>2
  <2> QED
    BY <1>1, <2>1, Freed DEF IInv, Freeing
<1>5. Typed' /\ Phased'
  BY <1>1, <1>2, <1>4 DEF IInv, Typed, Phased
<1>6. /\ OneNodePerCell' /\ ParentsLeadToStart' /\ StepsAreMoves' /\ Seen' = Seen
      /\ node'[m_Start].user = world.start /\ node'[m_Goal].user = world.goal
  BY <1>1, <1>2, <1>3, <1>5, SameTree DEF Typed
<1>7. Owned'
  BY <1>1, <1>2, <1>3, <1>4 DEF IInv, Owned
<1>8. Rooted'
  BY <1>1, <1>2, <1>3, <1>4, <1>6 DEF IInv, Rooted, at
<1>9. \A y : at(y)' = at(y)
  BY <1>1 DEF at
<1>10. Generated'
  BY <1>1, <1>9, StillGenerated
<1>11. Covered'
  <2>1. at(s) \in Seen
    <3>1. PICK y \in Listed : at(y) = at(s)
      BY <1>1 DEF Cheaper, Same, Listed
    <3> QED
      BY <3>1 DEF Seen
  <2> QED
    BY <1>1, <1>6, <1>9, <2>1, StillCovered
<1> QED
  BY <1>1, <1>2, <1>5, <1>6, <1>7, <1>8, <1>10, <1>11, NotOver DEF IInv

\* A node on the lists for the cell of the successor gets the better parent: it
\* keeps being the only one for its cell, and the nodes that have it as parent
\* cost more than before by comparison.
LEMMA Reparent ==
  ASSUME IInv, NEW s, Loop(s), Freeing({s}),
         NEW y \in m_OpenList \cup m_ClosedList, at(y) = at(s), newg(s) < node[y].g,
         node' = Reparented(y, s),
         m_OpenList' \cup m_ClosedList' = m_OpenList \cup m_ClosedList,
         m_OpenList' \cap m_ClosedList' = {}, m_ClosedList' \subseteq m_ClosedList,
         UNCHANGED <<n, pending, m_Start, m_Goal, m_State, m_CancelRequest, world,
                     excuses, pc>>
  PROVE  IInv'
<1>1. /\ pc = "generate" /\ m_State = "SEARCHING" /\ pending = << >>
      /\ n \in Listed /\ n # NoNode
      /\ s \in held /\ s \in Nodes /\ s \notin Listed /\ s # m_Goal
      /\ m_Successors' \in Seq(Nodes)
      /\ InSeq(m_Successors) = {s} \cup InSeq(m_Successors)'
      /\ s \notin InSeq(m_Successors)' /\ Distinct(m_Successors)'
      /\ Leads(at(n), at(s)) /\ at(s) \in Cells /\ at(s) # at(n)
      /\ newg(s) \in Nat /\ node[n].g \in Nat /\ node[n].g < newg(s)
  BY NextSuccessor
<1>2. /\ Listed \subseteq Nodes /\ Listed \subseteq held /\ held \subseteq Nodes
      /\ y \in Listed /\ y \in Nodes /\ n \in Nodes /\ m_Start \in Listed
      /\ m_Goal \notin Listed /\ m_Goal \in held
      /\ NoNode \notin Nodes
  BY <1>1, Searching, PoolSize DEF Listed
<1>3. Listed' = Listed
  BY DEF Listed
<1>4. y # n /\ y # m_Start
  <2>1. node[m_Start].g = 0 /\ node[y].g \in Nat
    BY <1>1, <1>2, NodeType DEF IInv, ParentsLeadToStart, Listed
  <2> QED
    BY <1>1, <2>1
<1>5. held' = held \ {s} /\ held' \subseteq Nodes /\ m_AllocateNodeCount' = Cardinality(held')
  <2>1. {s} \subseteq held
    BY <1>1
  <2> QED
    BY <2>1, Freed DEF IInv, Freeing
<1>6. /\ node' \in [Nodes -> NodeContents]
      /\ \A z \in Nodes : /\ node'[z].user = node[z].user
                          /\ node'[z].child = node[z].child
      /\ \A z \in Nodes \ {y} : node'[z] = node[z]
      /\ node'[y].parent = n /\ node'[y].g = newg(s)
  <2>1. node \in [Nodes -> NodeContents]
    BY DEF IInv, Typed
  <2>2. node' = [node EXCEPT ![y] = [@ EXCEPT !.parent = n, !.g = newg(s)]]
    BY DEF Reparented
  <2>3. node'[y] = [node[y] EXCEPT !.parent = n, !.g = newg(s)] /\ node[y] \in NodeContents
    BY <1>2, <2>1, <2>2
  <2>4. /\ node'[y] \in NodeContents /\ node'[y].parent = n /\ node'[y].g = newg(s)
        /\ node'[y].user = node[y].user /\ node'[y].child = node[y].child
    BY <1>1, <1>2, <2>3 DEF NodeContents
  <2>5. \A z \in Nodes \ {y} : node'[z] = node[z]
    BY <2>1, <2>2
  <2>6. node' \in [Nodes -> NodeContents]
    BY <1>2, <2>1, <2>2, <2>4, <2>5
  <2> QED
    BY <2>4, <2>5, <2>6
<1>7. \A z \in held : at(z)' = at(z)
  BY <1>2, <1>6 DEF at
<1>8. Typed' /\ Phased'
  <2>1. m_OpenList' \subseteq Nodes /\ m_ClosedList' \subseteq Nodes
    BY <1>2 DEF IInv, Typed
  <2> QED
    BY <1>1, <1>5, <1>6, <2>1 DEF IInv, Typed, Phased
<1>9. Seen' = Seen
  BY <1>2, <1>3, <1>6 DEF Seen, at
<1>10. Owned'
  <2>1. n \notin m_OpenList' \cup m_ClosedList'
    BY <1>1 DEF IInv, Owned
  <2> QED
    BY <1>1, <1>2, <1>3, <1>5, <2>1 DEF IInv, Owned
<1>11. Rooted'
  <2>1. node'[m_Start].user = world.start /\ node'[m_Goal].user = world.goal
    BY <1>1, <1>2, <1>6 DEF IInv, Rooted
  <2>2. \A z \in held' : node'[z].child = NoNode
    BY <1>1, <1>2, <1>5, <1>6 DEF IInv, Rooted
  <2>3. \A z \in m_ClosedList' \cup ({n} \ {NoNode}) : node'[z].user.at # world.goal.at
    <3>1. \A z \in m_ClosedList \cup ({n} \ {NoNode}) : z \in Nodes /\ at(z) # world.goal.at
      BY <1>1, <1>2 DEF IInv, Rooted, Listed
    <3> QED
      BY <1>6, <3>1 DEF at
  <2> QED
    BY <1>2, <1>3, <2>1, <2>2, <2>3 DEF Rooted, at
<1>12. OneNodePerCell'
  <2> SUFFICES \A u, v \in Listed : node'[u].user.at = node'[v].user.at => u = v
    BY <1>3 DEF OneNodePerCell, Listed, at
  <2>1. \A u, v \in Listed : node[u].user.at = node[v].user.at => u = v
    BY <1>1 DEF IInv, OneNodePerCell, Listed, at
  <2> QED
    BY <1>2, <1>6, <2>1
<1>13. \A z \in Listed : IF z = m_Start THEN node[z].parent = NoNode /\ node[z].g = 0
                         ELSE /\ node[z].parent \in Listed
                              /\ node[node[z].parent].g < node[z].g
  BY <1>1, <1>2 DEF IInv, ParentsLeadToStart, Listed
<1>14. ParentsLeadToStart'
  <2> SUFFICES \A z \in Listed :
                 IF z = m_Start THEN node'[z].parent = NoNode /\ node'[z].g = 0
                 ELSE /\ node'[z].parent \in Listed
                      /\ node'[node'[z].parent].g < node'[z].g
    BY <1>2, <1>3 DEF ParentsLeadToStart, Listed
  <2> TAKE z \in Listed
  <2>1. CASE z = m_Start
    BY <1>2, <1>4, <1>6, <1>13, <2>1
  <2>2. CASE z = y
    BY <1>1, <1>2, <1>4, <1>6, <2>2
  <2>3. CASE z # m_Start /\ z # y
    <3>1. node[z].parent \in Listed /\ node[node[z].parent].g < node[z].g
      BY <1>13, <2>3
    <3>2. /\ node'[z] = node[z] /\ node[z].g \in Nat /\ node[y].g \in Nat
      BY <1>2, <1>6, <2>3, NodeType DEF IInv
    <3>3. CASE node[z].parent = y
      BY <1>1, <1>2, <1>6, <2>3, <3>1, <3>2, <3>3
    <3>4. CASE node[z].parent # y
      BY <1>2, <1>6, <2>3, <3>1, <3>2, <3>4
    <3> QED
      BY <3>3, <3>4
  <2> QED
    BY <2>1, <2>2, <2>3
<1>15. StepsAreMoves'
  <2> SUFFICES \A z \in Listed \ {m_Start} :
                 Leads(node'[node'[z].parent].user.at, node'[z].user.at)
    BY <1>3 DEF StepsAreMoves, Leads, InSeq, at
  <2> TAKE z \in Listed \ {m_Start}
  <2>1. CASE z = y
    BY <1>1, <1>2, <1>6, <2>1 DEF at
  <2>2. CASE z # y
    <3>1. Leads(at(node[z].parent), at(z)) /\ node[z].parent \in Nodes
      BY <1>1, <1>2, <1>13 DEF IInv, StepsAreMoves
    <3> QED
      BY <1>2, <1>6, <2>2, <3>1 DEF at
  <2> QED
    BY <2>1, <2>2
<1>16. Generated'
  BY <1>7, StillGenerated
<1>17. Covered'
  <2>1. at(s) \in Seen
    BY <1>2 DEF Seen
  <2> QED
    BY <1>7, <1>9, <2>1, StillCovered
<1> QED
  BY <1>1, <1>8, <1>10, <1>11, <1>12, <1>14, <1>15, <1>16, <1>17, NotOver DEF IInv

\* A closed node is better reached by the successor's way.
LEMMA ReopenStep ==
  ASSUME IInv, NEW s, Reopen(s)
  PROVE  IInv'
<1>1. PICK y \in Same(m_ClosedList, s) :
        /\ node' = Reparented(y, s)
        /\ m_OpenList' = m_OpenList \cup {y}
        /\ m_ClosedList' = m_ClosedList \ {y}
  BY DEF Reopen
<1>2. /\ Loop(s) /\ Freeing({s}) /\ ~Cheaper(m_ClosedList, s)
      /\ UNCHANGED <<n, pending, m_Start, m_Goal, m_State, m_CancelRequest, world,
                     excuses, pc>>
  BY DEF Reopen, search
<1>3. y \in m_ClosedList /\ at(y) = at(s) /\ ~(node[y].g <= newg(s))
  BY <1>1, <1>2 DEF Cheaper, Same
<1>4. newg(s) < node[y].g
  <2>1. newg(s) \in Nat /\ node[y].g \in Nat
    BY <1>2, <1>3, NextSuccessor, NodeType DEF IInv, Typed
  <2> QED
    BY <1>3, <2>1
<1>5. m_OpenList \cap m_ClosedList = {}
  BY <1>2, NextSuccessor DEF IInv, Owned
<1>6. /\ m_OpenList' \cup m_ClosedList' = m_OpenList \cup m_ClosedList
      /\ m_OpenList' \cap m_ClosedList' = {} /\ m_ClosedList' \subseteq m_ClosedList
  BY <1>1, <1>3, <1>5
<1> QED
  BY <1>1, <1>2, <1>3, <1>4, <1>6, Reparent

\* An open one is.
LEMMA ImproveStep ==
  ASSUME IInv, NEW s, Improve(s)
  PROVE  IInv'
<1>1. PICK y \in Same(m_OpenList, s) : node' = Reparented(y, s)
  BY DEF Improve
<1>2. /\ Loop(s) /\ Freeing({s}) /\ ~Cheaper(m_OpenList, s)
      /\ UNCHANGED <<m_OpenList, m_ClosedList, n, pending, m_Start, m_Goal, m_State,
                     m_CancelRequest, world, excuses, pc>>
  BY DEF Improve, search, lists
<1>3. y \in m_OpenList /\ at(y) = at(s) /\ ~(node[y].g <= newg(s))
  BY <1>1, <1>2 DEF Cheaper, Same
<1>4. newg(s) < node[y].g
  <2>1. newg(s) \in Nat /\ node[y].g \in Nat
    BY <1>2, <1>3, NextSuccessor, NodeType DEF IInv, Typed
  <2> QED
    BY <1>3, <2>1
<1>5. m_OpenList \cap m_ClosedList = {}
  BY <1>2, NextSuccessor DEF IInv, Owned
<1> QED
  BY <1>1, <1>2, <1>3, <1>4, <1>5, Reparent

\* The successor is the first node for its cell.
LEMMA OpenStep ==
  ASSUME IInv, NEW s, Open(s)
  PROVE  IInv'
<1>1. /\ Loop(s) /\ Same(m_OpenList, s) = {} /\ Same(m_ClosedList, s) = {}
      /\ node' = Reparented(s, s) /\ m_OpenList' = m_OpenList \cup {s}
      /\ held' = held /\ m_AllocateNodeCount' = m_AllocateNodeCount
      /\ UNCHANGED <<m_ClosedList, n, pending, m_Start, m_Goal, m_State,
                     m_CancelRequest, world, excuses, pc>>
  BY DEF Open, pool, search
<1>2. /\ pc = "generate" /\ m_State = "SEARCHING" /\ pending = << >>
      /\ n \in Listed /\ n # NoNode
      /\ s \in held /\ s \in Nodes /\ s \notin Listed /\ s # m_Goal
      /\ m_Successors' \in Seq(Nodes)
      /\ InSeq(m_Successors) = {s} \cup InSeq(m_Successors)'
      /\ s \notin InSeq(m_Successors)' /\ Distinct(m_Successors)'
      /\ Leads(at(n), at(s)) /\ at(s) \in Cells /\ at(s) # at(n)
      /\ newg(s) \in Nat /\ node[n].g \in Nat /\ node[n].g < newg(s)
  BY <1>1, NextSuccessor
<1>3. /\ Listed \subseteq Nodes /\ Listed \subseteq held /\ held \subseteq Nodes
      /\ n \in Nodes /\ m_Start \in Listed
      /\ m_Goal \notin Listed /\ m_Goal \in held /\ NoNode \notin Nodes
  BY <1>2, Searching, PoolSize
<1>4. Listed' = Listed \cup {s} /\ s # m_Start /\ s # n
  BY <1>1, <1>2, <1>3 DEF Listed
<1>5. /\ node' \in [Nodes -> NodeContents]
      /\ \A z \in Nodes : /\ node'[z].user = node[z].user
                          /\ node'[z].child = node[z].child
      /\ \A z \in Nodes \ {s} : node'[z] = node[z]
      /\ node'[s].parent = n /\ node'[s].g = newg(s)
  <2>1. node \in [Nodes -> NodeContents]
    BY DEF IInv, Typed
  <2>2. node' = [node EXCEPT ![s] = [@ EXCEPT !.parent = n, !.g = newg(s)]]
    BY <1>1 DEF Reparented
  <2>3. node'[s] = [node[s] EXCEPT !.parent = n, !.g = newg(s)] /\ node[s] \in NodeContents
    BY <1>2, <2>1, <2>2
  <2>4. /\ node'[s] \in NodeContents /\ node'[s].parent = n /\ node'[s].g = newg(s)
        /\ node'[s].user = node[s].user /\ node'[s].child = node[s].child
    BY <1>2, <1>3, <2>3 DEF NodeContents
  <2>5. \A z \in Nodes \ {s} : node'[z] = node[z]
    BY <2>1, <2>2
  <2>6. node' \in [Nodes -> NodeContents]
    BY <1>2, <2>1, <2>2, <2>4, <2>5
  <2> QED
    BY <2>4, <2>5, <2>6
<1>6. \A z \in held : at(z)' = at(z)
  BY <1>3, <1>5 DEF at
<1>7. Typed' /\ Phased'
  BY <1>1, <1>2, <1>5 DEF IInv, Typed, Phased
<1>8. Owned'
  <2>1. m_OpenList' \cap m_ClosedList' = {} /\ n' \notin m_OpenList' \cup m_ClosedList'
    BY <1>1, <1>2, <1>3, <1>4 DEF IInv, Owned, Listed
  <2> QED
    BY <1>1, <1>2, <1>3, <1>4, <2>1 DEF IInv, Owned
<1>9. Rooted'
  <2>1. node'[m_Start].user = world.start /\ node'[m_Goal].user = world.goal
    BY <1>2, <1>3, <1>5 DEF IInv, Rooted
  <2>2. \A z \in held' : node'[z].child = NoNode
    BY <1>1, <1>2, <1>3, <1>5 DEF IInv, Rooted
  <2>3. \A z \in m_ClosedList' \cup ({n} \ {NoNode}) : node'[z].user.at # world.goal.at
    <3>1. \A z \in m_ClosedList \cup ({n} \ {NoNode}) : z \in Nodes /\ at(z) # world.goal.at
      BY <1>2, <1>3 DEF IInv, Rooted, Listed
    <3> QED
      BY <1>1, <1>5, <3>1 DEF at
  <2> QED
    BY <1>1, <1>3, <1>4, <2>1, <2>2, <2>3 DEF Rooted, at
<1>10. OneNodePerCell'
  <2> SUFFICES \A u, v \in Listed \cup {s} : node'[u].user.at = node'[v].user.at => u = v
    BY <1>4 DEF OneNodePerCell, Listed, at
  <2>1. \A u, v \in Listed : node[u].user.at = node[v].user.at => u = v
    BY <1>2 DEF IInv, OneNodePerCell, Listed, at
  <2>2. \A u \in Listed : node[u].user.at # node[s].user.at
    BY <1>1, <1>2 DEF Same, Listed, at
  <2> QED
    BY <1>2, <1>3, <1>5, <2>1, <2>2
<1>11. \A z \in Listed : IF z = m_Start THEN node[z].parent = NoNode /\ node[z].g = 0
                         ELSE /\ node[z].parent \in Listed
                              /\ node[node[z].parent].g < node[z].g
  BY <1>2, <1>3 DEF IInv, ParentsLeadToStart, Listed
<1>12. ParentsLeadToStart'
  <2> SUFFICES \A z \in Listed \cup {s} :
                 IF z = m_Start THEN node'[z].parent = NoNode /\ node'[z].g = 0
                 ELSE /\ node'[z].parent \in Listed \cup {s}
                      /\ node'[node'[z].parent].g < node'[z].g
    BY <1>1, <1>2, <1>3, <1>4 DEF ParentsLeadToStart, Listed
  <2> TAKE z \in Listed \cup {s}
  <2>1. CASE z = s
    BY <1>2, <1>3, <1>4, <1>5, <2>1
  <2>2. CASE z # s
    <3>1. z \in Listed /\ z \in Nodes /\ node'[z] = node[z]
      BY <1>3, <1>5, <2>2
    <3>2. CASE z = m_Start
      BY <1>11, <3>1, <3>2
    <3>3. CASE z # m_Start
      <4>1. /\ node[z].parent \in Listed /\ node[node[z].parent].g < node[z].g
            /\ node'[node[z].parent] = node[node[z].parent]
        BY <1>2, <1>3, <1>5, <1>11, <3>1, <3>3
      <4> QED
        BY <3>1, <3>3, <4>1
    <3> QED
      BY <3>2, <3>3
  <2> QED
    BY <2>1, <2>2
<1>13. StepsAreMoves'
  <2> SUFFICES \A z \in (Listed \cup {s}) \ {m_Start} :
                 Leads(node'[node'[z].parent].user.at, node'[z].user.at)
    BY <1>1, <1>4 DEF StepsAreMoves, Leads, InSeq, at
  <2> TAKE z \in (Listed \cup {s}) \ {m_Start}
  <2>1. CASE z = s
    BY <1>2, <1>3, <1>5, <2>1 DEF at
  <2>2. CASE z # s
    <3>1. Leads(at(node[z].parent), at(z)) /\ node[z].parent \in Nodes
      BY <1>2, <1>3, <1>11, <2>2 DEF IInv, StepsAreMoves
    <3> QED
      BY <1>3, <1>5, <2>2, <3>1 DEF at
  <2> QED
    BY <2>1, <2>2
<1>14. Generated'
  BY <1>1, <1>6, StillGenerated
<1>15. Covered'
  <2>1. Seen \cup {at(s)} \subseteq Seen'
    BY <1>2, <1>3, <1>4, <1>5 DEF Seen, at
  <2> QED
    BY <1>1, <1>6, <2>1, StillCovered
<1> QED
  BY <1>1, <1>2, <1>7, <1>8, <1>9, <1>10, <1>12, <1>13, <1>14, <1>15, NotOver DEF IInv

-----------------------------------------------------------------------------
(* The theorems.                                                           *)

\* Nothing happens.
LEMMA StutterStep ==
  ASSUME IInv, UNCHANGED vars
  PROVE  IInv'
<1> USE DEF vars
<1>1. Typed' /\ Phased'
  BY DEF IInv, Typed, Phased
<1>2. Listed' = Listed
  BY DEF Listed
<1>3. Owned'
  BY <1>2 DEF IInv, Owned, InSeq, Distinct
<1>4. Rooted' /\ OneNodePerCell' /\ ParentsLeadToStart'
  BY <1>2 DEF IInv, Rooted, OneNodePerCell, ParentsLeadToStart, at
<1>5. StepsAreMoves' /\ Generated'
  BY <1>2 DEF IInv, StepsAreMoves, Generated, at, Leads, InSeq
<1>6. Covered'
  BY <1>2 DEF IInv, Covered, Seen, at, Leads, InSeq
<1>7. Solved' /\ SolutionIsPath'
  BY DEF IInv, Solved, SolutionIsPath, at, Leads, InSeq
<1>8. FailureMeansUnreachable'
  BY SameReachable DEF IInv, FailureMeansUnreachable
<1> QED
  BY <1>1, <1>3, <1>4, <1>5, <1>6, <1>7, <1>8 DEF IInv

\* Every step of the search.
LEMMA Step ==
  ASSUME IInv, Next
  PROVE  IInv'
<1>1. CASE SetStartAndGoalStates
  BY <1>1, StartStep
<1>2. CASE GiveUp
  BY <1>2, GiveUpStep
<1>3. ASSUME NEW x \in m_OpenList, ReachGoal(x) \/ Expand(x)
      PROVE  IInv'
  BY <1>3, ReachGoalStep, ExpandStep
<1>4. CASE AddSuccessor
  BY <1>4, AddSuccessorStep
<1>5. ASSUME NEW s \in held, Discard(s) \/ Reopen(s) \/ Improve(s) \/ Open(s)
      PROVE  IInv'
  BY <1>5, DiscardStep, ReopenStep, ImproveStep, OpenStep
<1>6. CASE Close
  BY <1>6, CloseStep
<1>7. CASE TryRSCurve
  BY <1>7, ShotStep
<1>8. CASE FreeSolutionNodes
  BY <1>8, FreeSolutionStep
<1> QED
  BY <1>1, <1>2, <1>3, <1>4, <1>5, <1>6, <1>7, <1>8 DEF Next, SearchStep

\* The invariant is inductive: the owners of the nodes, the tree they make up and
\* the cells they cover, through every step of every search.
THEOREM Inductive == Spec => []IInv
<1>1. Init => IInv
  BY InitHolds
<1>2. IInv /\ [Next]_vars => IInv'
  BY Step, StutterStep
<1> QED
  BY <1>1, <1>2, PTL DEF Spec

\* Type correctness of the search: the count of nodes keeps within the pool, and
\* costs are never negative.
THEOREM TypeCorrect == Spec => []TypeOK
<1>1. IInv => TypeOK
  <2> SUFFICES ASSUME IInv
               PROVE  TypeOK
    OBVIOUS
  <2>1. Cardinality(held) \in 0 .. MaxNodes
    <3>1. held \subseteq Nodes
      BY DEF IInv, Typed
    <3>2. Cardinality(held) \in Nat /\ Cardinality(held) <= Cardinality(Nodes)
      BY <3>1, PoolSize, HeldFinite, FS_Subset DEF IInv
    <3> QED
      BY <3>2, PoolSize
  <2>2. InSeq(m_Successors) \subseteq Nodes
    BY DEF IInv, Typed, InSeq
  <2> QED
    BY <2>1, <2>2 DEF IInv, Typed, NodeContents, TypeOK
<1> QED
  BY <1>1, Inductive, PTL

\* Every node of the pool has exactly one owner at every point of every search, and
\* between two searches none is held (EnsureMemoryFreed), however the search ended.
THEOREM MemoryCorrect == Spec => []MemoryAccounted
<1>1. IInv => MemoryAccounted
  <2> SUFFICES ASSUME IInv
               PROVE  MemoryAccounted
    OBVIOUS
  <2>1. m_AllocateNodeCount = Cardinality(held) /\ (pc = "idle" => held = {})
    BY DEF IInv, Typed, Phased
  <2>2. ASSUME m_State = "SEARCHING"
        PROVE  LET owned == {m_OpenList, m_ClosedList, InSeq(m_Successors), {m_Goal},
                             {n} \ {NoNode}}
               IN  /\ held = UNION owned
                   /\ \A S, T \in owned : S = T \/ S \cap T = {}
                   /\ Cardinality(InSeq(m_Successors)) = Len(m_Successors)
    <3>1. /\ held = Listed \cup InSeq(m_Successors) \cup {m_Goal}
          /\ m_OpenList \cap m_ClosedList = {} /\ n \notin m_OpenList \cup m_ClosedList
          /\ InSeq(m_Successors) \cap Listed = {}
          /\ m_Goal \notin Listed \cup InSeq(m_Successors)
      BY <2>2 DEF IInv, Owned
    <3>2. Cardinality(InSeq(m_Successors)) = Len(m_Successors)
      BY <2>2, DistinctCount DEF IInv, Owned, Typed
    <3> DEFINE owned == {m_OpenList, m_ClosedList, InSeq(m_Successors), {m_Goal},
                         {n} \ {NoNode}}
    <3>3. held = UNION owned
      BY <3>1 DEF Listed
    <3>4. \A S, T \in owned : S = T \/ S \cap T = {}
      BY <3>1 DEF Listed
    <3> QED
      BY <3>2, <3>3, <3>4
  <2> QED
    BY <2>1, <2>2 DEF MemoryAccounted
<1> QED
  BY <1>1, Inductive, PTL

\* The lists never have two nodes for one cell (the linear searches of SearchStep).
THEOREM CellsCorrect == Spec => []OneNodePerCell
<1>1. IInv => OneNodePerCell
  BY DEF IInv
<1> QED
  BY <1>1, Inductive, PTL

\* Following parent from any node on the lists reaches the start, by ever lower costs,
\* although parents are changed behind their children.
THEOREM ParentsCorrect == Spec => []ParentsLeadToStart
<1>1. IInv => ParentsLeadToStart
  BY DEF IInv
<1> QED
  BY <1>1, Inductive, PTL

\* What a successful search leaves is one chain of movements free of collision, from
\* start to goal, linked both ways, and every node held is on it.
THEOREM SolutionCorrect == Spec => []SolutionIsPath
<1>1. IInv => SolutionIsPath
  BY DEF IInv
<1> QED
  BY <1>1, Inductive, PTL

\* A search that was not cancelled and never ran out of nodes fails only when the
\* goal cannot be reached, although GetSuccessors leaves out the way back.
THEOREM FailureCorrect == Spec => []FailureMeansUnreachable
<1>1. IInv => FailureMeansUnreachable
  BY DEF IInv
<1> QED
  BY <1>1, Inductive, PTL

-----------------------------------------------------------------------------
(* What the invariant says about costs, where every movement costs the same. *)

\* A node costs as much as some number of movements, and in that many, or more,
\* the vessel can reach its cell.
Measured ==
  m_State = "SEARCHING" /\ EvenWorld =>
    \A x \in Listed : \E m \in Nat :
      /\ node[x].g = UnitCost * m
      /\ \A k \in 0 .. Cardinality(Cells) : m <= k => at(x) \in ReachableIn[k]

\* A node on the lists for the cell d costs at most one movement more than x.
Near(x, d) == \E z \in Listed : at(z) = d /\ node[z].g <= node[x].g + UnitCost

\* Where a movement leads from a closed node costs at most one movement more, and
\* so it will from the one that is expanded.
Relaxed ==
  m_State = "SEARCHING" /\ EvenWorld /\ "exhausted" \notin excuses =>
    /\ \A x \in m_ClosedList : \A d \in Cells : Leads(at(x), d) => Near(x, d)
    /\ pc = "generate" =>
         \A d \in Cells : Leads(at(n), d) =>
           \/ Near(n, d)
           \/ \E y \in InSeq(m_Successors) : at(y) = d
           \/ \E s \in InSeq(pending) : s.at = d

Shortest == Measured /\ Relaxed /\ SolutionIsShortest

\* Multiples of the cost of a movement.
LEMMA Multiples ==
  ASSUME NEW u \in Nat \ {0}
  PROVE  /\ u * 0 = 0
         /\ \A m \in Nat : u * m \in Nat /\ u * (m + 1) = u * m + u
         /\ \A m, k \in Nat : u * m <= u * k <=> m <= k
<1>1. u * 0 = 0 /\ \A m \in Nat : u * m \in Nat /\ u * (m + 1) = u * m + u
  OBVIOUS
<1>2. \A m, k \in Nat : m <= k => u * m <= u * k
  OBVIOUS
<1>3. \A m, k \in Nat : u * m <= u * k => m <= k
  OBVIOUS
<1> QED
  BY <1>1, <1>2, <1>3

\* What is done and what is left of a way.
LEMMA Split ==
  ASSUME NEW u \in Nat, NEW k \in Nat, NEW j \in Nat, NEW r \in Nat, k = j + r
  PROVE  u * j + u * r = u * k
OBVIOUS

\* ReachesGoalIn is what its recursive definition says.
LEMMA ReachesGoalInIs ==
  ASSUME world \in Worlds
  PROVE  /\ ReachesGoalIn[0] = {world.goal.at}
         /\ \A k \in 1 .. Cardinality(Cells) :
              ReachesGoalIn[k] = ReachesGoalIn[k - 1]
                \cup {c \in Cells : \E d \in ReachesGoalIn[k - 1] : Leads(c, d)}
<1> DEFINE C == Cardinality(Cells)
           V == SUBSET Cells
           a == {world.goal.at}
           step == [U \in V |-> U \cup {c \in Cells : \E d \in U : Leads(c, d)}]
           Reads(r) == r = [k \in 0 .. C |->
                         IF k = 0 THEN {world.goal.at}
                         ELSE r[k - 1]
                           \cup {c \in Cells : \E d \in r[k - 1] : Leads(c, d)}]
<1>1. C \in Nat
  BY SearchAssumption, FS_CardinalityType DEF SearchAssumption
<1>2. step \in [V -> V]
  OBVIOUS
<1>3. a \in V
  BY WorldType
<1> HIDE DEF C
<1>4. PICK h \in Repeats(C, V, a, step) : TRUE
  <2> HIDE DEF step, V, a
  <2> QED
    BY <1>1, <1>2, <1>3, Repeated
<1>5. Reads(h)
  <2>1. ASSUME NEW k \in 0 .. C
        PROVE  h[k] = IF k = 0 THEN {world.goal.at}
                      ELSE h[k - 1]
                        \cup {c \in Cells : \E d \in h[k - 1] : Leads(c, d)}
    <3>1. CASE k = 0
      BY <3>1 DEF Repeats
    <3>2. CASE k # 0
      <4>1. k \in 1 .. C /\ k - 1 \in 0 .. C
        BY <1>1, <3>2
      <4>2. h[k - 1] \in V /\ h[k] = step[h[k - 1]]
        <5> HIDE DEF step, V, a
        <5> QED
          BY <4>1 DEF Repeats
      <4> QED
        BY <3>2, <4>2
    <3> QED
      BY <3>1, <3>2
  <2>2. h = [k \in 0 .. C |-> h[k]]
    BY DEF Repeats
  <2> QED
    BY <2>1, <2>2
<1>6. Reads(ReachesGoalIn)
  <2>1. ReachesGoalIn = CHOOSE r : Reads(r)
    BY DEF ReachesGoalIn, C
  <2> HIDE DEF Reads
  <2> QED
    BY <1>5, <2>1
<1>7. ReachesGoalIn[0] = {world.goal.at}
  BY <1>1, <1>6
<1>8. \A k \in 1 .. C :
        ReachesGoalIn[k] = ReachesGoalIn[k - 1]
          \cup {c \in Cells : \E d \in ReachesGoalIn[k - 1] : Leads(c, d)}
  <2> TAKE k \in 1 .. C
  <2>1. k \in 0 .. C /\ k # 0
    OBVIOUS
  <2> QED
    BY <1>6, <2>1
<1> QED
  BY <1>7, <1>8 DEF C

\* What an even world is, in terms of its one cost.
LEMMA Even ==
  ASSUME world \in Worlds, EvenWorld
  PROVE  /\ UnitCost \in Nat \ {0}
         /\ \A s, t \in UserStates : Cost(world.cost_map, s, t) = UnitCost
         /\ world.h \in [Cells -> Nat] /\ world.goal.at \in Cells
         /\ world.h[world.goal.at] = 0
         /\ \A k \in 0 .. Cardinality(Cells) : \A c \in ReachesGoalIn[k] :
              world.h[c] <= UnitCost * k
<1>1. /\ world.start \in UserStates /\ world.goal \in UserStates
      /\ world.h \in [Cells -> Nat] /\ world.goal.at \in Cells
  BY WorldType
<1>2. UnitCost \in Nat \ {0}
  BY <1>1, CostType DEF UnitCost
<1>3. \A k \in 0 .. Cardinality(Cells) : \A c \in ReachesGoalIn[k] :
        world.h[c] <= UnitCost * k
  BY DEF EvenWorld
<1>4. world.h[world.goal.at] = 0
  <2>1. 0 \in 0 .. Cardinality(Cells) /\ world.goal.at \in ReachesGoalIn[0]
    BY ReachableInIs, ReachesGoalInIs
  <2>2. world.h[world.goal.at] <= UnitCost * 0
    BY <1>3, <2>1
  <2>3. UnitCost * 0 = 0
    BY <1>2, Multiples
  <2>4. world.h[world.goal.at] \in Nat
    BY <1>1
  <2> QED
    BY <2>2, <2>3, <2>4
<1> QED
  BY <1>1, <1>2, <1>3, <1>4 DEF EvenWorld

\* What the world decides stays with it.
LEMMA SameWorld ==
  ASSUME UNCHANGED world
  PROVE  /\ UnitCost' = UnitCost /\ (EvenWorld' <=> EvenWorld)
         /\ ReachableIn' = ReachableIn
<1>1. UnitCost' = UnitCost
  BY DEF UnitCost
<1>2. ReachesGoalIn' = ReachesGoalIn /\ ReachableIn' = ReachableIn
  BY DEF ReachesGoalIn, ReachableIn, Leads, InSeq
<1>3. EvenWorld' <=> EvenWorld
  BY <1>1, <1>2 DEF EvenWorld
<1> QED
  BY <1>1, <1>2, <1>3

\* More movements reach more cells.
LEMMA ReachesMore ==
  ASSUME world \in Worlds, NEW j \in 0 .. Cardinality(Cells),
         NEW k \in 0 .. Cardinality(Cells), j <= k
  PROVE  ReachableIn[j] \subseteq ReachableIn[k]
<1> DEFINE C == Cardinality(Cells)
           K == {l \in Nat : j <= l /\ l <= C => ReachableIn[j] \subseteq ReachableIn[l]}
<1>1. C \in Nat /\ j \in Nat /\ k \in Nat /\ k <= C
  BY ReachableInIs
<1>2. 0 \in K
  BY <1>1
<1>3. ASSUME NEW l \in Nat, l \in K
      PROVE  l + 1 \in K
  <2> SUFFICES ASSUME j <= l + 1, l + 1 <= C
               PROVE  ReachableIn[j] \subseteq ReachableIn[l + 1]
    OBVIOUS
  <2>1. CASE j = l + 1
    BY <2>1
  <2>2. CASE j <= l
    <3>1. l + 1 \in 1 .. C /\ l + 1 - 1 = l /\ l <= C
      BY <1>1
    <3>2. ReachableIn[l] \subseteq ReachableIn[l + 1]
      BY <3>1, ReachableInIs
    <3> QED
      BY <1>3, <2>2, <3>1, <3>2
  <2> QED
    BY <1>1, <2>1, <2>2
<1>4. k \in K
  <2> HIDE DEF K
  <2> QED
    BY <1>1, <1>2, <1>3, Induction
<1> QED
  BY <1>1, <1>4

\* As many movements as there are cells reach all that can be reached.
LEMMA ReachableClosed ==
  ASSUME world \in Worlds
  PROVE  \A c \in Reachable : \A d \in Cells : Leads(c, d) => d \in Reachable
<1> DEFINE C == Cardinality(Cells)
           Closed(U) == \A c \in U : \A d \in Cells : Leads(c, d) => d \in U
           K == {k \in Nat : k <= C =>
                   /\ ReachableIn[k] \subseteq Cells
                   /\ Closed(ReachableIn[k]) \/ Cardinality(ReachableIn[k]) >= k + 1}
<1>1. C \in Nat /\ IsFiniteSet(Cells) /\ world.start.at \in Cells
  BY ReachableInIs, WorldType, SearchAssumption DEF SearchAssumption
<1>2. \A U \in SUBSET Cells : /\ IsFiniteSet(U) /\ Cardinality(U) \in Nat
                              /\ Cardinality(U) <= C
  BY <1>1, FS_Subset, FS_CardinalityType
<1>3. 0 \in K
  <2>1. ReachableIn[0] = {world.start.at}
    BY ReachableInIs
  <2>2. Cardinality({world.start.at}) = 1
    BY FS_Singleton
  <2> QED
    BY <1>1, <2>1, <2>2
<1>4. ASSUME NEW k \in Nat, k \in K
      PROVE  k + 1 \in K
  <2> SUFFICES ASSUME k + 1 <= C
               PROVE  /\ ReachableIn[k + 1] \subseteq Cells
                      /\ \/ Closed(ReachableIn[k + 1])
                         \/ Cardinality(ReachableIn[k + 1]) >= k + 2
    OBVIOUS
  <2>1. k + 1 \in 1 .. C /\ k + 1 - 1 = k /\ k <= C
    BY <1>1
  <2>2. ReachableIn[k + 1] = ReachableIn[k]
          \cup {d \in Cells : \E c \in ReachableIn[k] : Leads(c, d)}
    BY <2>1, ReachableInIs
  <2>3. /\ ReachableIn[k] \subseteq Cells
        /\ Closed(ReachableIn[k]) \/ Cardinality(ReachableIn[k]) >= k + 1
    BY <1>4, <2>1
  <2>4. ReachableIn[k + 1] \subseteq Cells
    BY <2>2, <2>3
  <2>5. CASE Closed(ReachableIn[k])
    <3>1. ReachableIn[k + 1] = ReachableIn[k]
      BY <2>2, <2>5
    <3> QED
      BY <2>3, <2>5, <3>1
  <2>6. CASE ~Closed(ReachableIn[k])
    <3>1. PICK c \in ReachableIn[k], d \in Cells : Leads(c, d) /\ d \notin ReachableIn[k]
      BY <2>6
    <3>2. ReachableIn[k] \subseteq ReachableIn[k + 1] /\ ReachableIn[k] # ReachableIn[k + 1]
      BY <2>2, <3>1
    <3>3. IsFiniteSet(ReachableIn[k + 1]) /\ Cardinality(ReachableIn[k + 1]) \in Nat
            /\ Cardinality(ReachableIn[k]) \in Nat
      BY <1>2, <2>3, <2>4
    <3>4. Cardinality(ReachableIn[k]) <= Cardinality(ReachableIn[k + 1])
            /\ Cardinality(ReachableIn[k + 1]) # Cardinality(ReachableIn[k])
      BY <3>2, <3>3, FS_Subset
    <3> QED
      BY <2>3, <2>4, <2>6, <3>3, <3>4
  <2> QED
    BY <2>5, <2>6
<1>5. C \in K
  <2> HIDE DEF K
  <2> QED
    BY <1>1, <1>3, <1>4, Induction
<1>6. /\ Reachable \subseteq Cells
      /\ Closed(Reachable) \/ Cardinality(Reachable) >= C + 1
  BY <1>1, <1>5 DEF Reachable
<1>7. Closed(Reachable)
  <2>1. Cardinality(Reachable) \in Nat /\ Cardinality(Reachable) <= C
    BY <1>2, <1>6
  <2> QED
    BY <1>1, <1>6, <2>1
<1> QED
  BY <1>7

\* Steps is the least number of movements.
LEMMA StepsIs ==
  ASSUME world \in Worlds, NEW c \in Reachable
  PROVE  /\ Steps(c) \in 0 .. Cardinality(Cells) /\ c \in ReachableIn[Steps(c)]
         /\ \A j \in 0 .. Cardinality(Cells) : c \in ReachableIn[j] => Steps(c) <= j
<1> DEFINE C == Cardinality(Cells)
           G == {k \in 0 .. C : c \in ReachableIn[k]}
           First(k) == c \in ReachableIn[k] /\ (k = 0 \/ c \notin ReachableIn[k - 1])
<1>1. C \in Nat
  BY ReachableInIs
<1>2. C \in G
  BY <1>1 DEF Reachable
<1>3. PICK m \in G : \A k \in G : m <= k
  <2>1. G \in SUBSET Nat /\ G # {}
    BY <1>2
  <2> HIDE DEF G
  <2> QED
    BY <2>1, Least
<1>4. First(m)
  BY <1>1, <1>3
<1>5. Steps(c) \in 0 .. C /\ First(Steps(c))
  BY <1>3, <1>4 DEF Steps
<1>6. ASSUME NEW j \in 0 .. C, c \in ReachableIn[j], ~(Steps(c) <= j)
      PROVE  FALSE
  <2>1. Steps(c) - 1 \in 0 .. C /\ j <= Steps(c) - 1
    BY <1>1, <1>5, <1>6
  <2>2. c \in ReachableIn[Steps(c) - 1]
    BY <1>6, <2>1, ReachesMore
  <2> QED
    BY <1>1, <1>5, <1>6, <2>2
<1> QED
  BY <1>5, <1>6

\* Every node on the lists is at a cell that can be reached.
LEMMA ListedReachable ==
  ASSUME IInv, m_State = "SEARCHING", NEW x \in Listed
  PROVE  at(x) \in Reachable
<1> DEFINE T == {y \in Listed : at(y) \notin Reachable}
           G == {node[y].g : y \in T}
<1> SUFFICES ASSUME T # {}
             PROVE  FALSE
  OBVIOUS
<1>1. Listed \subseteq Nodes /\ world \in Worlds /\ m_Start \in Listed
  BY Searching
<1>2. G \in SUBSET Nat /\ G # {}
  BY <1>1, NodeType DEF IInv
<1>3. PICK least \in G : \A k \in G : least <= k
  <2> HIDE DEF G
  <2> QED
    BY <1>2, Least
<1>4. PICK y \in T : \A z \in T : node[y].g <= node[z].g
  BY <1>3
<1>5. y # m_Start
  <2>1. at(m_Start) = world.start.at
    BY DEF IInv, Rooted, at
  <2>2. world.start.at \in Reachable
    <3>1. Cardinality(Cells) \in Nat
      BY <1>1, ReachableInIs
    <3>2. ReachableIn[0] \subseteq ReachableIn[Cardinality(Cells)]
      BY <1>1, <3>1, ReachesMore
    <3> QED
      BY <1>1, <3>2, ReachableInIs DEF Reachable
  <2> QED
    BY <2>1, <2>2
<1>6. /\ node[y].parent \in Listed /\ node[node[y].parent].g < node[y].g
      /\ Leads(at(node[y].parent), at(y)) /\ at(y) \in Cells
      /\ node[y].g \in Nat /\ node[node[y].parent].g \in Nat
  BY <1>1, <1>5, NodeType DEF IInv, ParentsLeadToStart, StepsAreMoves, Listed
<1>7. node[y].parent \notin T
  BY <1>4, <1>6
<1> QED
  BY <1>1, <1>6, <1>7, ReachableClosed

\* Movements lead from cells to cells.
LEMMA LeadsToCells ==
  ASSUME world \in Worlds, NEW c \in Cells, NEW d, Leads(c, d)
  PROVE  d \in Cells
<1>1. Moves[c] \in Seq(UserStates)
  BY SearchAssumption DEF SearchAssumption
<1>2. PICK i \in DOMAIN Moves[c] : Moves[c][i].at = d
  BY DEF Leads, InSeq
<1>3. Moves[c][i] \in UserStates
  BY <1>1, <1>2
<1> QED
  BY <1>2, <1>3 DEF UserStates

\* What is reached are cells.
LEMMA ReachableCells ==
  ASSUME world \in Worlds, NEW k \in 0 .. Cardinality(Cells)
  PROVE  ReachableIn[k] \subseteq Cells
<1>1. CASE k = 0
  BY <1>1, ReachableInIs, WorldType
<1>2. CASE k # 0
  <2>1. Cardinality(Cells) \in Nat
    BY ReachableInIs
  <2> DEFINE S == {j \in Nat : j <= Cardinality(Cells) => ReachableIn[j] \subseteq Cells}
  <2>2. 0 \in S
    BY ReachableInIs, WorldType
  <2>3. ASSUME NEW j \in Nat, j \in S
        PROVE  j + 1 \in S
    <3>1. CASE j + 1 <= Cardinality(Cells)
      <4>1. j + 1 \in 1 .. Cardinality(Cells) /\ j + 1 - 1 = j /\ j <= Cardinality(Cells)
        BY <2>1, <3>1
      <4>2. ReachableIn[j + 1] = ReachableIn[j]
              \cup {d \in Cells : \E c \in ReachableIn[j] : Leads(c, d)}
        BY <4>1, ReachableInIs
      <4> QED
        BY <2>3, <4>1, <4>2
    <3>2. CASE ~(j + 1 <= Cardinality(Cells))
      BY <3>2
    <3> QED
      BY <3>1, <3>2
  <2>4. k \in S
    <3> HIDE DEF S
    <3> QED
      BY <2>1, <2>2, <2>3, Induction
  <2> QED
    BY <2>1, <2>4
<1> QED
  BY <1>1, <1>2

\* When the goal is reached in k movements, the start is as many from it.
LEMMA OnTheWay ==
  ASSUME world \in Worlds, NEW k \in 0 .. Cardinality(Cells),
         world.goal.at \in ReachableIn[k]
  PROVE  world.start.at \in ReachesGoalIn[k]
<1> DEFINE C == Cardinality(Cells)
           J == {j \in Nat : j <= k =>
                   \E c \in ReachableIn[k - j] : c \in ReachesGoalIn[j]}
<1>1. C \in Nat /\ k \in Nat /\ k <= C
  BY ReachableInIs
<1>2. 0 \in J
  <2>1. k - 0 = k /\ world.goal.at \in ReachesGoalIn[0]
    BY <1>1, ReachesGoalInIs
  <2> QED
    BY <2>1
<1>3. ASSUME NEW j \in Nat, j \in J
      PROVE  j + 1 \in J
  <2> SUFFICES ASSUME j + 1 <= k
               PROVE  \E c \in ReachableIn[k - (j + 1)] : c \in ReachesGoalIn[j + 1]
    OBVIOUS
  <2>1. PICK i \in Nat : i = k - (j + 1)
    BY <1>1
  <2>2. /\ i + 1 \in 1 .. C /\ i + 1 - 1 = i /\ k - j = i + 1
        /\ j + 1 \in 1 .. C /\ j + 1 - 1 = j /\ j <= k
    BY <1>1, <2>1
  <2>3. PICK c \in ReachableIn[i + 1] : c \in ReachesGoalIn[j]
    BY <1>3, <2>2
  <2>4. ReachableIn[i + 1] = ReachableIn[i]
          \cup {d \in Cells : \E b \in ReachableIn[i] : Leads(b, d)}
    BY <2>2, ReachableInIs
  <2>5. ReachesGoalIn[j + 1] = ReachesGoalIn[j]
          \cup {b \in Cells : \E d \in ReachesGoalIn[j] : Leads(b, d)}
    BY <2>2, ReachesGoalInIs
  <2>6. CASE c \in ReachableIn[i]
    BY <2>1, <2>3, <2>5, <2>6
  <2>7. CASE c \notin ReachableIn[i]
    <3>1. PICK b \in ReachableIn[i] : Leads(b, c)
      BY <2>3, <2>4, <2>7
    <3>2. b \in Cells
      <4>1. i \in 0 .. C
        BY <1>1, <2>2
      <4>2. ReachableIn[i] \subseteq Cells
        BY <4>1, ReachableCells
      <4> QED
        BY <4>2
    <3>3. b \in ReachesGoalIn[j + 1]
      BY <2>3, <2>5, <3>1, <3>2
    <3> QED
      BY <2>1, <3>3
  <2> QED
    BY <2>6, <2>7
<1>4. k \in J
  <2> HIDE DEF J
  <2> QED
    BY <1>1, <1>2, <1>3, Induction
<1>5. k - k = 0 /\ ReachableIn[0] = {world.start.at}
  BY <1>1, ReachableInIs
<1> QED
  BY <1>1, <1>4, <1>5

\* The node of the goal that is popped costs no more than the least number of
\* movements: on a shortest way to it, the first node that is not closed would have
\* been popped before it.
LEMMA Optimal ==
  ASSUME IInv, Measured, Relaxed, pc = "step", EvenWorld, "exhausted" \notin excuses,
         NEW x \in Best, at(x) = world.goal.at
  PROVE  node[x].g = UnitCost * Steps(world.goal.at)
<1> DEFINE C == Cardinality(Cells)
           U == UnitCost
           K == Steps(world.goal.at)
           P == {j \in Nat : j <= K =>
                   \E z \in Listed : /\ at(z) \in ReachesGoalIn[K - j]
                                     /\ node[z].g <= U * j}
<1>1. /\ m_State = "SEARCHING" /\ n = NoNode /\ world \in Worlds
      /\ Listed = m_OpenList \cup m_ClosedList /\ x \in Listed
      /\ \A y \in m_OpenList : f(x) <= f(y)
  BY DEF IInv, Phased, Typed, Best, Listed
<1>2. /\ Listed \subseteq Nodes /\ m_Start \in Listed
      /\ \A z \in Listed : node[z].g \in Nat /\ at(z) \in Cells
  BY <1>1, Searching, NodeType DEF IInv
<1>3. /\ U \in Nat \ {0} /\ world.h \in [Cells -> Nat]
      /\ world.h[world.goal.at] = 0
      /\ \A k \in 0 .. C : \A c \in ReachesGoalIn[k] : world.h[c] <= U * k
  BY <1>1, Even
<1>4. C \in Nat /\ K \in 0 .. C /\ world.goal.at \in ReachableIn[K]
        /\ \A j \in 0 .. C : world.goal.at \in ReachableIn[j] => K <= j
  <2>1. world.goal.at \in Reachable
    BY <1>1, ListedReachable
  <2> QED
    BY <1>1, <2>1, StepsIs, ReachableInIs
<1>5. world.start.at \in ReachesGoalIn[K]
  BY <1>1, <1>4, OnTheWay
<1> HIDE DEF U, K, C
<1>6. ASSUME ~(node[x].g <= U * K)
      PROVE  FALSE
  <2>1. 0 \in P
    <3>1. at(m_Start) = world.start.at /\ node[m_Start].g = 0
      BY <1>1, <1>2 DEF IInv, Rooted, ParentsLeadToStart, Listed, at
    <3>2. U * 0 = 0 /\ K - 0 = K
      BY <1>3, <1>4, Multiples
    <3> QED
      BY <1>2, <1>5, <3>1, <3>2
  <2>2. ASSUME NEW j \in Nat, j \in P
        PROVE  j + 1 \in P
    <3> SUFFICES ASSUME j + 1 <= K
                 PROVE  \E z \in Listed : /\ at(z) \in ReachesGoalIn[K - (j + 1)]
                                          /\ node[z].g <= U * (j + 1)
      OBVIOUS
    <3>1. PICK r \in Nat : r = K - (j + 1)
      BY <1>4
    <3>2. /\ r + 1 \in 1 .. C /\ r + 1 - 1 = r /\ K - j = r + 1 /\ j <= K
          /\ r + 1 \in 0 .. C /\ K \in Nat
      BY <1>4, <3>1
    <3>3. /\ U * j \in Nat /\ U * (j + 1) = U * j + U /\ U * (r + 1) \in Nat
          /\ U * j + U * (r + 1) = U * K
      BY <1>3, <3>1, <3>2, Multiples, Split
    <3>4. PICK z \in Listed : at(z) \in ReachesGoalIn[r + 1] /\ node[z].g <= U * j
      BY <2>2, <3>2
    <3>5. z \in m_ClosedList
      <4>1. ASSUME z \in m_OpenList
            PROVE  FALSE
        <5>1. f(x) <= f(z)
          BY <1>1, <4>1
        <5>2. f(x) = node[x].g + 0 /\ f(z) = node[z].g + world.h[at(z)]
          BY <1>3 DEF f
        <5>3. world.h[at(z)] \in Nat /\ world.h[at(z)] <= U * (r + 1)
          BY <1>2, <1>3, <3>2, <3>4
        <5>4. node[x].g \in Nat /\ node[z].g \in Nat
          BY <1>1, <1>2
        <5> QED
          BY <1>6, <3>3, <3>4, <5>1, <5>2, <5>3, <5>4
      <4> QED
        BY <1>1, <4>1
    <3>6. CASE at(z) \in ReachesGoalIn[r]
      <4>1. node[z].g <= U * (j + 1)
        BY <1>2, <1>3, <3>3, <3>4
      <4> QED
        BY <3>1, <3>6, <4>1
    <3>7. CASE at(z) \notin ReachesGoalIn[r]
      <4>1. PICK d \in ReachesGoalIn[r] : Leads(at(z), d)
        <5>1. ReachesGoalIn[r + 1] = ReachesGoalIn[r]
                \cup {c \in Cells : \E d \in ReachesGoalIn[r] : Leads(c, d)}
          BY <1>1, <3>2, ReachesGoalInIs DEF C
        <5> QED
          BY <3>4, <3>7, <5>1
      <4>2. Near(z, d)
        <5>1. d \in Cells
          BY <1>1, <1>2, <4>1, LeadsToCells
        <5> QED
          BY <1>1, <3>5, <4>1, <5>1 DEF Relaxed
      <4>3. PICK w \in Listed : at(w) = d /\ node[w].g <= node[z].g + U
        BY <4>2 DEF Near, U
      <4>4. node[w].g <= U * (j + 1)
        BY <1>2, <1>3, <3>3, <3>4, <4>3
      <4> QED
        BY <3>1, <4>1, <4>3, <4>4
    <3> QED
      BY <3>6, <3>7
  <2>3. K \in P
    <3> HIDE DEF P
    <3> QED
      BY <1>4, <2>1, <2>2, Induction
  <2>4. PICK z \in Listed : at(z) = world.goal.at /\ node[z].g <= U * K
    <3>1. K - K = 0 /\ K <= K /\ ReachesGoalIn[0] = {world.goal.at}
      BY <1>1, <1>4, ReachesGoalInIs
    <3> QED
      BY <2>3, <3>1
  <2>5. z = x
    BY <1>1, <2>4 DEF IInv, OneNodePerCell, Listed
  <2> QED
    BY <1>6, <2>4, <2>5
<1>7. PICK m \in Nat : /\ node[x].g = U * m
                       /\ \A k \in 0 .. C : m <= k => world.goal.at \in ReachableIn[k]
  BY <1>1 DEF Measured, U, C
<1>8. m <= K
  BY <1>3, <1>4, <1>6, <1>7, Multiples
<1>9. K <= m
  BY <1>4, <1>7, <1>8
<1>10. m = K
  BY <1>4, <1>8, <1>9
<1> QED
  BY <1>7, <1>10 DEF U, K

-----------------------------------------------------------------------------
(* A lemma for every step again.                                           *)

\* The costs are the same as long as the nodes and the world are.
LEMMA SameCosts ==
  ASSUME IInv, m_State = "SEARCHING", UNCHANGED <<m_State, world>>,
         Listed' = Listed, \A y \in held : node'[y] = node[y]
  PROVE  /\ UnitCost' = UnitCost /\ (EvenWorld' <=> EvenWorld)
         /\ ReachableIn' = ReachableIn
         /\ \A y \in held : at(y)' = at(y)
         /\ \A c, d : Leads(c, d)' <=> Leads(c, d)
         /\ \A x \in held : \A d : Near(x, d)' <=> Near(x, d)
         /\ Measured => Measured'
<1>1. UnitCost' = UnitCost /\ (EvenWorld' <=> EvenWorld)
  BY SameWorld
<1>2. ReachableIn' = ReachableIn
  BY SameWorld
<1>3. Listed \subseteq held /\ \A y \in held : at(y)' = at(y)
  BY Searching DEF at
<1>4. \A c, d : Leads(c, d)' <=> Leads(c, d)
  BY DEF Leads, InSeq
<1>5. \A x \in held : \A d : Near(x, d)' <=> Near(x, d)
  BY <1>1, <1>3 DEF Near, at
<1>6. ASSUME Measured
      PROVE  Measured'
  <2> SUFFICES ASSUME EvenWorld, NEW x \in Listed
               PROVE  \E m \in Nat :
                        /\ node'[x].g = UnitCost' * m
                        /\ \A k \in 0 .. Cardinality(Cells) :
                             m <= k => node'[x].user.at \in ReachableIn'[k]
    BY <1>1 DEF Measured, at
  <2>1. node'[x] = node[x]
    BY <1>3
  <2> QED
    BY <1>1, <1>2, <1>6, <2>1 DEF Measured, at
<1> QED
  BY <1>1, <1>2, <1>3, <1>4, <1>5, <1>6

\* Only a search that goes on is measured, and only one that succeeds is judged.
LEMMA NothingMeasured ==
  /\ m_State' # "SEARCHING" => Measured' /\ Relaxed'
  /\ ~(pc' = "shot" /\ m_State' = "SUCCEEDED") => SolutionIsShortest'
BY DEF Measured, Relaxed, SolutionIsShortest

\* After no movement, or any, the start is reached.
LEMMA StartReachable ==
  world \in Worlds =>
    \A k \in 0 .. Cardinality(Cells) : world.start.at \in ReachableIn[k]
<1> SUFFICES ASSUME world \in Worlds, NEW k \in 0 .. Cardinality(Cells)
             PROVE  world.start.at \in ReachableIn[k]
  OBVIOUS
<1>1. Cardinality(Cells) \in Nat /\ ReachableIn[0] = {world.start.at}
  BY ReachableInIs
<1>2. ReachableIn[0] \subseteq ReachableIn[k]
  BY <1>1, ReachesMore
<1> QED
  BY <1>1, <1>2

\* So it is for the world of the next search.
LEMMA NextStartReachable ==
  (world \in Worlds =>
     \A k \in 0 .. Cardinality(Cells) : world.start.at \in ReachableIn[k])'
BY StartReachable, PTL

\* The cost of a movement is positive after a step as well.
LEMMA NextCost == (world \in Worlds => UnitCost \in Nat \ {0})'
<1>1. world \in Worlds => UnitCost \in Nat \ {0}
  BY WorldType, CostType DEF UnitCost
<1> QED
  BY <1>1, PTL

\* A new search knows only its start.
LEMMA StartShortest ==
  ASSUME IInv, SetStartAndGoalStates
  PROVE  Shortest'
<1> USE StartNodes
<1>1. Listed' = {m_Start'}
  BY DEF Listed
<1>2. /\ node'[m_Start'].g = 0 /\ node'[m_Start'].user.at = world'.start.at
  BY DEF Fresh
<1>3. Measured'
  <2> SUFFICES \E m \in Nat :
                 /\ 0 = UnitCost' * m
                 /\ \A k \in 0 .. Cardinality(Cells) :
                      m <= k => world'.start.at \in ReachableIn'[k]
    BY <1>1, <1>2 DEF Measured, at
  <2>1. UnitCost' \in Nat \ {0}
    BY NextCost
  <2>2. UnitCost' * 0 = 0
    <3>1. \A u \in Nat \ {0} : u * 0 = 0
      BY Multiples
    <3> HIDE StartNodes
    <3> QED
      BY <2>1, <3>1
  <2>3. \A k \in 0 .. Cardinality(Cells) : world'.start.at \in ReachableIn'[k]
    BY NextStartReachable
  <2> QED
    BY <2>2, <2>3
<1>4. Relaxed'
  BY DEF Relaxed
<1> QED
  BY <1>3, <1>4, NothingMeasured DEF Shortest

\* The goal is popped: no node on a shortest way to it can be missing.
LEMMA ReachGoalShortest ==
  ASSUME IInv, Shortest, NEW x \in m_OpenList, ReachGoal(x)
  PROVE  Shortest'
<1>1. /\ pc = "step" /\ m_State = "SEARCHING" /\ x \in Best
      /\ m_State' = "SUCCEEDED" /\ at(x) = at(m_Goal)
      /\ UNCHANGED <<m_Goal, world, excuses>>
  BY DEF IInv, Phased, ReachGoal, Pop
<1>2. at(m_Goal) = world.goal.at
  BY <1>1, Searching
<1>3. node'[m_Goal].g = node[x].g
  <2>1. CASE x = m_Start
    BY <2>1, StartReached
  <2>2. CASE x # m_Start
    BY <2>2, GoalReached
  <2> QED
    BY <2>1, <2>2
<1>4. SolutionIsShortest'
  <2>1. EvenWorld /\ "exhausted" \notin excuses
          => node[x].g = UnitCost * Steps(world.goal.at)
    BY <1>1, <1>2, Optimal DEF Shortest
  <2>2. /\ EvenWorld' <=> EvenWorld
        /\ (UnitCost * Steps(world.goal.at))' = UnitCost * Steps(world.goal.at)
    <3>1. /\ EvenWorld' <=> EvenWorld
          /\ UnitCost' = UnitCost /\ ReachableIn' = ReachableIn
      BY <1>1, SameWorld
    <3> QED
      BY <1>1, <3>1 DEF Steps
  <2> QED
    BY <1>1, <1>3, <2>1, <2>2 DEF SolutionIsShortest
<1> QED
  BY <1>1, <1>4, NothingMeasured DEF Shortest

\* The node taken off the heap has all its movements before it.
LEMMA ExpandShortest ==
  ASSUME IInv, Shortest, NEW x \in m_OpenList, Expand(x)
  PROVE  Shortest'
<1>1. /\ m_State = "SEARCHING" /\ n = NoNode
      /\ pending' = Moves[at(x)] /\ m_OpenList' = m_OpenList \ {x} /\ n' = x
      /\ pc' = "generate" /\ node' = node
      /\ UNCHANGED <<m_ClosedList, m_State, world, excuses>>
  BY DEF IInv, Phased, Expand, Pop, search
<1>2. x \in Listed /\ x \in Nodes /\ x \in held /\ m_ClosedList \subseteq held
  BY <1>1, Searching DEF Listed
<1>3. Listed' = Listed
  BY <1>1, <1>2, PoolSize DEF Listed
<1>4. /\ EvenWorld' <=> EvenWorld
      /\ \A y \in held : at(y)' = at(y)
      /\ \A c, d : Leads(c, d)' <=> Leads(c, d)
      /\ \A y \in held : \A d : Near(y, d)' <=> Near(y, d)
      /\ Measured'
  BY <1>1, <1>3, SameCosts DEF Shortest
<1>5. Relaxed'
  <2> SUFFICES ASSUME EvenWorld, "exhausted" \notin excuses
               PROVE  /\ \A y \in m_ClosedList : \A d \in Cells :
                           Leads(at(y), d) => Near(y, d)
                      /\ \A d \in Cells : Leads(at(x), d) =>
                           \E s \in InSeq(pending)' : s.at = d
    BY <1>1, <1>2, <1>4 DEF Relaxed, at, Leads, Near
  <2>1. \A y \in m_ClosedList : \A d \in Cells : Leads(at(y), d) => Near(y, d)
    BY <1>1 DEF Shortest, Relaxed
  <2>2. InSeq(pending)' = InSeq(Moves[at(x)])
    BY <1>1 DEF InSeq
  <2>3. \A d \in Cells : Leads(at(x), d) => \E s \in InSeq(Moves[at(x)]) : s.at = d
    BY DEF Leads
  <2> QED
    BY <2>1, <2>2, <2>3
<1> QED
  BY <1>1, <1>4, <1>5, NothingMeasured DEF Shortest

\* It is closed when they all have been tried.
LEMMA CloseShortest ==
  ASSUME IInv, Shortest, Close
  PROVE  Shortest'
<1>1. /\ pc = "generate" /\ m_State = "SEARCHING" /\ n \in Nodes
      /\ m_Successors = << >> /\ pending = << >>
      /\ m_ClosedList' = m_ClosedList \cup {n} /\ n' = NoNode /\ pc' = "shot"
      /\ UNCHANGED <<node, m_OpenList, m_State, world, excuses>>
  BY DEF IInv, Phased, Close, search
<1>2. Listed' = Listed /\ n \in held /\ m_ClosedList \subseteq held
  BY <1>1, PoolSize, Searching DEF Listed
<1>3. /\ EvenWorld' <=> EvenWorld
      /\ \A y \in held : at(y)' = at(y)
      /\ \A c, d : Leads(c, d)' <=> Leads(c, d)
      /\ \A y \in held : \A d : Near(y, d)' <=> Near(y, d)
      /\ Measured'
  BY <1>1, <1>2, SameCosts DEF Shortest
<1>4. Relaxed'
  <2> SUFFICES ASSUME EvenWorld, "exhausted" \notin excuses
               PROVE  \A y \in m_ClosedList \cup {n} : \A d \in Cells :
                        Leads(at(y), d) => Near(y, d)
    BY <1>1, <1>2, <1>3 DEF Relaxed, at, Leads, Near
  <2>1. InSeq(m_Successors) = {} /\ InSeq(pending) = {}
    BY <1>1 DEF InSeq
  <2> QED
    BY <1>1, <2>1 DEF Shortest, Relaxed
<1> QED
  BY <1>1, <1>3, <1>4, NothingMeasured DEF Shortest

\* A movement is left out only when it leads back to the parent, which is cheaper.
LEMMA AddSuccessorShortest ==
  ASSUME IInv, Shortest, AddSuccessor
  PROVE  Shortest'
<1>. PICK s : s = Head(pending)
  OBVIOUS
<1>1. /\ pc = "generate" /\ m_State = "SEARCHING" /\ n \in Nodes /\ n # NoNode
      /\ pending # << >> /\ pending' = Tail(pending)
      /\ UNCHANGED <<m_OpenList, m_ClosedList, n, m_State, world, pc>>
  BY PoolSize DEF IInv, Phased, AddSuccessor, lists, search
<1>2. /\ Listed' = Listed /\ n \in Listed /\ n \in held /\ m_ClosedList \subseteq held
      /\ InSeq(m_Successors) \subseteq held /\ Listed \subseteq Nodes
  BY <1>1, Searching DEF Listed, IInv, Owned
<1>3. InSeq(pending) = {s} \cup InSeq(pending)'
  <2>1. InSeq(pending) = {s} \cup InSeq(pending')
    BY <1>1, TailOf DEF IInv, Typed
  <2> QED
    BY <2>1 DEF InSeq
<1>4. \/ ~Kept(s) /\ UNCHANGED <<pool, node, m_Successors, excuses>>
      \/ excuses' = excuses \cup {"exhausted"} /\ UNCHANGED node
      \/ \E x \in Nodes \ held : /\ node' = [node EXCEPT ![x] = Fresh(s)]
                                 /\ m_Successors' = Append(m_Successors, x)
                                 /\ excuses' = excuses
  <2>1. held # Nodes => Unused(held) \in Nodes \ held
    BY UnusedType DEF IInv, Typed
  <2> QED
    BY <2>1 DEF AddSuccessor
<1>5. \A y \in held : node'[y] = node[y]
  <2>1. node \in [Nodes -> NodeContents] /\ held \subseteq Nodes
    BY DEF IInv, Typed
  <2>2. \A x \in Nodes \ held : node' = [node EXCEPT ![x] = Fresh(s)]
                                 => \A y \in held : node'[y] = node[y]
    BY <2>1
  <2> QED
    BY <1>4, <2>2
<1>6. /\ EvenWorld' <=> EvenWorld
      /\ \A y \in held : at(y)' = at(y)
      /\ \A c, d : Leads(c, d)' <=> Leads(c, d)
      /\ \A y \in held : \A d : Near(y, d)' <=> Near(y, d)
      /\ Measured'
  BY <1>1, <1>2, <1>5, SameCosts DEF Shortest
<1>7. Relaxed'
  <2> SUFFICES ASSUME EvenWorld, "exhausted" \notin excuses'
               PROVE  /\ \A y \in m_ClosedList : \A d \in Cells :
                           Leads(at(y), d) => Near(y, d)
                      /\ \A d \in Cells : Leads(at(n), d) =>
                           \/ Near(n, d)
                           \/ \E y \in InSeq(m_Successors)' : at(y)' = d
                           \/ \E t \in InSeq(pending)' : t.at = d
    BY <1>1, <1>2, <1>6 DEF Relaxed, at, Leads
  <2>1. "exhausted" \notin excuses
    BY <1>4
  <2>2. /\ \A y \in m_ClosedList : \A d \in Cells : Leads(at(y), d) => Near(y, d)
        /\ \A d \in Cells : Leads(at(n), d) =>
             \/ Near(n, d)
             \/ \E y \in InSeq(m_Successors) : at(y) = d
             \/ \E t \in InSeq(pending) : t.at = d
    BY <1>1, <2>1 DEF Shortest, Relaxed
  <2>3. CASE ~Kept(s) /\ UNCHANGED <<pool, node, m_Successors, excuses>>
    <3>1. ASSUME Leads(at(n), s.at)
          PROVE  Near(n, s.at)
      <4>1. s.at \notin world.blocked
        BY <3>1 DEF Leads
      <4>2. node[n].parent # NoNode /\ s.at = at(node[n].parent)
        BY <2>3, <4>1 DEF Kept
      <4>3. node[n].parent \in Listed /\ node[node[n].parent].g < node[n].g
        BY <1>1, <1>2, <4>2 DEF IInv, ParentsLeadToStart, Listed
      <4>4. /\ node[node[n].parent].g \in Nat /\ node[n].g \in Nat
            /\ UnitCost \in Nat \ {0}
        BY <1>2, <4>3, NodeType, Even DEF IInv, Typed
      <4>5. node[node[n].parent].g <= node[n].g + UnitCost
        BY <4>3, <4>4
      <4> QED
        BY <4>2, <4>3, <4>5 DEF Near
    <3>2. InSeq(m_Successors)' = InSeq(m_Successors)
      BY <2>3 DEF InSeq
    <3> QED
      BY <1>2, <1>3, <1>6, <2>2, <3>1, <3>2
  <2>4. CASE \E x \in Nodes \ held : /\ node' = [node EXCEPT ![x] = Fresh(s)]
                                     /\ m_Successors' = Append(m_Successors, x)
                                     /\ excuses' = excuses
    <3>1. PICK x \in Nodes \ held : /\ node' = [node EXCEPT ![x] = Fresh(s)]
                                    /\ m_Successors' = Append(m_Successors, x)
      BY <2>4
    <3>2. InSeq(m_Successors)' = InSeq(m_Successors) \cup {x}
      <4>1. InSeq(m_Successors') = InSeq(m_Successors) \cup {x}
        BY <3>1, AppendTo DEF IInv, Typed
      <4> QED
        BY <4>1 DEF InSeq
    <3>3. at(x)' = s.at
      <4>1. node'[x] = Fresh(s)
        BY <3>1 DEF IInv, Typed
      <4> QED
        BY <4>1 DEF at, Fresh
    <3> QED
      BY <1>2, <1>3, <1>6, <2>2, <3>2, <3>3
  <2>5. CASE excuses' = excuses \cup {"exhausted"} /\ UNCHANGED node
    BY <2>5
  <2> QED
    BY <1>4, <2>3, <2>4, <2>5
<1> QED
  BY <1>1, <1>6, <1>7, NothingMeasured DEF Shortest

\* A successor is discarded for a node that costs no more.
LEMMA DiscardShortest ==
  ASSUME IInv, Shortest, NEW s, Discard(s)
  PROVE  Shortest'
<1>1. /\ Loop(s)
      /\ Cheaper(m_OpenList, s) \/ Cheaper(m_ClosedList, s)
      /\ UNCHANGED <<node, m_OpenList, m_ClosedList, n, pending, m_State, world,
                     excuses, pc>>
  BY DEF Discard, lists, search
<1>2. /\ pc = "generate" /\ m_State = "SEARCHING"
      /\ InSeq(m_Successors) = {s} \cup InSeq(m_Successors)'
      /\ s \in Nodes /\ n \in held /\ n \in Nodes /\ m_ClosedList \subseteq held
      /\ InSeq(m_Successors) \subseteq held
  BY <1>1, NextSuccessor, Searching DEF IInv, Owned
<1>3. Listed' = Listed
  BY <1>1 DEF Listed
<1>4. /\ EvenWorld' <=> EvenWorld
      /\ \A y \in held : at(y)' = at(y)
      /\ \A c, d : Leads(c, d)' <=> Leads(c, d)
      /\ \A y \in held : \A d : Near(y, d)' <=> Near(y, d)
      /\ Measured'
  BY <1>1, <1>2, <1>3, SameCosts DEF Shortest
<1>5. Relaxed'
  <2> SUFFICES ASSUME EvenWorld, "exhausted" \notin excuses
               PROVE  /\ \A y \in m_ClosedList : \A d \in Cells :
                           Leads(at(y), d) => Near(y, d)
                      /\ \A d \in Cells : Leads(at(n), d) =>
                           \/ Near(n, d)
                           \/ \E y \in InSeq(m_Successors)' : at(y)' = d
                           \/ \E t \in InSeq(pending)' : t.at = d
    BY <1>1, <1>2, <1>4 DEF Relaxed, at, Leads
  <2>1. /\ \A y \in m_ClosedList : \A d \in Cells : Leads(at(y), d) => Near(y, d)
        /\ \A d \in Cells : Leads(at(n), d) =>
             \/ Near(n, d)
             \/ \E y \in InSeq(m_Successors) : at(y) = d
             \/ \E t \in InSeq(pending) : t.at = d
    BY <1>1, <1>2 DEF Shortest, Relaxed
  <2>2. Near(n, at(s))
    <3>1. newg(s) = node[n].g + UnitCost
      BY <1>2, NodeType, Even DEF newg, IInv, Typed
    <3>2. PICK y \in m_OpenList \cup m_ClosedList : at(y) = at(s) /\ node[y].g <= newg(s)
      BY <1>1 DEF Cheaper, Same
    <3> QED
      BY <3>1, <3>2 DEF Near, Listed
  <2>3. InSeq(pending)' = InSeq(pending)
    BY <1>1 DEF InSeq
  <2> QED
    BY <1>2, <1>4, <2>1, <2>2, <2>3
<1> QED
  BY <1>1, <1>2, <1>4, <1>5, NothingMeasured DEF Shortest

\* A node for the cell of the successor, the successor itself or one on the lists
\* that costs more, gets the node that is expanded as its parent.
LEMMA ReparentShortest ==
  ASSUME IInv, Shortest, NEW s, Loop(s), NEW y \in held,
         y # n, at(y) = at(s), node' = Reparented(y, s),
         y \in Listed => newg(s) < node[y].g,
         Listed' = Listed \cup {y}, m_ClosedList' \subseteq m_ClosedList \ {y},
         UNCHANGED <<n, pending, m_State, world, excuses, pc>>
  PROVE  Shortest'
<1>1. /\ pc = "generate" /\ m_State = "SEARCHING" /\ n \in Listed
      /\ InSeq(m_Successors) = {s} \cup InSeq(m_Successors)'
      /\ InSeq(m_Successors) \subseteq held
      /\ Leads(at(n), at(s)) /\ at(s) \in Cells
      /\ newg(s) \in Nat /\ node[n].g \in Nat
  BY NextSuccessor DEF IInv, Owned
<1>2. /\ Listed \subseteq Nodes /\ Listed \subseteq held /\ held \subseteq Nodes
      /\ m_ClosedList \subseteq Listed /\ y \in Nodes /\ n \in Nodes /\ s \in Nodes
      /\ world \in Worlds
  BY <1>1, Searching, NextSuccessor
<1>3. /\ \A z \in Nodes : node'[z].user = node[z].user
      /\ \A z \in Nodes \ {y} : node'[z] = node[z]
      /\ node'[y].g = newg(s)
  <2>1. node \in [Nodes -> NodeContents]
    BY DEF IInv, Typed
  <2>2. node' = [node EXCEPT ![y] = [@ EXCEPT !.parent = n, !.g = newg(s)]]
    BY DEF Reparented
  <2>3. node'[y] = [node[y] EXCEPT !.parent = n, !.g = newg(s)] /\ node[y] \in NodeContents
    BY <1>2, <2>1, <2>2
  <2>4. node'[y].g = newg(s) /\ node'[y].user = node[y].user
    BY <2>3 DEF NodeContents
  <2> QED
    BY <2>1, <2>2, <2>4
<1>4. /\ \A z \in held : at(z)' = at(z)
      /\ \A c, d : Leads(c, d)' <=> Leads(c, d)
      /\ UnitCost' = UnitCost /\ (EvenWorld' <=> EvenWorld)
      /\ ReachableIn' = ReachableIn
  <2>1. /\ \A z \in held : at(z)' = at(z)
        /\ \A c, d : Leads(c, d)' <=> Leads(c, d)
    BY <1>2, <1>3 DEF at, Leads, InSeq
  <2> QED
    BY <2>1, SameWorld
<1>5. ASSUME EvenWorld
      PROVE  newg(s) = node[n].g + UnitCost /\ UnitCost \in Nat \ {0}
  BY <1>2, <1>5, NodeType, Even DEF newg, IInv
<1>6. Measured'
  <2> SUFFICES ASSUME EvenWorld, NEW x \in Listed \cup {y}
               PROVE  \E m \in Nat :
                        /\ node'[x].g = UnitCost * m
                        /\ \A k \in 0 .. Cardinality(Cells) :
                             m <= k => at(x) \in ReachableIn[k]
    <3>1. \A x \in Listed \cup {y} : at(x)' = at(x)
      BY <1>2, <1>4
    <3> QED
      BY <1>1, <1>4, <3>1 DEF Measured, at
  <2>1. CASE x # y
    BY <1>1, <1>2, <1>3, <2>1 DEF Shortest, Measured
  <2>2. CASE x = y
    <3>1. PICK m \in Nat :
            /\ node[n].g = UnitCost * m
            /\ \A k \in 0 .. Cardinality(Cells) : m <= k => at(n) \in ReachableIn[k]
      BY <1>1 DEF Shortest, Measured
    <3>2. m + 1 \in Nat /\ node'[x].g = UnitCost * (m + 1)
      BY <1>3, <1>5, <2>2, <3>1, Multiples
    <3>3. ASSUME NEW k \in 0 .. Cardinality(Cells), m + 1 <= k
          PROVE  at(x) \in ReachableIn[k]
      <4>1. /\ k \in 1 .. Cardinality(Cells) /\ k - 1 \in 0 .. Cardinality(Cells)
            /\ m <= k - 1
        BY <1>2, <3>3, ReachableInIs
      <4>2. at(n) \in ReachableIn[k - 1]
        BY <3>1, <4>1
      <4> QED
        BY <1>1, <1>2, <2>2, <4>1, <4>2, ReachableInIs
    <3> QED
      BY <3>2, <3>3
  <2> QED
    BY <2>1, <2>2
<1>7. Relaxed'
  <2> SUFFICES ASSUME EvenWorld, "exhausted" \notin excuses
               PROVE  /\ \A x \in m_ClosedList \ {y} : \A d \in Cells :
                           Leads(at(x), d) => Near(x, d)'
                      /\ \A d \in Cells : Leads(at(n), d) =>
                           \/ Near(n, d)'
                           \/ \E q \in InSeq(m_Successors)' : at(q)' = d
    <3>1. n \in held /\ m_ClosedList \subseteq held
      BY <1>1, <1>2
    <3> QED
      BY <1>1, <1>4, <3>1 DEF Relaxed, at, Leads
  <2>1. /\ \A x \in m_ClosedList : \A d \in Cells : Leads(at(x), d) => Near(x, d)
        /\ \A d \in Cells : Leads(at(n), d) =>
             Near(n, d) \/ \E q \in InSeq(m_Successors) : at(q) = d
    <3>1. InSeq(pending) = {}
      BY NextSuccessor DEF InSeq
    <3> QED
      BY <1>1, <3>1 DEF Shortest, Relaxed
  <2>2. \A z \in Listed : /\ z \in Listed' /\ at(z)' = at(z)
                          /\ node'[z].g \in Nat /\ node[z].g \in Nat
                          /\ node'[z].g <= node[z].g
    <3> TAKE z \in Listed
    <3>1. node[z].g \in Nat /\ z \in Nodes
      BY <1>2, NodeType DEF IInv
    <3>2. CASE z = y
      BY <1>1, <1>2, <1>3, <1>4, <3>1, <3>2
    <3>3. CASE z # y
      BY <1>2, <1>3, <1>4, <3>1, <3>3
    <3> QED
      BY <3>2, <3>3
  <2>3. ASSUME NEW x \in Listed \ {y}, NEW d, Near(x, d)
        PROVE  Near(x, d)'
    <3>1. PICK z \in Listed : at(z) = d /\ node[z].g <= node[x].g + UnitCost
      BY <2>3 DEF Near
    <3>2. node'[x].g = node[x].g
      BY <1>2, <1>3
    <3>3. at(z)' = d /\ node'[z].g <= node'[x].g + UnitCost'
      BY <1>4, <1>5, <2>2, <3>1, <3>2
    <3> QED
      BY <2>2, <3>3 DEF Near, at
  <2>4. Near(n, at(s))'
    <3>1. /\ y \in Listed' /\ at(y)' = at(s) /\ node'[n].g = node[n].g
          /\ node'[y].g = node[n].g + UnitCost
      BY <1>2, <1>3, <1>4, <1>5
    <3>2. node'[y].g <= node'[n].g + UnitCost' /\ at(s)' = at(s)
      BY <1>1, <1>2, <1>3, <1>4, <1>5, <3>1 DEF at
    <3> QED
      BY <3>1, <3>2 DEF Near, at
  <2>5. \A q \in InSeq(m_Successors)' : at(q)' = at(q)
    BY <1>1, <1>4
  <2>6. at(s)' = at(s)
    BY <1>2, <1>3 DEF at
  <2>7. ASSUME NEW d \in Cells, Leads(at(n), d)
        PROVE  Near(n, d)' \/ \E q \in InSeq(m_Successors)' : at(q)' = d
    <3>1. CASE Near(n, d)
      BY <1>1, <2>3, <3>1
    <3>2. CASE d = at(s)
      BY <2>4, <2>6, <3>2 DEF Near, at
    <3>3. CASE \E q \in InSeq(m_Successors)' : at(q) = d
      BY <2>5, <3>3
    <3> QED
      BY <1>1, <2>1, <2>7, <3>1, <3>2, <3>3
  <2>8. ASSUME NEW x \in m_ClosedList \ {y}, NEW d \in Cells, Leads(at(x), d)
        PROVE  Near(x, d)'
    BY <1>2, <2>1, <2>3, <2>8
  <2> QED
    BY <2>7, <2>8
<1> QED
  BY <1>1, <1>6, <1>7, NothingMeasured DEF Shortest

\* A reopened node costs less than it did, and may have dearer neighbours again.
LEMMA ReopenShortest ==
  ASSUME IInv, Shortest, NEW s, Reopen(s)
  PROVE  Shortest'
<1>1. PICK y \in Same(m_ClosedList, s) :
        /\ node' = Reparented(y, s)
        /\ m_OpenList' = m_OpenList \cup {y}
        /\ m_ClosedList' = m_ClosedList \ {y}
  BY DEF Reopen
<1>2. /\ Loop(s) /\ ~Cheaper(m_ClosedList, s)
      /\ UNCHANGED <<n, pending, m_State, world, excuses, pc>>
  BY DEF Reopen, search
<1>3. y \in m_ClosedList /\ at(y) = at(s) /\ ~(node[y].g <= newg(s))
  BY <1>1, <1>2 DEF Cheaper, Same
<1>4. /\ newg(s) < node[y].g /\ y # n /\ y \in Listed /\ y \in held
  <2>1. /\ newg(s) \in Nat /\ at(s) # at(n) /\ m_State = "SEARCHING"
    BY <1>2, NextSuccessor
  <2>2. y \in Listed /\ y \in held /\ y \in Nodes
    BY <1>3, <2>1, Searching
  <2>3. node[y].g \in Nat
    BY <2>2, NodeType DEF IInv
  <2> QED
    BY <1>3, <2>1, <2>2, <2>3
<1>5. Listed' = Listed \cup {y}
  BY <1>1, <1>2, <1>3 DEF Listed
<1> QED
  BY <1>1, <1>2, <1>3, <1>4, <1>5, ReparentShortest

\* So may an open one, which is not yet expanded.
LEMMA ImproveShortest ==
  ASSUME IInv, Shortest, NEW s, Improve(s)
  PROVE  Shortest'
<1>1. PICK y \in Same(m_OpenList, s) : node' = Reparented(y, s)
  BY DEF Improve
<1>2. /\ Loop(s) /\ ~Cheaper(m_OpenList, s)
      /\ UNCHANGED <<m_OpenList, m_ClosedList, n, pending, m_State, world, excuses, pc>>
  BY DEF Improve, search, lists
<1>3. y \in m_OpenList /\ at(y) = at(s) /\ ~(node[y].g <= newg(s))
  BY <1>1, <1>2 DEF Cheaper, Same
<1>4. /\ newg(s) < node[y].g /\ y # n /\ y \in Listed /\ y \in held
      /\ y \notin m_ClosedList
  <2>1. /\ newg(s) \in Nat /\ at(s) # at(n) /\ m_State = "SEARCHING"
    BY <1>2, NextSuccessor
  <2>2. y \in Listed /\ y \in held /\ y \in Nodes
    BY <1>3, <2>1, Searching
  <2>3. node[y].g \in Nat
    BY <2>2, NodeType DEF IInv
  <2>4. y \notin m_ClosedList
    BY <1>3, <2>1 DEF IInv, Owned
  <2> QED
    BY <1>3, <2>1, <2>2, <2>3, <2>4
<1>5. Listed' = Listed \cup {y}
  BY <1>2, <1>4 DEF Listed
<1>6. m_ClosedList' \subseteq m_ClosedList \ {y}
  BY <1>2, <1>4
<1> QED
  BY <1>1, <1>2, <1>3, <1>4, <1>5, <1>6, ReparentShortest

\* A cell gets its first node.
LEMMA OpenShortest ==
  ASSUME IInv, Shortest, NEW s, Open(s)
  PROVE  Shortest'
<1>1. /\ Loop(s) /\ node' = Reparented(s, s) /\ m_OpenList' = m_OpenList \cup {s}
      /\ UNCHANGED <<m_ClosedList, n, pending, m_State, world, excuses, pc>>
  BY DEF Open, search
<1>2. /\ m_State = "SEARCHING" /\ s \in held /\ s \notin Listed /\ n \in Listed
  BY <1>1, NextSuccessor
<1>3. s # n /\ m_ClosedList \subseteq Listed
  BY <1>2, Searching
<1>4. Listed' = Listed \cup {s}
  BY <1>1 DEF Listed
<1>5. m_ClosedList' \subseteq m_ClosedList \ {s}
  BY <1>1, <1>2, <1>3
<1> QED
  BY <1>1, <1>2, <1>3, <1>4, <1>5, ReparentShortest

\* A shot that misses changes no cost, one that hits ends the search.
LEMMA ShotShortest ==
  ASSUME IInv, Shortest, TryRSCurve
  PROVE  Shortest'
<1>1. /\ pc = "shot" /\ n = NoNode
      /\ pc' = IF m_State = "SEARCHING" THEN "step" ELSE "over"
      /\ "exhausted" \in excuses' <=> "exhausted" \in excuses
      /\ UNCHANGED <<node, m_OpenList, m_ClosedList, m_State, n, world>>
  BY DEF IInv, Phased, TryRSCurve, Shoot, lists
<1>2. CASE m_State = "SEARCHING"
  <2>1. Listed' = Listed /\ m_ClosedList \subseteq held
    BY <1>1, <1>2, Searching DEF Listed
  <2>2. /\ EvenWorld' <=> EvenWorld
        /\ \A y \in held : at(y)' = at(y)
        /\ \A c, d : Leads(c, d)' <=> Leads(c, d)
        /\ \A y \in held : \A d : Near(y, d)' <=> Near(y, d)
        /\ Measured'
    BY <1>1, <1>2, <2>1, SameCosts DEF Shortest
  <2>3. EvenWorld /\ "exhausted" \notin excuses =>
          \A x \in m_ClosedList : \A d \in Cells : Leads(at(x), d) => Near(x, d)
    BY <1>2 DEF Shortest, Relaxed
  <2>4. Relaxed'
    BY <1>1, <1>2, <2>1, <2>2, <2>3 DEF Relaxed, at, Leads
  <2> QED
    BY <1>1, <1>2, <2>2, <2>4, NothingMeasured DEF Shortest
<1>3. CASE m_State # "SEARCHING"
  BY <1>1, <1>3, NothingMeasured DEF Shortest
<1> QED
  BY <1>2, <1>3

\* Nothing happens.
LEMMA StutterShortest ==
  ASSUME Shortest, UNCHANGED vars
  PROVE  Shortest'
<1> USE DEF vars
<1>1. Listed' = Listed /\ (EvenWorld' <=> EvenWorld) /\ UnitCost' = UnitCost
        /\ ReachableIn' = ReachableIn /\ Steps(world.goal.at)' = Steps(world.goal.at)
  BY SameWorld DEF Listed, Steps
<1>2. Measured'
  BY <1>1 DEF Shortest, Measured, at
<1>3. Relaxed'
  BY <1>1 DEF Shortest, Relaxed, Near, at, Leads, InSeq
<1>4. SolutionIsShortest'
  BY <1>1 DEF Shortest, SolutionIsShortest
<1> QED
  BY <1>2, <1>3, <1>4 DEF Shortest

\* Every step of the search.
LEMMA StepShortest ==
  ASSUME IInv, Shortest, Next
  PROVE  Shortest'
<1>1. CASE SetStartAndGoalStates
  BY <1>1, StartShortest
<1>2. CASE GiveUp
  BY <1>2, NothingMeasured DEF GiveUp, Fail, Shortest
<1>3. ASSUME NEW x \in m_OpenList, ReachGoal(x) \/ Expand(x)
      PROVE  Shortest'
  BY <1>3, ReachGoalShortest, ExpandShortest
<1>4. CASE AddSuccessor
  BY <1>4, AddSuccessorShortest
<1>5. ASSUME NEW s \in held, Discard(s) \/ Reopen(s) \/ Improve(s) \/ Open(s)
      PROVE  Shortest'
  BY <1>5, DiscardShortest, ReopenShortest, ImproveShortest, OpenShortest
<1>6. CASE Close
  BY <1>6, CloseShortest
<1>7. CASE TryRSCurve
  BY <1>7, ShotShortest
<1>8. CASE FreeSolutionNodes
  <2>1. m_State' # "SEARCHING" /\ pc' = "idle"
    BY <1>8 DEF IInv, Phased, FreeSolutionNodes
  <2> QED
    BY <2>1, NothingMeasured DEF Shortest
<1> QED
  BY <1>1, <1>2, <1>3, <1>4, <1>5, <1>6, <1>7, <1>8 DEF Next, SearchStep

\* Where every movement costs the same and the heuristic is admissible, though it
\* need not be consistent, the goal that is popped was reached on a shortest way,
\* unless the pool ran out of nodes (SearchStep reopens closed nodes and makes the
\* heap again).
THEOREM ShortestCorrect == Spec => []SolutionIsShortest
<1>1. Init => Shortest
  BY DEF Init, Shortest, Measured, Relaxed, SolutionIsShortest
<1>2. IInv /\ Shortest /\ [Next]_vars => Shortest'
  BY StepShortest, StutterShortest
<1>3. Shortest => SolutionIsShortest
  BY DEF Shortest
<1> QED
  BY <1>1, <1>2, <1>3, Inductive, PTL DEF Spec
=============================================================================
