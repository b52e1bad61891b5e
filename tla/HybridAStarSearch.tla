------------------------- MODULE HybridAStarSearch -------------------------
(***************************************************************************)
(* The search of the open space planner: HybridAStarSearch                 *)
(* (modules/planner/path_planning/openspace/include/hybridstlastar.h) as   *)
(* HybridAStar::perform_4dnode_search drives it, search after search.  Its *)
(* nodes come from the pool of NodePool, which FixedSizeAllocator          *)
(* implements.                                                             *)
(*                                                                         *)
(* A state of the vessel is the cell it is in and the movement that led    *)
(* there.  IsSameState and IsGoal compare cells and ignore the movement,   *)
(* GetCost depends on both.  The heap is the set of its nodes: what it     *)
(* pops is a node of least f.  One SearchStep takes several steps of the   *)
(* model, which nothing interrupts.                                        *)
(***************************************************************************)
EXTENDS Integers, Sequences, FiniteSets

CONSTANTS
  MaxNodes,         \* size of the pool
  Cells, Movements,
  Moves,            \* cell -> sequence of the states one movement leads to
  Tables,           \* cost_map of a planner, from its penalties
  Cost(_, _, _),    \* GetCost, with the table of the planner
  Worlds            \* a planner's table, start and goal, a heuristic h, the
                    \* cells in collision

Nodes == 1 .. MaxNodes
NoNode == 0
UserStates == [at : Cells, by : Movements]

ASSUME SearchAssumption ==
  /\ MaxNodes \in Nat /\ MaxNodes >= 2
  /\ IsFiniteSet(Cells)
  /\ Moves \in [Cells -> Seq(UserStates)]
  /\ \A c \in Cells : \A i \in DOMAIN Moves[c] : Moves[c][i].at # c
  /\ \A c \in Tables : \A s, t \in UserStates : Cost(c, s, t) \in Nat \ {0}
  /\ Worlds \subseteq [cost_map : Tables, start : UserStates, goal : UserStates,
                       h : [Cells -> Nat], blocked : SUBSET Cells]
  /\ Worlds # {}

VARIABLES
  held,                 \* nodes taken from the pool
  m_AllocateNodeCount,
  node,                 \* contents of the nodes
  m_OpenList, m_ClosedList, m_Successors,
  m_Start, m_Goal, m_State, m_CancelRequest,
  n,                    \* the node that is expanded
  pending,              \* movements GetSuccessors has still to try
  world,                \* collision checker and goal of this search
  excuses,              \* history: why this search may end early
  pc                    \* where perform_4dnode_search is

vars == <<held, m_AllocateNodeCount, node, m_OpenList, m_ClosedList,
          m_Successors, m_Start, m_Goal, m_State, m_CancelRequest, n, pending,
          world, excuses, pc>>

pool == <<held, m_AllocateNodeCount>>
lists == <<m_OpenList, m_ClosedList>>
search == <<m_Start, m_Goal, m_State, m_CancelRequest, world>>

-----------------------------------------------------------------------------
(* Nodes.                                                                  *)

\* Seeded fault: the constructor leaves what was there.
FreshUninitialised(user) ==
  [user |-> user, parent |-> MaxNodes + 1, child |-> NoNode, g |-> 0]

\* Node(): what the constructor leaves.
Fresh(user) == [user |-> user, parent |-> NoNode, child |-> NoNode, g |-> 0]

\* The contents of nodes that nothing refers to stand for any.
Forgotten == LET any == CHOOSE user \in UserStates : TRUE
             IN  [x \in Nodes |-> Fresh(any)]

AnyWorld == CHOOSE w \in Worlds : TRUE

at(x) == node[x].user.at
f(x) == node[x].g + world.h[at(x)]

\* The pool decides which node it is; the search does not depend on it.
Unused(S) == CHOOSE x \in Nodes : x \notin S

\* FreeNode for every node of a list: the count goes down once for each.
Freeing(S) ==
  /\ held' = held \ S
  /\ m_AllocateNodeCount' = m_AllocateNodeCount - Cardinality(S)

\* The element of a list for the same cell, if any.
Same(list, x) == {y \in list : at(y) = at(x)}

-----------------------------------------------------------------------------
(* perform_4dnode_search and SearchStep.                                   *)

Init ==
  /\ held = {} /\ m_AllocateNodeCount = 0
  /\ world = AnyWorld
  /\ node = Forgotten
  /\ m_OpenList = {} /\ m_ClosedList = {} /\ m_Successors = << >>
  /\ m_Start = NoNode /\ m_Goal = NoNode
  /\ m_State = "NOT_INITIALISED" /\ m_CancelRequest = FALSE
  /\ n = NoNode /\ pending = << >> /\ excuses = {}
  /\ pc = "idle"

\* The body of SetStartAndGoalStates, given what m_CancelRequest becomes.
Start(cancel) ==
  /\ pc = "idle"
  /\ world' \in Worlds
  /\ m_CancelRequest' = cancel
  /\ m_Start' = Unused(held)
  /\ m_Goal' = Unused(held \cup {m_Start'})
  /\ held' = held \cup {m_Start', m_Goal'}
  /\ m_AllocateNodeCount' = m_AllocateNodeCount + 2
  /\ node' = [node EXCEPT ![m_Start'] = Fresh(world'.start),
                            ![m_Goal'] = Fresh(world'.goal)]
  /\ m_OpenList' = m_OpenList \cup {m_Start'}
  /\ m_State' = "SEARCHING"
  /\ pc' = "step"
  /\ UNCHANGED <<m_ClosedList, m_Successors, n, pending, excuses>>

\* Seeded fault: the request to cancel the last search is still there.
SetStartAndGoalStatesKeepsRequest == Start(m_CancelRequest)

SetStartAndGoalStates == Start(FALSE)

\* FreeAllNodes and what SearchStep does with it, given the goal to free.
Fail(goal) ==
  /\ pc = "step"
  /\ m_OpenList = {} \/ m_CancelRequest
  /\ held' = held \ (m_OpenList \cup m_ClosedList \cup goal)
  /\ m_AllocateNodeCount' = m_AllocateNodeCount - Cardinality(m_OpenList)
       - Cardinality(m_ClosedList) - Cardinality(goal)
  /\ m_OpenList' = {} /\ m_ClosedList' = {}
  /\ m_State' = "FAILED"
  /\ pc' = "over"
  /\ UNCHANGED <<node, m_Successors, m_Start, m_Goal, m_CancelRequest, n,
                 pending, world, excuses>>

\* Seeded fault: the goal, on no list, is forgotten.
GiveUpKeepsGoal == Fail({})

\* Nothing left to search, or cancelled.
GiveUp == Fail({m_Goal})

\* pop_heap: a node of least f.
Best == {x \in m_OpenList : \A y \in m_OpenList : f(x) <= f(y)}

Pop(x) ==
  /\ pc = "step"
  /\ m_OpenList # {} /\ ~m_CancelRequest
  /\ x \in Best

\* The nodes of S and those that link leads to from them.
Followed(link, S) ==
  LET far[k \in 0 .. MaxNodes] ==
        IF k = 0 THEN S
        ELSE LET near == far[k - 1]
             IN  near \cup {link[y] : y \in near \ {NoNode}}
  IN  far[MaxNodes] \ {NoNode}

\* The nodes the links parent lead to from x.
AncestorsOf(x) == Followed([y \in Nodes |-> node[y].parent], {node[x].parent})

\* Seeded fault: the loop over the parents stops one node early.
PathWithoutStart(x) == AncestorsOf(x) \ {m_Start}

\* The nodes that get a link to a child.
Path(x) == IF at(x) = at(m_Start) THEN {} ELSE AncestorsOf(x)

\* FreeUnusedNodes: the nodes on the lists that have no link to a child.
Unneeded(S, linked) == {y \in S : linked[y].child = NoNode}

\* The goal is popped: its node is replaced by m_Goal, the path gets its links
\* to the children, and FreeUnusedNodes frees what has none.
ReachGoal(x) ==
  /\ Pop(x)
  /\ at(x) = at(m_Goal)
  /\ LET goal   == [node[m_Goal] EXCEPT !.parent = node[x].parent,
                                        !.g = node[x].g]
         path   == Path(x)
         below(y) == CHOOSE c \in path \cup {x} : node[c].parent = y
         linked == [y \in Nodes |->
                      IF y = m_Goal THEN goal
                      ELSE IF y \notin path THEN node[y]
                      ELSE [node[y] EXCEPT !.child =
                              IF below(y) = x THEN m_Goal ELSE below(y)]]
         unused == Unneeded((m_OpenList \ {x}) \cup m_ClosedList, linked)
         all    == IF at(x) = at(m_Start) THEN unused ELSE unused \cup {x}
     IN  node' = linked /\ Freeing(all)
  /\ m_OpenList' = {} /\ m_ClosedList' = {}
  /\ m_State' = "SUCCEEDED"
  /\ pc' = "shot"
  /\ UNCHANGED <<m_Successors, m_Start, m_Goal, m_CancelRequest, n, pending,
                 world, excuses>>

\* GetSuccessors leaves out collisions and the way back.
Kept(s) ==
  /\ s.at \notin world.blocked
  /\ node[n].parent # NoNode => s.at # at(node[n].parent)

\* Not the goal: its successors are generated.
Expand(x) ==
  /\ Pop(x)
  /\ at(x) # at(m_Goal)
  /\ pending' = Moves[at(x)]
  /\ m_OpenList' = m_OpenList \ {x}
  /\ n' = x
  /\ m_Successors' = << >>
  /\ pc' = "generate"
  /\ UNCHANGED <<pool, node, m_ClosedList, search, excuses>>

\* One movement of GetSuccessors, which ignores the result of AddSuccessor and
\* returns true.
AddSuccessor ==
  /\ pc = "generate" /\ pending # << >>
  /\ pending' = Tail(pending)
  /\ \/ /\ ~Kept(Head(pending))
        /\ UNCHANGED <<pool, node, m_Successors, excuses>>
     \/ /\ Kept(Head(pending)) /\ held = Nodes
        /\ excuses' = excuses \cup {"exhausted"}
        /\ UNCHANGED <<pool, node, m_Successors>>
     \/ /\ Kept(Head(pending)) /\ held # Nodes
        /\ LET x == Unused(held)
           IN  /\ held' = held \cup {x}
               /\ node' = [node EXCEPT ![x] = Fresh(Head(pending))]
               /\ m_Successors' = Append(m_Successors, x)
        /\ m_AllocateNodeCount' = m_AllocateNodeCount + 1
        /\ UNCHANGED excuses
  /\ UNCHANGED <<lists, n, search, pc>>

newg(s) == node[n].g + Cost(world.cost_map, node[n].user, node[s].user)
Reparented(x, s) == [node EXCEPT ![x].parent = n, ![x].g = newg(s)]

Loop(s) ==
  /\ pc = "generate" /\ pending = << >>
  /\ m_Successors # << >> /\ s = Head(m_Successors)
  /\ m_Successors' = Tail(m_Successors)

\* Seeded fault: a closed node is never reopened.
CheaperOrClosed(list, s) ==
  \E y \in Same(list, s) : list = m_ClosedList \/ node[y].g <= newg(s)

\* Seeded fault: the comparison is the wrong way round.
CheaperReversed(list, s) == \E y \in Same(list, s) : node[y].g >= newg(s)

Cheaper(list, s) == \E y \in Same(list, s) : node[y].g <= newg(s)

\* A node for the same cell is at least as cheap.
Discard(s) ==
  /\ Loop(s)
  /\ Cheaper(m_OpenList, s) \/ Cheaper(m_ClosedList, s)
  /\ Freeing({s})
  /\ UNCHANGED <<node, lists, n, pending, search, excuses, pc>>

\* A closed node gets the better parent, keeps its own movement, and is open.
Reopen(s) ==
  /\ Loop(s)
  /\ ~Cheaper(m_OpenList, s) /\ ~Cheaper(m_ClosedList, s)
  /\ \E y \in Same(m_ClosedList, s) :
       /\ node' = Reparented(y, s)
       /\ m_OpenList' = m_OpenList \cup {y}
       /\ m_ClosedList' = m_ClosedList \ {y}
  /\ Freeing({s})
  /\ UNCHANGED <<n, pending, search, excuses, pc>>

\* So does an open one.
Improve(s) ==
  /\ Loop(s)
  /\ ~Cheaper(m_OpenList, s) /\ Same(m_ClosedList, s) = {}
  /\ \E y \in Same(m_OpenList, s) : node' = Reparented(y, s)
  /\ Freeing({s})
  /\ UNCHANGED <<lists, n, pending, search, excuses, pc>>

\* Seeded fault: the closed list is not searched.
OpenUnlessOpen(s) ==
  /\ Loop(s)
  /\ Same(m_OpenList, s) = {}
  /\ node' = Reparented(s, s)
  /\ m_OpenList' = m_OpenList \cup {s}
  /\ UNCHANGED <<pool, m_ClosedList, n, pending, search, excuses, pc>>

\* A cell that was not seen before.
Open(s) ==
  /\ Loop(s)
  /\ Same(m_OpenList, s) = {} /\ Same(m_ClosedList, s) = {}
  /\ node' = Reparented(s, s)
  /\ m_OpenList' = m_OpenList \cup {s}
  /\ UNCHANGED <<pool, m_ClosedList, n, pending, search, excuses, pc>>

Close ==
  /\ pc = "generate" /\ pending = << >> /\ m_Successors = << >>
  /\ m_ClosedList' = m_ClosedList \cup {n}
  /\ n' = NoNode
  /\ pc' = "shot"
  /\ UNCHANGED <<pool, node, m_OpenList, m_Successors, pending, search, excuses>>

SearchStep ==
  \/ GiveUp
  \/ \E x \in m_OpenList : ReachGoal(x) \/ Expand(x)
  \/ AddSuccessor
  \/ \E s \in held : Discard(s) \/ Reopen(s) \/ Improve(s) \/ Open(s)
  \/ Close

\* A Reeds-Shepp curve from the current node to the end that hits nothing
\* cancels the search; the loop goes on at after.
Shoot(after) ==
  /\ pc = "shot"
  /\ \/ UNCHANGED <<m_CancelRequest, excuses>>
     \/ m_CancelRequest' = TRUE /\ excuses' = excuses \cup {"cancelled"}
  /\ pc' = after
  /\ UNCHANGED <<pool, node, lists, m_Successors, m_Start, m_Goal, m_State, n,
                 pending, world>>

\* Seeded fault: the loop does not end when the search has.
TryRSCurveForever == Shoot(IF m_State = "SEARCHING" THEN "step" ELSE "shot")

TryRSCurve == Shoot(IF m_State = "SEARCHING" THEN "step" ELSE "over")

\* The nodes FreeSolutionNodes visits from m_Start.
SolutionNodes ==
  IF node[m_Start].child = NoNode THEN {m_Start, m_Goal}
  ELSE Followed([y \in Nodes |-> IF y = m_Goal THEN NoNode ELSE node[y].child],
                {m_Start})

\* What is left in the nodes, the pointers to them and the world of this search
\* are not read again before they are written, and forgotten here.
FreeSolutionNodes ==
  /\ pc = "over"
  /\ IF m_State = "SUCCEEDED" THEN Freeing(SolutionNodes) ELSE UNCHANGED pool
  /\ node' = Forgotten
  /\ m_Start' = NoNode /\ m_Goal' = NoNode
  /\ world' = AnyWorld /\ excuses' = {}
  /\ pc' = "idle"
  /\ UNCHANGED <<lists, m_Successors, m_State, m_CancelRequest, n, pending>>

Next ==
  \/ SetStartAndGoalStates
  \/ SearchStep
  \/ TryRSCurve
  \/ FreeSolutionNodes

Spec == Init /\ [][Next]_vars

\* One thread runs the search to its end.
FairSpec == Spec /\ WF_vars(Next)

-----------------------------------------------------------------------------
(* Properties.                                                             *)

InSeq(q) == {q[i] : i \in DOMAIN q}

TypeOK ==
  /\ held \subseteq Nodes /\ m_AllocateNodeCount \in 0 .. MaxNodes
  /\ node \in [Nodes -> [user : UserStates, parent : Nodes \cup {NoNode},
                         child : Nodes \cup {NoNode}, g : Nat]]
  /\ m_OpenList \cup m_ClosedList \cup InSeq(m_Successors) \subseteq Nodes
  /\ m_State \in {"NOT_INITIALISED", "SEARCHING", "SUCCEEDED", "FAILED"}

\* Every node of the pool has exactly one owner at every point of the search,
\* so none is freed twice or lost, and m_AllocateNodeCount agrees; between two
\* searches there is none (EnsureMemoryFreed), also when the pool was exhausted
\* or the search cancelled.
MemoryAccounted ==
  /\ m_AllocateNodeCount = Cardinality(held)
  /\ m_State = "SEARCHING" =>
       LET owned == {m_OpenList, m_ClosedList, InSeq(m_Successors), {m_Goal},
                     {n} \ {NoNode}}
       IN  /\ held = UNION owned
           /\ \A S, T \in owned : S = T \/ S \cap T = {}
           /\ Cardinality(InSeq(m_Successors)) = Len(m_Successors)
  /\ pc = "idle" => held = {}

\* The linear searches of the lists find the only node of a cell: improving or
\* reopening never leaves two of them.
OneNodePerCell ==
  m_State = "SEARCHING" =>
    \A x, y \in m_OpenList \cup m_ClosedList \cup ({n} \ {NoNode}) :
      at(x) = at(y) => x = y

\* Following parent reaches the start and ends: every other node has a parent
\* that is held and strictly cheaper, although parents are changed and made
\* cheaper behind their children.  Both loops over parents rely on it.
ParentsLeadToStart ==
  m_State = "SEARCHING" =>
    \A x \in m_OpenList \cup m_ClosedList \cup ({n} \ {NoNode}) :
      IF x = m_Start THEN node[x].parent = NoNode /\ node[x].g = 0
      ELSE /\ node[x].parent \in m_OpenList \cup m_ClosedList \cup {n}
           /\ node[x].parent # NoNode
           /\ node[node[x].parent].g < node[x].g

Leads(c, d) == \E s \in InSeq(Moves[c]) : s.at = d /\ d \notin world.blocked

\* What a successful search leaves is one chain from start to goal: every node
\* that is held is on it, links both ways agree, and every step is a movement
\* free of collision.
SolutionIsPath ==
  pc \in {"shot", "over"} /\ m_State = "SUCCEEDED" =>
    /\ {m_Start, m_Goal} \subseteq held
    /\ at(m_Goal) = world.goal.at /\ node[m_Goal].child = NoNode
    /\ IF world.start.at = world.goal.at THEN held = {m_Start, m_Goal}
       ELSE /\ \A x \in held \ {m_Goal} :
                 /\ node[x].child \in held
                 /\ node[node[x].child].parent = x
                 /\ node[x].g < node[node[x].child].g
                 /\ Leads(at(x), at(node[x].child))
            /\ \A x \in held \ {m_Start} :
                 /\ node[x].parent \in held
                 /\ node[node[x].parent].child = x

\* The cells the vessel can reach in at most k movements.
ReachableIn[k \in 0 .. Cardinality(Cells)] ==
  IF k = 0 THEN {world.start.at}
  ELSE LET near == ReachableIn[k - 1]
       IN  near \cup {d \in Cells : \E c \in near : Leads(c, d)}

Reachable == ReachableIn[Cardinality(Cells)]

\* The least number of movements to a cell.
Steps(c) == CHOOSE k \in 0 .. Cardinality(Cells) :
              /\ c \in ReachableIn[k]
              /\ k = 0 \/ c \notin ReachableIn[k - 1]

\* A search in which nothing asked for a cancellation, and which never ran out of
\* nodes, fails only when there is no way: although GetSuccessors leaves out the
\* way back, and whatever the searches before it were asked.
FailureMeansUnreachable ==
  pc = "over" /\ m_State = "FAILED" /\ excuses = {}
    => world.goal.at \notin Reachable

\* The movement of a node, which perform_4dnode_search reads as forward or
\* reverse, is one that leads there from its parent.
MovementLeadsHere ==
  m_State = "SEARCHING" =>
    \A x \in m_OpenList \cup m_ClosedList :
      x # m_Start => node[x].user \in InSeq(Moves[at(node[x].parent)])

UnitCost == Cost(world.cost_map, world.start, world.goal)

\* The cells from which at most k movements lead to the goal.
ReachesGoalIn[k \in 0 .. Cardinality(Cells)] ==
  IF k = 0 THEN {world.goal.at}
  ELSE LET near == ReachesGoalIn[k - 1]
       IN  near \cup {c \in Cells : \E d \in near : Leads(c, d)}

\* All penalties are one, and h is admissible: it is nowhere more than the rest of
\* the way costs.  It need not be consistent, so closed nodes are reopened here
\* too.  Where the penalties are one a movement costs its length, and the length
\* of the shortest Reeds-Shepp curve is such a heuristic.
EvenWorld ==
  /\ \A s, t \in UserStates : Cost(world.cost_map, s, t) = UnitCost
  /\ \A k \in 0 .. Cardinality(Cells) : \A c \in ReachesGoalIn[k] :
       world.h[c] <= UnitCost * k

\* Where every movement costs the same and h is admissible, the goal that is
\* popped was reached on a shortest way: no cheaper path was cut by a closed
\* node, or overtaken on a heap that went stale.
SolutionIsShortest ==
  pc = "shot" /\ m_State = "SUCCEEDED" /\ "exhausted" \notin excuses /\ EvenWorld
    => node[m_Goal].g = UnitCost * Steps(world.goal.at)

\* Every search ends: the nodes it reopens get strictly cheaper.
SearchTerminates == []<>(pc = "idle")
=============================================================================
