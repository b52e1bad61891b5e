------------------------ MODULE MCHybridAStarSearch ------------------------
(***************************************************************************)
(* Seven cells with several ways between them, heuristics that mislead the *)
(* search, obstacles, and two tables of costs.                             *)
(***************************************************************************)
EXTENDS HybridAStarSearch

To(c, m) == [at |-> c, by |-> m]

MCCells == 1 .. 7
MCMoves ==
  << <<To(2, "R"), To(3, "F")>>,
     <<To(5, "F"), To(1, "R")>>,
     <<To(4, "F"), To(2, "F"), To(1, "F")>>,
     <<To(5, "R"), To(6, "R"), To(2, "F")>>,
     <<To(7, "F"), To(4, "F"), To(3, "R")>>,
     <<To(7, "R"), To(4, "F")>>,
     <<To(5, "R")>> >>

\* The shape of cost_map: keeping on is cheap, reversing dear; and the same with
\* all penalties one.
CostOfMovements(c, s, t) ==
  CASE c = "even"                   -> 2
    [] s.by = "F" /\ t.by = "F"     -> 1
    [] s.by = "F" /\ t.by = "R"     -> 6
    [] s.by = "R" /\ t.by = "F"     -> 3
    [] OTHER                        -> 2

\* Every heuristic of the values 0 and high for the cells in between.
Heuristics(high) ==
  {k \in [MCCells -> {0, high}] : \A c \in {1, 6, 7} : k[c] = 0}

World(c, s, h, b) == [cost_map |-> c, start |-> To(s, "F"), goal |-> To(7, "F"),
                      h |-> h, blocked |-> b]

\* Heuristics that mislead, and a start that is the goal; and where every movement
\* costs two, heuristics of which some are admissible: one or two movements.  In
\* the world with h[2] = 4, which is exact, 5 is closed before 2 is expanded.
MCWorlds ==
  {World("penalties", s, h, b) :
     s \in {1, 2}, h \in Heuristics(7), b \in SUBSET {3, 4, 5}}
    \cup {World("even", 1, h, b) :
            h \in Heuristics(2) \cup Heuristics(4), b \in SUBSET {3, 4, 5}}
    \cup {World("penalties", 7, [c \in MCCells |-> 0], {})}
=============================================================================
