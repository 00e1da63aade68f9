---------------------------- MODULE ShortestPaths -----------------------------
(***************************************************************************)
(* Dijkstra's algorithm: algo/deykstra/deykstra.cpp, whose main() prepares *)
(* costs and parents from the edges of node 0, and its namesake in Python, *)
(* python/algo/deykstra.py, which does the same over dictionaries.         *)
(***************************************************************************)
EXTENDS Loops, Integers, FiniteSetsExt

CONSTANTS
    LastNode,   \* the nodes are 0 .. LastNode, the ids their indices
    Weights,    \* of the edges
    MostEdges   \* bound of the model: the edges of a graph

ASSUME WeightsAssumption == Weights \subseteq Nat \ {0}

Nodes == 0 .. LastNode

Infinity == 1000   \* numeric_limits<int>::max(), float("inf")

Edges == {e \in Nodes \X Nodes : e[1] # e[2]}

(* A graph is a function from its edges to their weights.                  *)
Graphs == UNION {[es -> Weights] : es \in UNION {kSubset(k, Edges) : k \in 0 .. MostEdges}}

Linked(graph, m, n) == <<m, n>> \in DOMAIN graph

deykstra_starts ==
    /\ Given("deykstra", Graphs)
    /\ local = [costs     |-> [n \in Nodes |-> IF Linked(input, 0, n) THEN input[<<0, n>>] ELSE Infinity],
                parents   |-> [n \in Nodes |-> IF Linked(input, 0, n) THEN 0 ELSE -1],
                processed |-> {}]

(* Mutant: the first unprocessed node of finite cost.                      *)
find_any_node(costs, processed) ==
    LET open == {n \in DOMAIN costs \ processed : costs[n] < Infinity}
    IN  {n \in open : \A m \in open : n <= m}

(* The first of the unprocessed nodes of the lowest cost; none if no cost  *)
(* is finite.                                                              *)
find_lowest_cost_node(costs, processed) ==
    LET open == {n \in DOMAIN costs \ processed : costs[n] < Infinity}
    IN  {n \in open : \A m \in open : costs[n] < costs[m] \/ (costs[n] = costs[m] /\ n <= m)}

Lowest == find_lowest_cost_node(local.costs, local.processed)

Finish == Lowest = {} /\ Return([costs |-> local.costs, parents |-> local.parents])

(* The neighbours of a node that it makes cheaper.                         *)
Relax(node) ==
    LET new_cost(n) == local.costs[node] + input[<<node, n>>]
        known   == DOMAIN local.costs
        cheaper == {n \in known : Linked(input, node, n) /\ new_cost(n) < local.costs[n]}
    IN  Continue([costs     |-> [n \in known |-> IF n \in cheaper THEN new_cost(n) ELSE local.costs[n]],
                  parents   |-> [n \in known |-> IF n \in cheaper THEN node ELSE local.parents[n]],
                  processed |-> local.processed \cup {node}])

deykstra_round == Runs("deykstra") /\ (Finish \/ \E node \in Lowest : Relax(node))

-----------------------------------------------------------------------------
(* In the dictionaries of deykstra.py there is no start.  An edge that     *)
(* leads back to it raises an exception, which is no result here.          *)
deykstra_py_starts ==
    /\ Given("deykstra.py", Graphs)
    /\ local = [costs     |-> [n \in Nodes \ {0} |-> IF Linked(input, 0, n) THEN input[<<0, n>>] ELSE Infinity],
                parents   |-> [n \in Nodes \ {0} |-> IF Linked(input, 0, n) THEN 0 ELSE -1],
                processed |-> {}]

deykstra_py_round ==
    /\ Runs("deykstra.py")
    /\ \/ Finish
       \/ \E node \in Lowest : IF Linked(input, node, 0) THEN Return(Nothing) ELSE Relax(node)
-----------------------------------------------------------------------------
(* The least weight of a way from node 0 to n with at most k + 1 edges.    *)
Distance(graph, n) ==
    LET d[k \in 0 .. LastNode, m \in Nodes] ==
          IF k = 0 THEN IF Linked(graph, 0, m) THEN graph[<<0, m>>] ELSE Infinity
          ELSE Min({d[k - 1, m]} \cup
                   {d[k - 1, p] + graph[<<p, m>>] : p \in {q \in Nodes : Linked(graph, q, m)}})
    IN  LET x == d[LastNode, n] IN IF x < Infinity THEN x ELSE Infinity

(* A node that has been processed has its final cost; no cost is ever too  *)
(* low; a parent is the last node but one of a way of that cost; and in    *)
(* the end every node has its distance, where an end is reached: without   *)
(* one there is an edge from a node in reach back to the start.            *)
PathsFinal ==
    /\ Returned("deykstra.py") /\ result = Nothing =>
          \E n \in Nodes : Linked(input, n, 0) /\ Distance(input, n) < Infinity
    /\ algorithm \in {"deykstra", "deykstra.py"} =>
        \A n \in DOMAIN local.costs :
            /\ local.costs[n] >= Distance(input, n)
            /\ n \in local.processed => local.costs[n] = Distance(input, n)
            /\ local.costs[n] < Infinity =>
                  LET p == local.parents[n]
                  IN  /\ Linked(input, p, n)
                      /\ local.costs[n] = input[<<p, n>>] + IF p = 0 THEN 0 ELSE local.costs[p]
            /\ returned /\ result # Nothing => result.costs[n] = Distance(input, n)
=============================================================================
