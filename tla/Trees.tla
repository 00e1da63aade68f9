-------------------------------- MODULE Trees --------------------------------
(***************************************************************************)
(* Trees: the traversals of boost/my_algo/inorder_traversal.cpp with their *)
(* stack of nodes, and the prefix tree of algo/prefix_tree/prefix_tree.hpp.*)
(* A node is known by the way that leads to it, a sequence of steps.       *)
(***************************************************************************)
EXTENDS Loops, Integers, SequencesExt, FiniteSetsExt

CONSTANTS
    Depth,       \* bound of the model: of the trees that are traversed
    Letters,     \* the letters of an index of the prefix tree, in 'A' .. 'z'
    LongestWord, \* bound of the model: the length of an index
    Payloads     \* what a value holds beside its index

-----------------------------------------------------------------------------
(* Traversals.  A binary tree is the set of its nodes: <<>> is the root.   *)
left  == 1
right == 2

Child(n, side) == Append(n, side)

RECURSIVE TreesOf(_)
TreesOf(depth) ==
    IF depth = 0 THEN {{}}
    ELSE {{}} \cup {{<<>>} \cup {<<left>> \o n : n \in l} \cup {<<right>> \o n : n \in r} :
                       l \in TreesOf(depth - 1), r \in TreesOf(depth - 1)}

RECURSIVE Preorder(_, _), Inorder(_, _)

Preorder(tree, n) == IF n \notin tree THEN <<>>
                     ELSE <<n>> \o Preorder(tree, Child(n, left)) \o Preorder(tree, Child(n, right))

Inorder(tree, n) == IF n \notin tree THEN <<>>
                    ELSE Inorder(tree, Child(n, left)) \o <<n>> \o Inorder(tree, Child(n, right))

Root(tree) == IF tree = {} THEN <<>> ELSE << <<>> >>

There(n) == IF n \in input THEN <<n>> ELSE <<>>

preorder_starts == /\ Given("preorder", TreesOf(Depth))
                   /\ local = [nodes |-> Root(input), out |-> <<>>]

(* The end of nodes is its top.                                            *)
preorder_round ==
    /\ Runs("preorder")
    /\ IF local.nodes = <<>> THEN Return(local.out)
       ELSE LET pNode == Last(local.nodes)
            IN  Continue([nodes |-> Front(local.nodes) \o There(Child(pNode, right))
                                                       \o There(Child(pNode, left)),
                          out   |-> Append(local.out, pNode)])

inorder_starts == /\ Given("inorder", TreesOf(Depth))
                  /\ local = [at |-> "outer", nodes |-> Root(input), pNode |-> <<>>, out |-> <<>>]

inorder_outer ==
    /\ Runs("inorder") /\ local.at = "outer"
    /\ IF local.nodes = <<>> THEN Return(local.out)
       ELSE Continue([local EXCEPT !.pNode = Last(local.nodes), !.at = "left"])

(* Down to the leftmost node, which is the next one of the result.         *)
inorder_left ==
    LET next == Child(local.pNode, left)
    IN  /\ Runs("inorder") /\ local.at = "left"
        /\ Continue(IF next \in input
                    THEN [local EXCEPT !.pNode = next, !.nodes = Append(@, next)]
                    ELSE [local EXCEPT !.at = "right", !.nodes = Front(@),
                                       !.out = Append(@, local.pNode)])

(* Mutant: a node that comes off the stack is descended from again.        *)
inorder_right_again ==
    LET next == Child(local.pNode, right)
    IN  /\ Runs("inorder") /\ local.at = "right"
        /\ Continue([local EXCEPT !.at = "outer", !.nodes = @ \o There(next)])

(* Up to a node that has a right child, and to that.                       *)
inorder_right ==
    LET next == Child(local.pNode, right)
    IN  /\ Runs("inorder") /\ local.at = "right"
        /\ Continue(IF next \notin input /\ local.nodes # <<>>
                    THEN [local EXCEPT !.pNode = Last(local.nodes), !.nodes = Front(@),
                                       !.out = Append(@, Last(local.nodes))]
                    ELSE [local EXCEPT !.at = "outer", !.nodes = @ \o There(next)])

inorder_round == inorder_outer \/ inorder_left \/ inorder_right

-----------------------------------------------------------------------------
(* The prefix tree: local.nodes maps each node to its value or Nothing,    *)
(* local.first each index to the value that was first to be inserted, and  *)
(* local.inserted to how often insert() has returned true for it (history).*)
Words == UNION {[1 .. n -> Letters] : n \in 0 .. LongestWord}

WayTo(w) == {SubSeq(w, 1, n) : n \in 1 .. Len(w)}

Extended(f, S) == [x \in DOMAIN f \cup S |-> IF x \in DOMAIN f THEN f[x] ELSE Nothing]

OnceMore(f, x) == [y \in DOMAIN f \cup {x} |-> (IF y \in DOMAIN f THEN f[y] ELSE 0)
                                               + (IF y = x THEN 1 ELSE 0)]

db_starts == /\ Given("db", {Nothing})
             /\ local = [nodes |-> [w \in {} |-> Nothing], first |-> [w \in {} |-> Nothing],
                         inserted |-> [w \in {} |-> 0]]

(* A call of insert() leaves these nodes and returns what added says.      *)
InsertReturns(index, val, nodes, added) ==
    Continue([nodes    |-> nodes,
              first    |-> IF index = <<>> \/ index \in DOMAIN local.first THEN local.first
                           ELSE (index :> val) @@ local.first,
              inserted |-> IF added THEN OnceMore(local.inserted, index) ELSE local.inserted])

(* Mutant: it is the node that must be new, not its value.                 *)
insert_new_node(index, val) ==
    LET nodes == Extended(local.nodes, WayTo(index))
        free  == index # <<>> /\ index \notin DOMAIN local.nodes
    IN  /\ Runs("db")
        /\ InsertReturns(index, val, IF free THEN [nodes EXCEPT ![index] = val] ELSE nodes, free)

(* insert_at_once(): the nodes on the way are made also when there is a    *)
(* value at its end already, which then exist.                             *)
insert_at_once(index, val) ==
    LET nodes == Extended(local.nodes, WayTo(index))
        free  == index # <<>> /\ nodes[index] = Nothing
    IN  /\ Runs("db")
        /\ InsertReturns(index, val, IF free THEN [nodes EXCEPT ![index] = val] ELSE nodes, free)

(* The children of a node, those of the last letter first, as the stack    *)
(* takes them.                                                             *)
ChildrenOf(n) == LET last == SetToSortSeq(Letters, >)
                 IN  SelectSeq([i \in DOMAIN last |-> Append(n, last[i])],
                               LAMBDA c : c \in DOMAIN local.nodes)

(* push(): the slots above size are taken again.                           *)
Pushed(slots, size, nodes) ==
    [i \in 1 .. Max({Len(slots), size + Len(nodes)}) |->
        IF i - size \in DOMAIN nodes THEN nodes[i - size] ELSE slots[i]]

(* The code pops the slot that its reference node stands for, and reads it *)
(* afterwards.  The standard ends the slot's life with pop(), so that the  *)
(* behaviour is undefined; what a std::deque does is to leave the slot as  *)
(* it is until the next push() takes it again.  node is read for val and   *)
(* once for next, both before the first push().                            *)
RECURSIVE print(_, _, _)
print(slots, size, out) ==
    IF size = 0 THEN out
    ELSE LET left_over == size - 1
             node      == slots[left_over + 1]
             nnodes    == ChildrenOf(node)
         IN  print(Pushed(slots, left_over, nnodes), left_over + Len(nnodes),
                   IF local.nodes[node] = Nothing THEN out ELSE Append(out, local.nodes[node]))

Printed == LET entries == ChildrenOf(<<>>) IN print(entries, Len(entries), <<>>)

Before(v, w) == \/ IsStrictPrefix(v, w)
                \/ \E i \in DOMAIN v \cap DOMAIN w :
                      SubSeq(v, 1, i - 1) = SubSeq(w, 1, i - 1) /\ v[i] < w[i]
-----------------------------------------------------------------------------
(* The traversals visit the nodes in the order that their names say, each  *)
(* once, and return all of them.                                           *)
TraversalsRight ==
    /\ algorithm = "preorder" =>
          /\ IsPrefix(local.out, Preorder(input, <<>>))
          /\ returned => result = Preorder(input, <<>>)
    /\ algorithm = "inorder" =>
          /\ IsPrefix(local.out, Inorder(input, <<>>))
          /\ returned => result = Inorder(input, <<>>)

(* The prefix tree keeps, for each index, the value first inserted:        *)
(* insert() returns true for that one, and false for the later ones and for*)
(* an empty index.  No node leads to no value, and the values are printed  *)
(* in the order of their indices.                                          *)
PrefixTreeIsMap ==
    algorithm = "db" =>
        LET valued == {w \in DOMAIN local.nodes : local.nodes[w] # Nothing}
            sorted == SetToSortSeq(valued, Before)
        IN  /\ [w \in valued |-> local.nodes[w]] = local.first
            /\ local.inserted = [w \in DOMAIN local.first |-> 1]
            /\ DOMAIN local.nodes = UNION {WayTo(w) : w \in valued}
            /\ Printed = [i \in DOMAIN sorted |-> local.nodes[sorted[i]]]
=============================================================================
