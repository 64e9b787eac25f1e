----------------------------- MODULE RadixTree ------------------------------
(***************************************************************************)
(* The tree of radix.c.  Its nodes are blocks of the guest's allocator.  A *)
(* tree is the heap, the contents of the nodes by address (they outlive a  *)
(* release, which only writes in front of the block) and the global        *)
(* pointer tree; the functions return the tree they leave.                 *)
(*                                                                         *)
(* The two members of the union overlap: zero and one are the counters of  *)
(* a leaf, whose bit_pos is 1, and the pointers of an interior node.       *)
(***************************************************************************)
EXTENDS Allocator, Sequences, SequencesExt

CONSTANT BitPositions  \* the powers of two up to MAX_BITS (2^30)

ASSUME RadixTreeAssumption ==
  /\ BitPositions \subseteq Nat \ {0} /\ IsFiniteSet(BitPositions) /\ 1 \in BitPositions
  /\ \A bit \in BitPositions \ {1} : bit \div 2 \in BitPositions /\ 2 * (bit \div 2) = bit

MAX_BITS == Max(BitPositions)

\* The numbers that a tree holds, the int values that are not negative.
Number == 0 .. 2 * MAX_BITS - 1

NodeSize == 16

Node == [bit_pos : BitPositions, number : Number, zero : Nat, one : Nat]

NodeAddr == {addr + Header : addr \in HeapAddr}

\* The trees, as far as their memory goes, and the pointers that lead to a node.
Trees == [heap : Heaps, node : [NodeAddr -> Node], tree : NodeAddr \cup {NULL}]

\* The bits on which the nodes of a subtree may branch reach up to one of these; a
\* leaf branches on bit 1.
Levels == BitPositions \cup {0}

EmptyTree(nodes) ==
  [heap |-> init_heap, node |-> nodes, tree |-> NULL]

\* Mutant: as many as there is room for, also when there are fewer.
AtMostAll(count, room) == room

AtMost(count, room) == IF count < room THEN count ELSE room

BitOf(number, bit) == (number \div bit) % 2

\* Where a pointer to a node is kept: the global, or a member of a node.
Global == [node |-> NULL, side |-> "tree"]
Child(nptr, side) == [node |-> nptr, side |-> side]
Pointers == {Global} \cup {Child(nptr, side) : nptr \in NodeAddr, side \in {"zero", "one"}}

PointerAt(t, parent) ==
  IF parent = Global THEN t.tree ELSE t.node[parent.node][parent.side]

WithPointer(t, parent, nptr) ==
  IF parent = Global THEN [t EXCEPT !.tree = nptr]
  ELSE [t EXCEPT !.node[parent.node][parent.side] = nptr]

\* allocate(sizeof(struct node)), with its contents, at the end of a pointer.
WithNode(t, parent, contents) ==
  LET result == allocate(t.heap, NodeSize)
      placed == [t EXCEPT !.heap = result.heap, !.node = [@ EXCEPT ![result.ptr] = contents]]
  IN  WithPointer(placed, parent, result.ptr)

\* Which member of an interior node leads to a number.
Side(number, bit_pos) == IF BitOf(number, bit_pos) = 0 THEN "zero" ELSE "one"

Leaf(number) ==
  [bit_pos |-> 1, number |-> number,
   zero |-> IF number % 2 = 0 THEN 1 ELSE 0, one |-> number % 2]

\* An interior node above a subtree, which goes to the side that the number
\* does not take.
Above(nptr, number, bit_pos) ==
  [bit_pos |-> bit_pos, number |-> number,
   zero |-> IF BitOf(number, bit_pos) = 0 THEN NULL ELSE nptr,
   one |-> IF BitOf(number, bit_pos) = 0 THEN nptr ELSE NULL]

\* Mutant: the bits at and below the one the subtree branches on count as well.
DifferingBelow(number, other, high, low) ==
  {bit \in BitPositions : bit <= high /\ BitOf(number, bit) # BitOf(other, bit)}

\* bit_range: the bits up to high and above low, where the numbers differ.
Differing(number, other, high, low) ==
  {bit \in BitPositions :
     low < bit /\ bit <= high /\ BitOf(number, bit) # BitOf(other, bit)}

\* What leads to a node or nowhere; the rest are the counters of leaves.
Leading(t) == {parent \in Pointers : PointerAt(t, parent) \in NodeAddr \cup {NULL}}

\* Where the loop of add_number is done with its descent: at a pointer to no node,
\* to a subtree that the number parts from, or to its leaf; for each bit and pointer
\* that it has come to.
Descent(t, number) ==
  LET from[bit_pos \in Levels] == [parent \in Leading(t) |->
        LET nptr == PointerAt(t, parent)
            n == t.node[nptr]
            pos == AtMost(bit_pos, n.bit_pos)
        IN  IF nptr # NULL /\ Differing(number, n.number, bit_pos, n.bit_pos) = {} /\ pos > 1
            THEN from[pos \div 2][Child(nptr, Side(number, pos))]
            ELSE [parent |-> parent, bit_pos |-> bit_pos]]
  IN  from

\* The turn after an interior node was put above the subtree finds the pointer of
\* that node which leads nowhere.
add_number(t, number) ==
  LET end == Descent(t, number)[MAX_BITS][Global]
      nptr == PointerAt(t, end.parent)
      n == t.node[nptr]
      diff == Differing(number, n.number, end.bit_pos, n.bit_pos)
      above == WithNode(t, end.parent, Above(nptr, number, Max(diff)))
  IN  CASE nptr = NULL -> WithNode(t, end.parent, Leaf(number))
        [] nptr # NULL /\ diff # {} ->
             WithNode(above, Child(PointerAt(above, end.parent), Side(number, Max(diff))),
                      Leaf(number))
        [] nptr # NULL /\ diff = {} -> [t EXCEPT !.node[nptr][Side(number, 1)] = @ + 1]

-----------------------------------------------------------------------------
\* Mutant: the node is released and still linked.
RemovedDangling(t, parent) == [t EXCEPT !.heap = release(t.heap, PointerAt(t, parent))]

Removed(t, parent) ==
  [WithPointer(t, parent, NULL) EXCEPT !.heap = release(t.heap, PointerAt(t, parent))]

\* An empty node goes, and the pointer to it.
Pruned(t, parent) ==
  LET n == t.node[PointerAt(t, parent)]
  IN  IF n.zero = 0 /\ n.one = 0 THEN Removed(t, parent) ELSE t

Takings == [t : Trees, buffer : Seq(Number)]

\* What take_numbers_2 leaves: the tree, and the buffer filled up to its end; for each
\* highest bit that the subtree may branch on.
take_numbers_2(end) ==
  LET take[bit_pos \in Levels] == [s \in Takings |-> [parent \in Pointers |->
        LET t == s.t
            nptr == PointerAt(t, parent)
            n == t.node[nptr]
            room == end - Len(s.buffer)
            zeros == AtMost(n.zero, room)
            ones == AtMost(n.one, room - zeros)
            counted == [t EXCEPT !.node[nptr] = [n EXCEPT !.zero = n.zero - zeros,
                                                          !.one = n.one - ones]]
            low == take[bit_pos \div 2][s][Child(nptr, "zero")]
            high == take[bit_pos \div 2][low][Child(nptr, "one")]
        IN  CASE bit_pos = 0 \/ room <= 0 \/ nptr = NULL -> s
              [] bit_pos # 0 /\ room > 0 /\ nptr # NULL /\ n.bit_pos = 1 ->
                   [t |-> Pruned(counted, parent),
                    buffer |-> s.buffer \o [i \in 1 .. zeros |-> 2 * (n.number \div 2)]
                                        \o [i \in 1 .. ones |-> 2 * (n.number \div 2) + 1]]
              [] bit_pos # 0 /\ room > 0 /\ nptr # NULL /\ n.bit_pos > 1 ->
                   [high EXCEPT !.t = Pruned(@, parent)]]]
  IN  take

take_numbers(t, max_nums) ==
  take_numbers_2(max_nums)[MAX_BITS][[t |-> t, buffer |-> <<>>]][Global]

\* The nodes of the subtrees in the order in which release_tree releases them.
NodesBelow(t) ==
  LET below[bit_pos \in Levels] == [p \in NodeAddr \cup {NULL} |->
        IF bit_pos = 0 \/ p = NULL THEN <<>>
        ELSE IF t.node[p].bit_pos > 1
        THEN below[bit_pos \div 2][t.node[p].zero] \o below[bit_pos \div 2][t.node[p].one] \o <<p>>
        ELSE <<p>>]
  IN  below

\* The pointers stay where they were.
release_tree(t) == [t EXCEPT !.heap = FoldLeft(release, @, NodesBelow(t)[MAX_BITS][t.tree])]
=============================================================================
