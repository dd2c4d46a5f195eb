-------------------------------- MODULE Trees --------------------------------
(***************************************************************************)
(* BasicDS/Tree/BinaryTree.h: BinaryTree, BST and InorderIterator.  (The    *)
(* header lacks a parenthesis in PreorderIterator, which is left out.)      *)
(*                                                                          *)
(* Nodes are numbers in the order of their creation, and 0 is null: a tree  *)
(* is the sequences of their parents, children and data.  The root is 1.    *)
(***************************************************************************)
EXTENDS Integers, Sequences, SequencesExt, FiniteSetsExt

EmptyTree == [parentp |-> <<>>, leftp |-> <<>>, rightp |-> <<>>, data |-> <<>>]

Nodes(tree) == DOMAIN tree.data

\* NewNode, as the child of the parent that which names.
NewNode(tree, parentp, which, data) ==
  LET nodep == Len(tree.data) + 1
      children == [leftp |-> Append(tree.leftp, 0), rightp |-> Append(tree.rightp, 0)]
      linked == IF parentp = 0 THEN children ELSE [children EXCEPT ![which][parentp] = nodep]
  IN [parentp |-> Append(tree.parentp, parentp), data |-> Append(tree.data, data),
      leftp |-> linked.leftp, rightp |-> linked.rightp]

Children(tree, nodep) == SelectSeq(<<tree.leftp[nodep], tree.rightp[nodep]>>, LAMBDA c : c # 0)

\* BfsIterator: a node and the queue of those to visit after it.
BfsIterator(tree, nodep) == [nodep |-> nodep, to_visit |-> Children(tree, nodep)]

BfsIncrement(tree, it) ==
  IF it.to_visit = <<>> THEN [it EXCEPT !.nodep = 0]
  ELSE [nodep |-> Head(it.to_visit),
        to_visit |-> Tail(it.to_visit) \o Children(tree, Head(it.to_visit))]

\* The walk from an iterator to null.
RECURSIVE BfsWalk(_, _)
BfsWalk(tree, it) == IF it.nodep = 0 THEN <<>> ELSE <<it.nodep>> \o BfsWalk(tree, BfsIncrement(tree, it))

\* From an iterator on, the first node that has room for a child.
RECURSIVE FirstWithRoom(_, _)
FirstWithRoom(tree, it) ==
  IF tree.leftp[it.nodep] = 0 \/ tree.rightp[it.nodep] = 0 THEN it.nodep
  ELSE FirstWithRoom(tree, BfsIncrement(tree, it))

\* BinaryTree::Insert
BinaryTreeInsert(tree, data) ==
  IF tree.data = <<>> THEN NewNode(tree, 0, "leftp", data)
  ELSE LET parentp == FirstWithRoom(tree, BfsIterator(tree, 1))
       IN NewNode(tree, parentp, IF tree.leftp[parentp] = 0 THEN "leftp" ELSE "rightp", data)

\* BST::Insert, at a node: an equal datum goes to the left.
RECURSIVE InsertBelow(_, _, _)
InsertBelow(tree, nodep, data) ==
  LET which == IF tree.data[nodep] < data THEN "rightp" ELSE "leftp"
      child == tree[which][nodep]
  IN IF child = 0 THEN NewNode(tree, nodep, which, data) ELSE InsertBelow(tree, child, data)

BSTInsert(tree, data) ==
  IF tree.data = <<>> THEN NewNode(tree, 0, "leftp", data) ELSE InsertBelow(tree, 1, data)

\* InsertSorted of CreateBalanceTree.cpp: the middle first.
RECURSIVE InsertSorted(_, _, _, _)
InsertSorted(tree, nos, left, right) ==
  IF left > right THEN tree
  ELSE LET mid == (left + right) \div 2
       IN InsertSorted(InsertSorted(BinaryTreeInsert(tree, nos[mid + 1]), nos, left, mid - 1),
                       nos, mid + 1, right)

RECURSIVE LeftMostChild(_, _)
LeftMostChild(tree, nodep) ==
  IF tree.leftp[nodep] = 0 THEN nodep ELSE LeftMostChild(tree, tree.leftp[nodep])

\* Up from a node for as long as it is a right child; then its parent.
RECURSIVE ParentOfLeft(_, _)
ParentOfLeft(tree, nodep) ==
  LET parentp == tree.parentp[nodep]
  IN IF parentp # 0 /\ tree.rightp[parentp] = nodep THEN ParentOfLeft(tree, parentp) ELSE parentp

\* Variant of Successor: the parent, whichever child it is left from.
ParentAlways(tree, nodep) ==
  IF tree.rightp[nodep] # 0 THEN LeftMostChild(tree, tree.rightp[nodep]) ELSE tree.parentp[nodep]

\* InorderIterator::operator++
Successor(tree, nodep) ==
  IF tree.rightp[nodep] # 0 THEN LeftMostChild(tree, tree.rightp[nodep])
  ELSE ParentOfLeft(tree, nodep)

\* The walk from an iterator to end(), cut off when it is longer than the tree.
RECURSIVE Walk(_, _, _)
Walk(tree, nodep, steps) ==
  IF nodep = 0 \/ steps > Len(tree.data) THEN <<>>
  ELSE <<nodep>> \o Walk(tree, Successor(tree, nodep), steps + 1)

\* begin() to end()
Inorder(tree) ==
  IF tree.data = <<>> THEN <<>> ELSE Walk(tree, LeftMostChild(tree, 1), 0)

\* It asks the root for its children: a tree of one node is said to be empty,
\* and one of none is read through null.
IsEmpty(tree) ==
  IF tree.data = <<>> THEN "null" ELSE IF Children(tree, 1) = <<>> THEN "yes" ELSE "no"

RECURSIVE Height(_, _)
Height(tree, nodep) ==
  IF nodep = 0 THEN 0
  ELSE Max({Height(tree, tree.leftp[nodep]), Height(tree, tree.rightp[nodep])}) + 1

\* IsBalanced looks at every node.
IsBalanced(tree) ==
  \A n \in Nodes(tree) :
    Height(tree, tree.leftp[n]) - Height(tree, tree.rightp[n]) \in -1..1
=============================================================================
