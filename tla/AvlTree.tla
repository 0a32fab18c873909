------------------------------ MODULE AvlTree ------------------------------
(***************************************************************************)
(* The AVL tree of libexo (src/lib/libexo/private/__avl_tree.h): recursive *)
(* insertion and removal that pass the change of height back through a     *)
(* reference, and the single and double rotations that restore balance.    *)
(*                                                                         *)
(* A tree is a value: the node's key, its balance factor and its two       *)
(* subtrees.  Callers insert nodes that were just constructed (removal     *)
(* does not clear the subtree pointers of the node it returns) and only    *)
(* keys that are not in the tree; insertion of a conflicting key and       *)
(* removal of an absent one panic.                                         *)
(***************************************************************************)
EXTENDS Integers, Sequences

CONSTANT Keys             \* the keys of the nodes, positive integers

VARIABLES root,           \* AVL_tree::_root
          members         \* history: the keys inserted and not removed

avlVars == <<root, members>>

LEFT == 1
RIGHT == 2
opposite(dir) == 3 - dir

NULL == [key |-> 0, bf |-> 0, subtree |-> <<>>]
NewNode(k) == [key |-> k, bf |-> 0, subtree |-> <<NULL, NULL>>]

larger(a, b) == IF a > b THEN a ELSE b
smaller(a, b) == IF a < b THEN a ELSE b

\* MIN_CMP = -1: the key sought is below the node; EQ_CMP = 0; MAX_CMP = 1.
compare(t, k) == IF k < t.key THEN -1 ELSE IF k > t.key THEN 1 ELSE 0

\* A search for the minimum stops where there is no left subtree.
compare_min(t) == IF t.subtree[LEFT] = NULL THEN 0 ELSE -1

\* The operations that rebuild a tree return it with the change of height.
rotate_once(t, dir) ==
  LET other == opposite(dir)
      up == t.subtree[other]
      bf == IF dir = LEFT THEN up.bf - 1 ELSE up.bf + 1
      down == [t EXCEPT !.subtree[other] = up.subtree[dir], !.bf = -bf]
  IN [tree |-> [up EXCEPT !.subtree[dir] = down, !.bf = bf],
      change |-> IF up.bf = 0 THEN 0 ELSE 1]

rotate_twice(t, dir) ==
  LET other == opposite(dir)
      side == t.subtree[other]
      up == side.subtree[dir]
      bfOf(d) == IF d = LEFT THEN -larger(up.bf, 0) ELSE -smaller(up.bf, 0)
      down == [t EXCEPT !.subtree[other] = up.subtree[dir], !.bf = bfOf(dir)]
      aside == [side EXCEPT !.subtree[dir] = up.subtree[other], !.bf = bfOf(other)]
  IN [tree |-> [up EXCEPT !.subtree[dir] = down, !.subtree[other] = aside, !.bf = 0],
      change |-> 1]

\* A slip in rebalance: the child's own lean is ignored.
rebalance_once(t) ==
  CASE t.bf < -1 -> rotate_once(t, RIGHT)
    [] t.bf > 1 -> rotate_once(t, LEFT)
    [] OTHER -> [tree |-> t, change |-> 0]

rebalance(t) ==
  CASE t.bf < -1 /\ t.subtree[LEFT].bf = 1 -> rotate_twice(t, RIGHT)
    [] t.bf < -1 /\ t.subtree[LEFT].bf # 1 -> rotate_once(t, RIGHT)
    [] t.bf > 1 /\ t.subtree[RIGHT].bf = -1 -> rotate_twice(t, LEFT)
    [] t.bf > 1 /\ t.subtree[RIGHT].bf # -1 -> rotate_once(t, LEFT)
    [] OTHER -> [tree |-> t, change |-> 0]

RECURSIVE insert(_, _)
insert(t, k) ==
  IF t = NULL THEN [tree |-> NewNode(k), change |-> 1]
  ELSE LET result == compare(t, k)
           dir == IF result = -1 THEN LEFT ELSE RIGHT
           below == insert(t.subtree[dir], k)
           increase == result * below.change
           grown == [t EXCEPT !.subtree[dir] = below.tree, !.bf = @ + increase]
           balanced == rebalance(grown)
       IN IF increase # 0 /\ grown.bf # 0
          THEN [tree |-> balanced.tree, change |-> 1 - balanced.change]
          ELSE [tree |-> grown, change |-> 0]

\* A slip in remove: a height lost below is only passed on when this node needs rebalancing.
shrink_forgets(t, decrease, out) ==
  LET shrunk == [t EXCEPT !.bf = @ - decrease]
      balanced == rebalance(shrunk)
  IN [tree |-> balanced.tree, change |-> balanced.change, out |-> out]

\* What remove does on the way up, once a subtree lost `decrease` in height.
shrink(t, decrease, out) ==
  LET shrunk == [t EXCEPT !.bf = @ - decrease]
      balanced == rebalance(shrunk)
  IN CASE decrease # 0 /\ shrunk.bf # 0 ->
            [tree |-> balanced.tree, change |-> balanced.change, out |-> out]
       [] decrease # 0 /\ shrunk.bf = 0 -> [tree |-> shrunk, change |-> 1, out |-> out]
       [] OTHER -> [tree |-> shrunk, change |-> 0, out |-> out]

\* remove(n, root, change, cmp): min searches the successor (cmp = MIN_CMP);
\* out is the key of the node taken out.
RECURSIVE remove(_, _, _)
remove(t, k, min) ==
  LET result == IF min THEN compare_min(t) ELSE compare(t, k)
      dir == IF result = -1 THEN LEFT ELSE RIGHT
      l == t.subtree[LEFT]
      r == t.subtree[RIGHT]
  IN CASE result # 0 ->
            LET below == remove(t.subtree[dir], k, min)
            IN shrink([t EXCEPT !.subtree[dir] = below.tree], result * below.change, below.out)
       [] result = 0 /\ (l = NULL \/ r = NULL) ->
            [tree |-> IF r # NULL THEN r ELSE l, change |-> 1, out |-> t.key]
       [] OTHER ->
            LET next == remove(r, k, TRUE)
            IN shrink([t EXCEPT !.key = next.out, !.subtree[RIGHT] = next.tree],
                      next.change, t.key)

AvlInit == root = NULL /\ members = {}

insert_node(k) ==
  /\ k \notin members
  /\ root' = insert(root, k).tree
  /\ members' = members \cup {k}

remove_node(k) ==
  /\ k \in members
  /\ root' = remove(root, k, FALSE).tree
  /\ members' = members \ {k}

AvlNext == \E k \in Keys : insert_node(k) \/ remove_node(k)

RECURSIVE height(_)
height(t) == IF t = NULL THEN 0
             ELSE 1 + larger(height(t.subtree[LEFT]), height(t.subtree[RIGHT]))

\* AVL_node::validate: the balance factors and the order of parent and child.
RECURSIVE validate(_)
validate(t) ==
  t # NULL =>
    LET l == t.subtree[LEFT]
        r == t.subtree[RIGHT]
        diff == height(r) - height(l)
    IN /\ validate(l) /\ validate(r)
       /\ diff \in -1..1
       /\ diff = t.bf
       /\ l # NULL => compare(l, t.key) # -1
       /\ r # NULL => compare(r, t.key) # 1

RECURSIVE inorder(_)
inorder(t) == IF t = NULL THEN <<>>
              ELSE inorder(t.subtree[LEFT]) \o <<t.key>> \o inorder(t.subtree[RIGHT])

\* After any sequence of insert_node and remove_node the tree passes its own validate() and
\* read in order is exactly the members, sorted: no rotation or splice of a successor loses,
\* duplicates or misplaces a node, which validate() (parent and child only) does not see.
TreeHoldsMembers ==
  LET s == inorder(root)
  IN /\ validate(root)
     /\ {s[i] : i \in 1..Len(s)} = members
     /\ \A i \in 1..Len(s) - 1 : s[i] < s[i + 1]
=============================================================================
