------------------------------- MODULE Mbptree -------------------------------
(***************************************************************************)
(* The B+tree that indexes the segments (mbptree.c): mbptree_append and    *)
(* mbptree_leaf_floor with the lock word they share, the two iterators and *)
(* mbptree_free.  The header calls the tree thread safe; mqlog calls it    *)
(* under its mutex.  The constant Serialized says which is looked at.      *)
(*                                                                         *)
(* A node's data[] array is split into its keys, its values (a leaf) or    *)
(* children (another node), and the link of a full leaf to the next one.   *)
(* Every allocation may fail when AllocFails is TRUE.                      *)
(***************************************************************************)
EXTENDS MqlogErrno, Sequences, FiniteSets, SequencesExt

CONSTANTS
  Appenders, Finders,   \* the threads
  BranchFactor,
  CounterSize,          \* number of values of shared_lock, 2^32 in the code
  Serialized,           \* callers exclude one another with a mutex, as mqlog does
  AllocFails,           \* calloc may return NULL
  MaxKeys               \* bound: number of keys in the tree

ASSUME TreeAssumption ==
  /\ Appenders \cap Finders = {}
  /\ BranchFactor \in Nat /\ BranchFactor >= 3
  /\ CounterSize \in Nat /\ CounterSize > Cardinality(Finders)
  /\ Serialized \in BOOLEAN /\ AllocFails \in BOOLEAN
  /\ MaxKeys \in Nat

Threads == Appenders \cup Finders

VARIABLES
  lock,       \* [exclusive, shared]
  nodes,      \* node -> [leaf, parent, keys, vals, next]
  root, last_leaf,   \* NULL once the tree is freed
  pc, loc,    \* where each thread is, and its locals and last result
  appended,   \* history: the keys appended so far
  fault       \* a NULL pointer was followed

tree == <<nodes, root, last_leaf>>
vars == <<lock, tree, pc, loc, appended, fault>>

NULL     == 0
Free     == [exclusive |-> 0, shared |-> 0]
create_node(parent) == [leaf |-> FALSE, parent |-> parent, keys |-> <<>>, vals |-> <<>>, next |-> NULL]
create_leaf(parent) == [create_node(parent) EXCEPT !.leaf = TRUE]
Idle(rc) == [key |-> 0, old |-> Free, node |-> NULL, child |-> NULL, leaf |-> NULL, seen |-> 0, rc |-> rc]

(* mbptree_init *)
Init ==
  /\ lock = Free
  /\ nodes = [n \in {1} |-> create_leaf(NULL)]
  /\ root = 1 /\ last_leaf = 1
  /\ pc  = [t \in Threads |-> "idle"]
  /\ loc = [t \in Threads |-> Idle(0)]
  /\ appended = <<>>
  /\ fault = FALSE

At(t, label)   == ~ fault /\ pc[t] = label
Goto(t, label) == pc' = [pc EXCEPT ![t] = label]
Returns(t, rc) == loc' = [loc EXCEPT ![t].rc = rc]

(* A call can begin: with a mutex around the tree nobody else is in one. *)
MayCall(t) == At(t, "idle") /\ root # NULL /\ (Serialized => \A u \in Threads : pc[u] = "idle")

(* Mutant of mbptree_node_full: the space for the last value is not kept. *)
MutantFullLater(n) == Len(nodes[n].keys) >= BranchFactor

mbptree_node_full(n) == Len(nodes[n].keys) >= BranchFactor - 1
mbptree_is_root(n)   == nodes[n].parent = NULL
mbptree_midpoint     == BranchFactor \div 2

(* The nodes an allocation returns. *)
New(i) == Cardinality(DOMAIN nodes) + i

(* The nodes N with a node at x. *)
With(N, x, node) == [n \in DOMAIN N \cup {x} |-> IF n = x THEN node ELSE N[n]]

-----------------------------------------------------------------------------
(* mbptree_append *)

(* Mutant of Unlocked: only the exclusive part of the lock counts. *)
MutantIgnoresShared == lock.exclusive = 0

Unlocked == lock = Free

(* The compare-and-swap takes the lock only if nobody has it in any way. *)
mbptree_append(t, key) ==
  /\ MayCall(t)
  /\ IF Unlocked
     THEN /\ lock' = [exclusive |-> 1, shared |-> 0]
          /\ loc' = [loc EXCEPT ![t] = [Idle(0) EXCEPT !.key = key]]
          /\ Goto(t, "tryappend")
     ELSE loc' = [loc EXCEPT ![t] = Idle(ELIDXLK)] /\ UNCHANGED <<lock, pc>>
  /\ UNCHANGED <<tree, appended, fault>>

LastKey(keys) == IF keys = <<>> THEN -1 ELSE Last(keys)

(* Mutant of Refused: the lock is kept. *)
MutantRefusedKeepsLock(t) == Returns(t, ELIDXNM) /\ Goto(t, "idle")

(* A key that is not greater than the last one. *)
Refused(t) == Returns(t, ELIDXNM) /\ Goto(t, "unlock")

(* The value of a key is the key itself. *)
mbptree_tryappend(t) ==
  LET leaf == nodes[last_leaf]
      key  == loc[t].key
  IN  /\ At(t, "tryappend")
      /\ \/ /\ key <= LastKey(leaf.keys)
            /\ Refused(t)
            /\ UNCHANGED nodes
         \/ /\ key > LastKey(leaf.keys)
            /\ mbptree_node_full(last_leaf)
            /\ Goto(t, "new_leaf")
            /\ UNCHANGED <<nodes, loc>>
         \/ /\ key > LastKey(leaf.keys)
            /\ ~ mbptree_node_full(last_leaf)
            /\ nodes' = [nodes EXCEPT ![last_leaf].keys = Append(@, 0),
                                      ![last_leaf].vals = Append(@, NULL)]
            /\ Goto(t, "store_data")
            /\ UNCHANGED loc
      /\ UNCHANGED <<lock, root, last_leaf, appended, fault>>

(* leaf->size was incremented first; now come the key and the value. *)
StoreData(t) ==
  LET i == Len(nodes[last_leaf].keys)
  IN  /\ At(t, "store_data")
      /\ nodes' = [nodes EXCEPT ![last_leaf].keys[i] = loc[t].key,
                                ![last_leaf].vals[i] = loc[t].key]
      /\ appended' = Append(appended, loc[t].key)
      /\ Goto(t, "unlock")
      /\ UNCHANGED <<lock, root, last_leaf, loc, fault>>

(* The full leaf is left as it is and linked to a new one that gets the    *)
(* key.  If the full leaf is the root, both get a new root above them.     *)
LeafWith(parent, key) == [create_leaf(parent) EXCEPT !.keys = <<key>>, !.vals = <<key>>]

mbptree_new_root(t) ==
  LET key == loc[t].key
      up  == New(1)
      new == New(2)
      top == [create_node(NULL) EXCEPT !.keys = <<key>>, !.vals = <<last_leaf, new>>]
      lhs == [nodes EXCEPT ![last_leaf].parent = up, ![last_leaf].next = new]
  IN  /\ At(t, "new_leaf")
      /\ mbptree_is_root(last_leaf)
      /\ nodes' = With(With(lhs, up, top), new, LeafWith(up, key))
      /\ last_leaf' = new /\ root' = up
      /\ appended' = Append(appended, key)
      /\ Goto(t, "unlock")
      /\ UNCHANGED <<lock, loc, fault>>

(* Mutant of Linked: the full leaf is not linked to the new one. *)
MutantNoLink(new) == nodes

Linked(new) == [nodes EXCEPT ![last_leaf].next = new]

mbptree_new_leaf(t) ==
  LET parent == nodes[last_leaf].parent
  IN  /\ At(t, "new_leaf")
      /\ ~ mbptree_is_root(last_leaf)
      /\ nodes' = With(Linked(New(1)), New(1), LeafWith(parent, loc[t].key))
      /\ loc' = [loc EXCEPT ![t].leaf = New(1), ![t].child = New(1), ![t].node = parent]
      /\ Goto(t, "append_node")
      /\ UNCHANGED <<lock, root, last_leaf, appended, fault>>

(* With no memory for the leaf, the path that also has no new root to free *)
(* frees NULL and follows it.                                              *)
NewLeafFails(t) ==
  /\ At(t, "new_leaf")
  /\ AllocFails
  /\ IF mbptree_is_root(last_leaf)
     THEN Returns(t, ELALLC) /\ Goto(t, "unlock") /\ UNCHANGED <<nodes, fault>>
     ELSE /\ nodes' = [nodes EXCEPT ![last_leaf].parent = NULL]
          /\ fault' = TRUE
          /\ UNCHANGED <<pc, loc>>
  /\ UNCHANGED <<lock, root, last_leaf, appended>>

(* mbptree_append_leaf, mbptree_append_node: loc has the key and the child *)
(* to be added to a node.  The recursion goes up the tree, a step a level. *)
Appended(t) ==
  /\ last_leaf' = loc[t].leaf
  /\ appended' = Append(appended, Head(nodes[loc[t].leaf].keys))
  /\ Goto(t, "unlock")

mbptree_append_node(t) ==
  LET n == loc[t].node
  IN  /\ At(t, "append_node")
      /\ ~ mbptree_node_full(n)
      /\ nodes' = [nodes EXCEPT ![n].keys = Append(@, loc[t].key),
                                ![n].vals = Append(@, loc[t].child)]
      /\ Appended(t)
      /\ UNCHANGED <<lock, root, loc, fault>>

(* Mutant of Adopted: the children that move keep their old parent. *)
MutantOldParent(moved, child) == {child}

(* The nodes that learn of a new parent. *)
Adopted(moved, child) == {moved[i] : i \in DOMAIN moved} \cup {child}

(* mbptree_move_half_node: the keys and children of the full node `n'      *)
(* right of its middle key go to the new node, and the children learn of   *)
(* it.  The key and the child to be added follow them.                     *)
mbptree_move_half_node(n, new, parent, key, child) ==
  LET mid   == mbptree_midpoint
      full  == nodes[n]
      moved == SubSeq(full.vals, mid + 2, Len(full.vals))
      rhs   == [create_node(parent) EXCEPT
                  !.keys = Append(SubSeq(full.keys, mid + 2, Len(full.keys)), key),
                  !.vals = Append(moved, child)]
      lhs   == [full EXCEPT !.parent = parent,
                            !.keys = SubSeq(full.keys, 1, mid),
                            !.vals = SubSeq(full.vals, 1, mid + 1)]
  IN  [x \in DOMAIN nodes \cup {new} |->
         IF x = n THEN lhs
         ELSE IF x = new THEN rhs
         ELSE IF x \in Adopted(moved, child) THEN [nodes[x] EXCEPT !.parent = new]
         ELSE nodes[x]]

MidKey(n) == nodes[n].keys[mbptree_midpoint + 1]

mbptree_split_root(t) ==
  LET n   == loc[t].node
      up  == New(1)
      new == New(2)
      top == [create_node(NULL) EXCEPT !.keys = <<MidKey(n)>>, !.vals = <<n, new>>]
  IN  /\ At(t, "append_node")
      /\ mbptree_node_full(n) /\ mbptree_is_root(n)
      /\ nodes' = With(mbptree_move_half_node(n, new, up, loc[t].key, loc[t].child), up, top)
      /\ root' = up
      /\ Appended(t)
      /\ UNCHANGED <<lock, loc, fault>>

mbptree_split_node(t) ==
  LET n      == loc[t].node
      parent == nodes[n].parent
  IN  /\ At(t, "append_node")
      /\ mbptree_node_full(n) /\ ~ mbptree_is_root(n)
      /\ nodes' = mbptree_move_half_node(n, New(1), parent, loc[t].key, loc[t].child)
      /\ loc' = [loc EXCEPT ![t].key = MidKey(n), ![t].child = New(1), ![t].node = parent]
      /\ UNCHANGED <<lock, root, last_leaf, pc, appended, fault>>

(* "PANIC! the tree might be in an unconsistent state" (ELIDXPC): some     *)
(* nodes were changed before there was no memory for another.  The caller  *)
(* is told that the key is not in the tree, but it is in the last leaf.    *)
SplitFails(t) ==
  /\ At(t, "append_node")
  /\ AllocFails
  /\ mbptree_node_full(loc[t].node)
  /\ last_leaf' = loc[t].leaf
  /\ Returns(t, ELIDXPC)
  /\ Goto(t, "unlock")
  /\ UNCHANGED <<lock, nodes, root, appended, fault>>

AppendUnlock(t) ==
  /\ At(t, "unlock")
  /\ lock' = Free
  /\ Goto(t, "idle")
  /\ UNCHANGED <<tree, loc, appended, fault>>

AppenderStep(t) ==
  \/ mbptree_tryappend(t) \/ StoreData(t) \/ mbptree_new_root(t) \/ mbptree_new_leaf(t)
  \/ NewLeafFails(t) \/ mbptree_append_node(t) \/ mbptree_split_root(t)
  \/ mbptree_split_node(t) \/ SplitFails(t) \/ AppendUnlock(t)

-----------------------------------------------------------------------------
(* mbptree_leaf_floor: the lock word is read first, then incremented by a  *)
(* compare-and-swap; the decrement is a load and a store.                  *)

mbptree_leaf_floor(t, key) ==
  /\ MayCall(t)
  /\ \/ /\ loc' = [loc EXCEPT ![t] = [Idle(0) EXCEPT !.key = key, !.old = lock, !.seen = Len(appended)]]
        /\ Goto(t, "lock")
     \/ /\ AllocFails
        /\ loc' = [loc EXCEPT ![t] = Idle(ELALLC)]
        /\ UNCHANGED pc
  /\ UNCHANGED <<lock, tree, appended, fault>>

(* The new value is made from the one that was read, whose exclusive part  *)
(* may be set; only the expected value has it cleared.                     *)
FloorLock(t) ==
  LET old == loc[t].old
  IN  /\ At(t, "lock")
      /\ IF lock = [old EXCEPT !.exclusive = 0]
         THEN /\ lock' = [old EXCEPT !.shared = (@ + 1) % CounterSize]
              /\ Goto(t, "root")
              /\ UNCHANGED loc
         ELSE /\ Returns(t, ELIDXLK)
              /\ Goto(t, "idle")
              /\ UNCHANGED lock
      /\ UNCHANGED <<tree, appended, fault>>

FindRoot(t) ==
  /\ At(t, "root")
  /\ loc' = [loc EXCEPT ![t].node = root]
  /\ Goto(t, "find_leaf")
  /\ UNCHANGED <<lock, tree, appended, fault>>

(* Mutant of Greater: an equal key counts as greater. *)
MutantGoesLeft(keys, key) == {i \in DOMAIN keys : key <= keys[i]}

Greater(keys, key) == {i \in DOMAIN keys : key < keys[i]}

(* The child left of the first greater key, or else the last child. *)
mbptree_find_leaf(t) ==
  LET n       == nodes[loc[t].node]
      greater == Greater(n.keys, loc[t].key)
      i       == IF greater = {} THEN Len(n.keys) + 1 ELSE Min(greater)
  IN  /\ At(t, "find_leaf")
      /\ IF n.leaf
         THEN Goto(t, "load_shared") /\ UNCHANGED loc
         ELSE loc' = [loc EXCEPT ![t].node = n.vals[i]] /\ UNCHANGED pc
      /\ UNCHANGED <<lock, tree, appended, fault>>

LoadShared(t) ==
  /\ At(t, "load_shared")
  /\ loc' = [loc EXCEPT ![t].old = lock]
  /\ Goto(t, "store_shared")
  /\ UNCHANGED <<lock, tree, appended, fault>>

StoreShared(t) ==
  /\ At(t, "store_shared")
  /\ lock' = [lock EXCEPT !.shared = (loc[t].old.shared - 1) % CounterSize]
  /\ Goto(t, "scan")
  /\ UNCHANGED <<tree, loc, appended, fault>>

(* The scan of the leaf, without the lock: up to the first greater key.    *)
(* The iterator points to the last key met, or is invalid.                 *)
ScanLeaf(t) ==
  LET keys == nodes[loc[t].node].keys
      upto == {i \in DOMAIN keys : \A j \in 1 .. i : keys[j] <= loc[t].key}
  IN  /\ At(t, "scan")
      /\ loc' = [loc EXCEPT
                   ![t].child = IF upto = {} THEN NULL ELSE nodes[loc[t].node].vals[Max(upto)],
                   ![t].rc    = Cardinality(upto)]
      /\ Goto(t, "idle")
      /\ UNCHANGED <<lock, tree, appended, fault>>

FinderStep(t) ==
  \/ FloorLock(t) \/ FindRoot(t) \/ mbptree_find_leaf(t)
  \/ LoadShared(t) \/ StoreShared(t) \/ ScanLeaf(t)

(* The keys that mbptree_leaf_iterator_next goes through from the start of *)
(* a leaf: at the end of a leaf it follows the link in its last slot.      *)
KeysFrom[n \in DOMAIN nodes \cup {NULL}] ==
  IF n = NULL THEN <<>> ELSE nodes[n].keys \o KeysFrom[nodes[n].next]

LeafIteration(leaf) == KeysFrom[leaf]

(* Mutant of Children: the last child is forgotten. *)
MutantForgetsLastChild(n) == IF nodes[n].leaf THEN <<>> ELSE Front(nodes[n].vals)

(* The children of a node: one more than it has keys. *)
Children(n) == IF nodes[n].leaf THEN <<>> ELSE nodes[n].vals

(* The queue of the breadth-first iterator when it has come to its end.    *)
(* Moving its head to a node puts the node's children at the tail.         *)
mbptree_bfs_iteration ==
  LET queue[head \in 0 .. Cardinality(DOMAIN nodes)] ==
        IF head = 0 THEN <<root>>
        ELSE LET before == queue[head - 1]
             IN  IF head > Len(before) THEN before ELSE before \o Children(before[head])
  IN  queue[Cardinality(DOMAIN nodes)]

(* mbptree_free_node: a node is freed after its children. *)
mbptree_free_node(top) ==
  LET freed[n \in DOMAIN nodes] ==
        FlattenSeq([i \in DOMAIN Children(n) |-> freed[Children(n)[i]]]) \o <<n>>
  IN  freed[top]

(* mbptree_free, which mqlog_close calls when nobody is in the tree.       *)
mbptree_free ==
  LET freed == mbptree_free_node(root)
  IN  /\ root # NULL /\ \A t \in Threads : At(t, "idle")
      /\ nodes' = [n \in DOMAIN nodes \ ToSet(freed) |-> nodes[n]]
      /\ root' = NULL /\ last_leaf' = NULL
      /\ fault' = ~ IsInjective(freed)
      /\ UNCHANGED <<lock, pc, loc, appended>>

-----------------------------------------------------------------------------
(* The n-th key that is offered is 2n, so that every other key is absent;  *)
(* a key that is not greater than the last one may be offered too.         *)
Next ==
  \/ \E t \in Appenders :
       \/ AppenderStep(t)
       \/ Len(appended) < MaxKeys /\ mbptree_append(t, 2 * (Len(appended) + 1))
       \/ appended # <<>> /\ mbptree_append(t, LastKey(appended))
  \/ \E t \in Finders :
       FinderStep(t) \/ \E key \in 0 .. 2 * MaxKeys + 1 : mbptree_leaf_floor(t, key)
  \/ mbptree_free

Spec == Init /\ [][Next]_vars

-----------------------------------------------------------------------------
(* Properties *)

Labels == {"idle", "tryappend", "store_data", "new_leaf", "append_node", "unlock",
           "lock", "root", "find_leaf", "load_shared", "store_shared", "scan"}

(* Every variable has its type; every node that a node, `root' or          *)
(* `last_leaf' points to exists, a node has one value more than keys       *)
(* unless it is a leaf, and no node exceeds its data[] array.              *)
TypeOK ==
  /\ lock \in [exclusive : {0, 1}, shared : Nat]
  /\ DOMAIN nodes = 1 .. Cardinality(DOMAIN nodes)
  /\ {root, last_leaf} \subseteq DOMAIN nodes \cup {NULL}
  /\ \A n \in DOMAIN nodes :
       /\ nodes[n].leaf \in BOOLEAN
       /\ {nodes[n].parent, nodes[n].next} \subseteq DOMAIN nodes \cup {NULL}
       /\ Len(nodes[n].keys) <= BranchFactor - 1
       /\ nodes[n].leaf  => Len(nodes[n].vals) = Len(nodes[n].keys)
       /\ ~ nodes[n].leaf => /\ Len(nodes[n].vals) = Len(nodes[n].keys) + 1
                             /\ \A i \in DOMAIN nodes[n].vals : nodes[n].vals[i] \in DOMAIN nodes
  /\ pc \in [Threads -> Labels]
  /\ fault \in BOOLEAN

Quiescent == ~ fault /\ root # NULL /\ \A t \in Threads : pc[t] = "idle"

(* The greatest of the first n keys that is at most `key', or NULL. *)
FloorOf(n, key) == LET le == {k \in {appended[i] : i \in 1 .. n} : k <= key}
                   IN  IF le = {} THEN NULL ELSE Max(le)

(* mbptree_leaf_floor finds the greatest key at most the one it is given,  *)
(* among the keys appended when it was called or while it ran, through all *)
(* the splits of leaves, nodes and root.                                   *)
FloorCorrect ==
  \A t \in Finders : pc[t] = "idle" /\ loc[t].rc >= 0 =>
    \E n \in loc[t].seen .. Len(appended) : loc[t].child = FloorOf(n, loc[t].key)

(* Following the leaves' links from the first one meets every key, in the  *)
(* order they were appended: what mqlog_close relies on to close every     *)
(* segment.                                                                *)
IterationComplete == Quiescent => LeafIteration(1) = appended

(* How far a node is from the root. *)
Depth[n \in DOMAIN nodes \cup {NULL}] ==
  IF n = NULL THEN 0 ELSE 1 + Depth[nodes[n].parent]

(* Every leaf is equally far from the root, and a node's parent pointer    *)
(* leads to the node that has it as a child: the splits up the tree follow *)
(* these pointers.                                                         *)
Balanced ==
  Quiescent =>
    /\ \A m, n \in DOMAIN nodes : nodes[m].leaf /\ nodes[n].leaf => Depth[m] = Depth[n]
    /\ \A m, n \in DOMAIN nodes :
         n \in Range(IF nodes[m].leaf THEN <<>> ELSE nodes[m].vals) <=> nodes[n].parent = m

(* The breadth-first iterator meets every node once, the leaves last, and  *)
(* the keys of the leaves as they were appended; its queue never needs     *)
(* more slots than there are nodes.                                        *)
BfsComplete ==
  Quiescent =>
    LET queue == mbptree_bfs_iteration
    IN  /\ ToSet(queue) = DOMAIN nodes /\ Len(queue) = Cardinality(DOMAIN nodes)
        /\ \E inner \in 0 .. Len(queue) :
             LET leaves == SubSeq(queue, inner + 1, Len(queue))
             IN  /\ \A i \in DOMAIN queue : nodes[queue[i]].leaf <=> i > inner
                 /\ FlattenSeq([i \in DOMAIN leaves |-> nodes[leaves[i]].keys]) = appended

(* mbptree_free gives every node back, and none twice, whatever splits the *)
(* tree went through.                                                      *)
FreesAll == root = NULL => DOMAIN nodes = {} /\ ~ fault

(* The lock is free when nobody is in the tree: no path of the two         *)
(* functions, and no interleaving of them, leaves it locked.               *)
LockReleased == Quiescent => lock = Free

Appending(t) == pc[t] \in {"tryappend", "store_data", "new_leaf", "append_node"}
Finding(t)   == pc[t] \in {"root", "find_leaf"}

(* The lock keeps mbptree_append apart from other appends and from a       *)
(* descent to a leaf.  With more than one finder it does not: the          *)
(* decrement of the shared counter is not atomic.                          *)
Exclusion ==
  \A t \in Appenders : Appending(t) =>
    /\ \A u \in Appenders \ {t} : ~ Appending(u)
    /\ \A u \in Finders : ~ Finding(u)
=============================================================================
