-------------------------- MODULE MbptreeLockProofs --------------------------
(***************************************************************************)
(* The lock word of the tree.  It keeps an append apart from other appends *)
(* and from a descent to a leaf, for any number of appending threads, any  *)
(* branch factor and any number of keys, as long as at most one thread     *)
(* looks keys up; and with a mutex around the calls it is always given     *)
(* back.                                                                   *)
(***************************************************************************)
EXTENDS Mbptree, FiniteSetTheorems, TLAPS

HoldingLabels == {"tryappend", "store_data", "new_leaf", "append_node", "unlock"}
InsideLabels  == {"root", "find_leaf", "load_shared", "store_shared"}

Holding(t) == pc[t] \in HoldingLabels
Inside(t)  == pc[t] \in InsideLabels

LockWord == [exclusive : {0, 1}, shared : Nat]
Taken    == [exclusive |-> 1, shared |-> 0]

(* What the steps read of the threads and the lock has its type. *)
LockTypes ==
  /\ lock \in LockWord
  /\ pc \in [Threads -> Labels]
  /\ \A t \in Appenders : pc[t] \in HoldingLabels \cup {"idle"}
  /\ \A t \in Finders : pc[t] \in InsideLabels \cup {"idle", "lock", "scan"}
  /\ DOMAIN loc = Threads
  /\ \A t \in Threads : "old" \in DOMAIN loc[t]
  /\ \A t \in Finders : loc[t].old \in LockWord

(* An appender between its compare-and-swap and its unlock is the only one *)
(* and accounts for the whole word.  The exclusive part may also be set    *)
(* with nobody appending: mbptree_leaf_floor can leave it set.             *)
AppenderHolds ==
  \A t \in Appenders : Holding(t) =>
    lock = Taken /\ \A u \in Appenders : Holding(u) => u = t

(* The shared part counts the finder, and what the finder has read of it   *)
(* is still its value: nobody else changes it.                             *)
FinderCounted ==
  \A t \in Finders :
    /\ lock.shared = IF Inside(t) THEN 1 ELSE 0
    /\ pc[t] = "lock" => loc[t].old.shared = 0
    /\ pc[t] = "store_shared" => loc[t].old.shared = 1

LockInv == LockTypes /\ AppenderHolds /\ FinderCounted

-----------------------------------------------------------------------------
(* The counter does not wrap around when the only finder increments it. *)
LEMMA CounterAboveOne ==
  ASSUME \A f, g \in Finders : f = g, NEW t \in Finders
  PROVE  CounterSize \in Nat /\ CounterSize > 1
<1>1. Finders = {t}
  OBVIOUS
<1>2. Cardinality({t}) = 1
  BY FS_Singleton
<1> QED BY <1>1, <1>2, TreeAssumption

(* Initially nobody is in the tree and the lock is free. *)
LEMMA InitLock == Init => LockInv
BY DEF Init, LockInv, LockTypes, AppenderHolds, FinderCounted, Holding, Inside, HoldingLabels,
       InsideLabels, LockWord, Free, Idle, Labels, Threads

(* A step of one thread that leaves the lock alone and keeps the thread on *)
(* its side of it preserves the invariant.                                 *)
LEMMA QuietThread ==
  ASSUME LockInv, NEW t \in Threads, NEW l \in Labels,
         lock' = lock, Goto(t, l),
         t \in Appenders => /\ l \in HoldingLabels \cup {"idle"}
                            /\ l \in HoldingLabels => Holding(t),
         t \in Finders => /\ l \in InsideLabels \cup {"idle", "scan"}
                          /\ l \in InsideLabels <=> Inside(t)
                          /\ l # "store_shared",
         DOMAIN loc' = Threads,
         \A u \in Threads : "old" \in DOMAIN loc'[u] /\ loc'[u].old = loc[u].old
  PROVE  LockInv'
<1>1. pc' = [pc EXCEPT ![t] = l]
  BY DEF Goto
<1>2. /\ pc' \in [Threads -> Labels]
      /\ pc'[t] = l
      /\ \A u \in Threads : u # t => pc'[u] = pc[u]
  BY <1>1 DEF LockInv, LockTypes
<1>3. LockTypes'
  BY <1>2 DEF LockInv, LockTypes, Threads
<1>4. AppenderHolds'
  BY <1>2 DEF LockInv, AppenderHolds, Holding, Threads
<1>5. FinderCounted'
  BY <1>2 DEF LockInv, FinderCounted, Inside, Threads, InsideLabels
<1> QED BY <1>3, <1>4, <1>5 DEF LockInv

(* The same when the step does not move the thread either. *)
LEMMA StillThread ==
  ASSUME LockInv, lock' = lock, pc' = pc, DOMAIN loc' = Threads,
         \A u \in Threads : "old" \in DOMAIN loc'[u],
         \A u \in Finders : loc'[u].old \in LockWord,
         \A u \in Finders : pc[u] # "idle" => loc'[u].old = loc[u].old
  PROVE  LockInv'
BY DEF LockInv, LockTypes, AppenderHolds, FinderCounted, Holding, Inside

-----------------------------------------------------------------------------
(* Appenders *)

(* Stores in a thread's result, or in where it is in the tree, leave what  *)
(* it has read of the lock as it is.                                       *)
OldKept == /\ DOMAIN loc' = Threads
           /\ \A u \in Threads : "old" \in DOMAIN loc'[u] /\ loc'[u].old = loc[u].old

(* Unchanged locals. *)
LEMMA LocSame == ASSUME LockInv, loc' = loc PROVE OldKept
BY DEF LockInv, LockTypes, OldKept

(* A return code is no part of the lock word. *)
LEMMA LocReturns == ASSUME LockInv, NEW t \in Threads, NEW rc, Returns(t, rc) PROVE OldKept
BY DEF LockInv, LockTypes, OldKept, Returns

(* Nor is the place in the tree. *)
LEMMA LocMoves ==
  ASSUME LockInv, NEW t \in Threads, NEW a, NEW b, NEW c,
         \/ loc' = [loc EXCEPT ![t].leaf = a, ![t].child = b, ![t].node = c]
         \/ loc' = [loc EXCEPT ![t].key = a, ![t].child = b, ![t].node = c]
         \/ loc' = [loc EXCEPT ![t].child = a, ![t].rc = b]
         \/ loc' = [loc EXCEPT ![t].node = a]
  PROVE  OldKept
BY DEF LockInv, LockTypes, OldKept

(* An appender that holds the lock and keeps it. *)
LEMMA HolderMoves ==
  ASSUME LockInv, NEW t \in Appenders, Holding(t), lock' = lock, OldKept,
         pc' = pc \/ \E l \in HoldingLabels : Goto(t, l)
  PROVE  LockInv'
<1>1. CASE pc' = pc
  BY <1>1, StillThread DEF LockInv, LockTypes, OldKept, Threads
<1>2. CASE \E l \in HoldingLabels : Goto(t, l)
  <2>1. PICK l \in HoldingLabels : Goto(t, l)
    BY <1>2
  <2>2. l \in Labels /\ t \in Threads /\ t \notin Finders
    BY TreeAssumption DEF HoldingLabels, Labels, Threads
  <2> QED BY <2>1, <2>2, QuietThread DEF OldKept
<1> QED BY <1>1, <1>2

(* mbptree_tryappend keeps the lock on each of its three ways. *)
LEMMA TryAppendLock ==
  ASSUME LockInv, NEW t \in Appenders, mbptree_tryappend(t) PROVE LockInv'
<1>1. t \in Threads
  BY DEF Threads
<1>2. Holding(t) /\ lock' = lock
  BY DEF mbptree_tryappend, At, Holding, HoldingLabels
<1>3. loc' = loc \/ Returns(t, ELIDXNM)
  BY DEF mbptree_tryappend, Refused
<1>4. \E l \in HoldingLabels : Goto(t, l)
  BY DEF mbptree_tryappend, Refused, HoldingLabels
<1> QED BY <1>1, <1>2, <1>3, <1>4, LocSame, LocReturns, HolderMoves

(* So does the store of the key and the value. *)
LEMMA StoreDataLock ==
  ASSUME LockInv, NEW t \in Appenders, StoreData(t) PROVE LockInv'
<1>1. Holding(t) /\ lock' = lock /\ loc' = loc /\ Goto(t, "unlock")
  BY DEF StoreData, At, Holding, HoldingLabels
<1> QED BY <1>1, LocSame, HolderMoves DEF HoldingLabels

(* So does the new root above a full leaf. *)
LEMMA NewRootLock ==
  ASSUME LockInv, NEW t \in Appenders, mbptree_new_root(t) PROVE LockInv'
<1>1. Holding(t) /\ lock' = lock /\ loc' = loc /\ Goto(t, "unlock")
  BY Zenon DEF mbptree_new_root, At, Holding, HoldingLabels
<1> QED BY <1>1, LocSame, HolderMoves DEF HoldingLabels

(* So does the new leaf next to a full one. *)
LEMMA NewLeafLock ==
  ASSUME LockInv, NEW t \in Appenders, mbptree_new_leaf(t) PROVE LockInv'
<1>1. Holding(t) /\ lock' = lock /\ Goto(t, "append_node")
  BY Zenon DEF mbptree_new_leaf, At, Holding, HoldingLabels
<1>2. PICK a, b, c : loc' = [loc EXCEPT ![t].leaf = a, ![t].child = b, ![t].node = c]
  BY Zenon DEF mbptree_new_leaf
<1>3. OldKept
  BY <1>2, LocMoves DEF Threads
<1> QED BY <1>1, <1>3, HolderMoves DEF HoldingLabels

(* So does a failed allocation, whether it is reported or not survived. *)
LEMMA NewLeafFailsLock ==
  ASSUME LockInv, NEW t \in Appenders, NewLeafFails(t) PROVE LockInv'
<1>1. Holding(t) /\ lock' = lock
  BY DEF NewLeafFails, At, Holding, HoldingLabels
<1>2. \/ Returns(t, ELALLC) /\ Goto(t, "unlock")
      \/ pc' = pc /\ loc' = loc
  BY DEF NewLeafFails
<1>3. OldKept
  BY <1>2, LocSame, LocReturns DEF Threads
<1> QED BY <1>1, <1>2, <1>3, HolderMoves DEF HoldingLabels

(* So does the insertion of a child in a node that has room. *)
LEMMA AppendNodeLock ==
  ASSUME LockInv, NEW t \in Appenders, mbptree_append_node(t) PROVE LockInv'
<1>1. Holding(t) /\ lock' = lock /\ loc' = loc /\ Goto(t, "unlock")
  BY DEF mbptree_append_node, Appended, At, Holding, HoldingLabels
<1> QED BY <1>1, LocSame, HolderMoves DEF HoldingLabels

(* So does the split of the root. *)
LEMMA SplitRootLock ==
  ASSUME LockInv, NEW t \in Appenders, mbptree_split_root(t) PROVE LockInv'
<1>1. Holding(t) /\ lock' = lock /\ loc' = loc /\ Goto(t, "unlock")
  BY Zenon DEF mbptree_split_root, Appended, At, Holding, HoldingLabels
<1> QED BY <1>1, LocSame, HolderMoves DEF HoldingLabels

(* So does the split of an inner node, which goes on one level up. *)
LEMMA SplitNodeLock ==
  ASSUME LockInv, NEW t \in Appenders, mbptree_split_node(t) PROVE LockInv'
<1>1. Holding(t) /\ lock' = lock /\ pc' = pc
  BY Zenon DEF mbptree_split_node, At, Holding, HoldingLabels
<1>2. PICK a, b, c : loc' = [loc EXCEPT ![t].key = a, ![t].child = b, ![t].node = c]
  BY Zenon DEF mbptree_split_node
<1>3. OldKept
  BY <1>2, LocMoves DEF Threads
<1> QED BY <1>1, <1>3, HolderMoves

(* So does a split for which there is no memory. *)
LEMMA SplitFailsLock ==
  ASSUME LockInv, NEW t \in Appenders, SplitFails(t) PROVE LockInv'
<1>1. Holding(t) /\ lock' = lock /\ Returns(t, ELIDXPC) /\ Goto(t, "unlock")
  BY DEF SplitFails, At, Holding, HoldingLabels
<1>2. OldKept
  BY <1>1, LocReturns DEF Threads
<1> QED BY <1>1, <1>2, HolderMoves DEF HoldingLabels

(* The unlock: the only holder leaves, and no finder was counted. *)
LEMMA AppendUnlockLock ==
  ASSUME LockInv, NEW t \in Appenders, AppendUnlock(t) PROVE LockInv'
<1>1. /\ pc[t] = "unlock" /\ lock' = Free /\ loc' = loc
      /\ pc' = [pc EXCEPT ![t] = "idle"]
  BY DEF AppendUnlock, At, Goto
<1>2. t \in Threads /\ t \notin Finders
  BY TreeAssumption DEF Threads
<1>3. /\ pc' \in [Threads -> Labels] /\ pc'[t] = "idle"
      /\ \A u \in Threads : u # t => pc'[u] = pc[u]
  BY <1>1, <1>2 DEF LockInv, LockTypes, Labels
<1>4. lock = Taken /\ \A u \in Appenders : Holding(u) => u = t
  BY <1>1 DEF LockInv, AppenderHolds, Holding, HoldingLabels
<1>5. LockTypes'
  BY <1>1, <1>2, <1>3 DEF LockInv, LockTypes, LockWord, Free, Threads
<1>6. AppenderHolds'
  BY <1>3, <1>4 DEF AppenderHolds, Holding, HoldingLabels, Threads
<1>7. FinderCounted'
  BY <1>1, <1>2, <1>3, <1>4 DEF LockInv, FinderCounted, Inside, Threads, Taken, Free
<1> QED BY <1>5, <1>6, <1>7 DEF LockInv

(* The compare-and-swap takes a free lock: nobody holds it, no finder is   *)
(* counted in it.                                                          *)
LEMMA AppendLock ==
  ASSUME LockInv, NEW t \in Appenders, NEW key, mbptree_append(t, key) PROVE LockInv'
<1>1. t \in Threads /\ t \notin Finders
  BY TreeAssumption DEF Threads
<1>2. pc[t] = "idle"
  BY DEF mbptree_append, MayCall, At
<1>3. DOMAIN loc' = Threads /\ \A u \in Threads : "old" \in DOMAIN loc'[u]
  BY DEF mbptree_append, Unlocked, LockInv, LockTypes, Idle
<1>4. \A u \in Threads : u # t => loc'[u] = loc[u]
  BY DEF mbptree_append, Unlocked, LockInv, LockTypes
<1>5. CASE lock # Free
  <2>1. lock' = lock /\ pc' = pc
    BY <1>5 DEF mbptree_append, Unlocked
  <2>2. \A u \in Finders : loc'[u].old = loc[u].old /\ loc'[u].old \in LockWord
    BY <1>1, <1>4 DEF LockInv, LockTypes, Threads
  <2> QED BY <2>1, <2>2, <1>3, StillThread
<1>6. CASE lock = Free
  <2>1. lock' = Taken /\ pc' = [pc EXCEPT ![t] = "tryappend"]
    BY <1>6 DEF mbptree_append, Unlocked, Goto, Taken
  <2>2. /\ pc' \in [Threads -> Labels] /\ pc'[t] = "tryappend"
        /\ \A u \in Threads : u # t => pc'[u] = pc[u]
    BY <2>1, <1>1 DEF LockInv, LockTypes, Labels
  <2>3. \A u \in Appenders : ~ Holding(u)
    BY <1>6 DEF LockInv, AppenderHolds, Free, Taken
  <2>4. \A u \in Finders : u \in Threads /\ u # t
    BY <1>1 DEF Threads
  <2>5. LockTypes'
    BY <2>1, <2>2, <2>4, <1>1, <1>3, <1>4
    DEF LockInv, LockTypes, LockWord, Taken, HoldingLabels, Threads
  <2>6. AppenderHolds'
    BY <2>1, <2>2, <2>3 DEF AppenderHolds, Holding, Threads
  <2>7. FinderCounted'
    BY <2>1, <2>2, <2>4, <1>4, <1>6 DEF LockInv, FinderCounted, Inside, Taken, Free
  <2> QED BY <2>5, <2>6, <2>7 DEF LockInv
<1> QED BY <1>5, <1>6

(* Every step of mbptree_append after it has the lock. *)
LEMMA AppenderLock ==
  ASSUME LockInv, NEW t \in Appenders, AppenderStep(t) PROVE LockInv'
BY TryAppendLock, StoreDataLock, NewRootLock, NewLeafLock, NewLeafFailsLock, AppendNodeLock,
   SplitRootLock, SplitNodeLock, SplitFailsLock, AppendUnlockLock DEF AppenderStep

-----------------------------------------------------------------------------
(* The finder *)

(* A step of the finder that leaves the lock alone. *)
LEMMA FinderMoves ==
  ASSUME LockInv, NEW t \in Finders, lock' = lock, OldKept,
         \/ pc' = pc
         \/ \E l \in {"find_leaf", "load_shared"} : Goto(t, l) /\ Inside(t)
         \/ Goto(t, "idle") /\ ~ Inside(t)
  PROVE  LockInv'
<1>1. CASE pc' = pc
  BY <1>1, StillThread DEF LockInv, LockTypes, OldKept, Threads
<1>2. t \in Threads /\ t \notin Appenders
  BY TreeAssumption DEF Threads
<1>3. CASE \E l \in {"find_leaf", "load_shared"} : Goto(t, l) /\ Inside(t)
  <2>1. PICK l \in {"find_leaf", "load_shared"} : Goto(t, l) /\ Inside(t)
    BY <1>3
  <2>2. l \in Labels /\ l \in InsideLabels /\ l # "store_shared"
    BY DEF Labels, InsideLabels
  <2> QED BY <2>1, <2>2, <1>2, QuietThread DEF OldKept
<1>4. CASE Goto(t, "idle") /\ ~ Inside(t)
  <2>1. "idle" \in Labels /\ "idle" \notin InsideLabels
    BY DEF Labels, InsideLabels
  <2> QED BY <2>1, <1>2, <1>4, QuietThread DEF OldKept
<1> QED BY <1>1, <1>3, <1>4

(* What a new call of the finder keeps of the lock word. *)
LEMMA ExceptOld ==
  ASSUME NEW r, "old" \in DOMAIN r, NEW a, NEW b, NEW c
  PROVE  /\ "old" \in DOMAIN [r EXCEPT !.key = a, !.old = b, !.seen = c]
         /\ [r EXCEPT !.key = a, !.old = b, !.seen = c].old = b
OBVIOUS

(* The finder starts from the lock word as it is, in which nobody is       *)
(* counted.                                                                *)
LEMMA LeafFloorLock ==
  ASSUME LockInv, NEW t \in Finders, NEW key, mbptree_leaf_floor(t, key),
         \A f, g \in Finders : f = g
  PROVE  LockInv'
<1>1. t \in Threads /\ t \notin Appenders
  BY TreeAssumption DEF Threads
<1>2. lock' = lock /\ pc[t] = "idle"
  BY DEF mbptree_leaf_floor, MayCall, At
<1>3. lock.shared = 0
  BY <1>2 DEF LockInv, FinderCounted, Inside, InsideLabels
<1>4. /\ DOMAIN loc' = Threads /\ \A u \in Threads : "old" \in DOMAIN loc'[u]
      /\ loc'[t].old \in {lock, Free}
  <2>1. PICK new :
          /\ loc' = [loc EXCEPT ![t] = new]
          /\ \/ new = [Idle(0) EXCEPT !.key = key, !.old = lock, !.seen = Len(appended)]
             \/ new = Idle(ELALLC)
    BY Zenon DEF mbptree_leaf_floor
  <2>2. "old" \in DOMAIN new /\ new.old \in {lock, Free}
    <3>1. CASE new = Idle(ELALLC)
      BY <3>1 DEF Idle
    <3>2. CASE new = [Idle(0) EXCEPT !.key = key, !.old = lock, !.seen = Len(appended)]
      <4>1. "old" \in DOMAIN Idle(0)
        BY DEF Idle
      <4>2. "old" \in DOMAIN new /\ new.old = lock
        BY <3>2, <4>1, ExceptOld, Zenon
      <4> QED BY <4>2
    <3> QED BY <2>1, <3>1, <3>2, Zenon
  <2>3. loc'[t] = new /\ \A u \in Threads : u # t => loc'[u] = loc[u]
    BY <2>1, <1>1 DEF LockInv, LockTypes
  <2> QED BY <2>1, <2>2, <2>3 DEF LockInv, LockTypes
<1>5. loc'[t].old \in LockWord /\ loc'[t].old.shared = 0
  BY <1>3, <1>4 DEF LockInv, LockTypes, LockWord, Free
<1>6. CASE pc' = pc
  BY <1>2, <1>4, <1>5, <1>6, StillThread
<1>7. CASE pc' = [pc EXCEPT ![t] = "lock"]
  <2>1. /\ pc' \in [Threads -> Labels] /\ pc'[t] = "lock"
        /\ \A u \in Threads : u # t => pc'[u] = pc[u]
    BY <1>1, <1>7 DEF LockInv, LockTypes, Labels
  <2>2. LockTypes'
    BY <2>1, <1>1, <1>2, <1>4, <1>5 DEF LockInv, LockTypes, Threads
  <2>3. AppenderHolds'
    BY <2>1, <1>1, <1>2 DEF LockInv, AppenderHolds, Holding, Threads
  <2>4. FinderCounted'
    BY <2>1, <1>2, <1>3, <1>5 DEF FinderCounted, Inside, InsideLabels
  <2> QED BY <2>2, <2>3, <2>4 DEF LockInv
<1> QED BY <1>6, <1>7 DEF mbptree_leaf_floor, Goto

(* The compare-and-swap succeeds only if the exclusive part is clear, so   *)
(* that nobody is appending, even when it sets that part again.            *)
LEMMA FloorLockLock ==
  ASSUME LockInv, NEW t \in Finders, FloorLock(t), \A f, g \in Finders : f = g
  PROVE  LockInv'
<1>1. t \in Threads /\ t \notin Appenders
  BY TreeAssumption DEF Threads
<1>2. pc[t] = "lock"
  BY DEF FloorLock, At
<1>3. ~ Inside(t) /\ loc[t].old \in LockWord /\ loc[t].old.shared = 0
  BY <1>2 DEF LockInv, LockTypes, FinderCounted, Inside, InsideLabels
<1>4. CASE lock # [loc[t].old EXCEPT !.exclusive = 0]
  <2>1. lock' = lock /\ Returns(t, ELIDXLK) /\ Goto(t, "idle")
    BY <1>4 DEF FloorLock
  <2> QED BY <2>1, <1>1, <1>3, LocReturns, FinderMoves
<1>5. CASE lock = [loc[t].old EXCEPT !.exclusive = 0]
  <2>1. /\ lock' = [loc[t].old EXCEPT !.shared = (@ + 1) % CounterSize]
        /\ pc' = [pc EXCEPT ![t] = "root"] /\ loc' = loc
    BY <1>5 DEF FloorLock, Goto
  <2>2. (0 + 1) % CounterSize = 1
    BY CounterAboveOne
  <2>3. lock' \in LockWord /\ lock'.shared = 1
    BY <2>1, <2>2, <1>3 DEF LockWord
  <2>4. lock.exclusive = 0
    BY <1>3, <1>5 DEF LockWord
  <2>5. \A u \in Appenders : ~ Holding(u)
    BY <2>4 DEF LockInv, AppenderHolds, Taken
  <2>6. /\ pc' \in [Threads -> Labels] /\ pc'[t] = "root"
        /\ \A u \in Threads : u # t => pc'[u] = pc[u]
    BY <2>1, <1>1 DEF LockInv, LockTypes, Labels
  <2>7. LockTypes'
    BY <2>1, <2>3, <2>6, <1>1 DEF LockInv, LockTypes, Threads, InsideLabels
  <2>8. AppenderHolds'
    BY <2>5, <2>6, <1>1 DEF AppenderHolds, Holding, Threads
  <2>9. FinderCounted'
    BY <2>3, <2>6 DEF FinderCounted, Inside, InsideLabels
  <2> QED BY <2>7, <2>8, <2>9 DEF LockInv
<1> QED BY <1>4, <1>5

(* The finder is counted when it loads the counter for the decrement. *)
LEMMA LoadSharedLock ==
  ASSUME LockInv, NEW t \in Finders, LoadShared(t), \A f, g \in Finders : f = g
  PROVE  LockInv'
<1>1. t \in Threads /\ t \notin Appenders
  BY TreeAssumption DEF Threads
<1>2. /\ pc[t] = "load_shared" /\ lock' = lock
      /\ pc' = [pc EXCEPT ![t] = "store_shared"]
      /\ loc' = [loc EXCEPT ![t].old = lock]
  BY DEF LoadShared, At, Goto
<1>3. lock.shared = 1
  BY <1>2 DEF LockInv, FinderCounted, Inside, InsideLabels
<1>4. /\ pc' \in [Threads -> Labels] /\ pc'[t] = "store_shared"
      /\ \A u \in Threads : u # t => pc'[u] = pc[u]
  BY <1>1, <1>2 DEF LockInv, LockTypes, Labels
<1>5. /\ DOMAIN loc' = Threads /\ \A u \in Threads : "old" \in DOMAIN loc'[u]
      /\ loc'[t].old = lock
  BY <1>1, <1>2 DEF LockInv, LockTypes
<1>6. LockTypes'
  BY <1>1, <1>2, <1>4, <1>5 DEF LockInv, LockTypes, Threads, InsideLabels
<1>7. AppenderHolds'
  BY <1>1, <1>2, <1>4 DEF LockInv, AppenderHolds, Holding, Threads
<1>8. FinderCounted'
  BY <1>2, <1>3, <1>4, <1>5 DEF FinderCounted, Inside, InsideLabels
<1> QED BY <1>6, <1>7, <1>8 DEF LockInv

(* The counter goes back to zero; with a finder counted nobody appends. *)
LEMMA StoreSharedLock ==
  ASSUME LockInv, NEW t \in Finders, StoreShared(t), \A f, g \in Finders : f = g
  PROVE  LockInv'
<1>1. t \in Threads /\ t \notin Appenders
  BY TreeAssumption DEF Threads
<1>2. /\ pc[t] = "store_shared" /\ loc' = loc
      /\ pc' = [pc EXCEPT ![t] = "scan"]
      /\ lock' = [lock EXCEPT !.shared = (loc[t].old.shared - 1) % CounterSize]
  BY DEF StoreShared, At, Goto
<1>3. lock.shared = 1 /\ loc[t].old.shared = 1
  BY <1>2 DEF LockInv, FinderCounted, Inside, InsideLabels
<1>4. (1 - 1) % CounterSize = 0
  BY CounterAboveOne
<1>5. lock' \in LockWord /\ lock'.shared = 0
  BY <1>2, <1>3, <1>4 DEF LockInv, LockTypes, LockWord
<1>6. \A u \in Appenders : ~ Holding(u)
  BY <1>3 DEF LockInv, AppenderHolds, Taken
<1>7. /\ pc' \in [Threads -> Labels] /\ pc'[t] = "scan"
      /\ \A u \in Threads : u # t => pc'[u] = pc[u]
  BY <1>1, <1>2 DEF LockInv, LockTypes, Labels
<1>8. LockTypes'
  BY <1>1, <1>2, <1>5, <1>7 DEF LockInv, LockTypes, Threads
<1>9. AppenderHolds'
  BY <1>1, <1>6, <1>7 DEF AppenderHolds, Holding, Threads
<1>10. FinderCounted'
  BY <1>5, <1>7 DEF FinderCounted, Inside, InsideLabels
<1> QED BY <1>8, <1>9, <1>10 DEF LockInv

(* Every step of mbptree_leaf_floor after its call. *)
LEMMA FinderLock ==
  ASSUME LockInv, NEW t \in Finders, FinderStep(t), \A f, g \in Finders : f = g
  PROVE  LockInv'
<1>1. t \in Threads
  BY DEF Threads
<1>2. CASE FindRoot(t)
  <2>1. lock' = lock /\ Inside(t) /\ Goto(t, "find_leaf")
    BY <1>2 DEF FindRoot, At, Inside, InsideLabels
  <2>2. OldKept
    BY <1>1, <1>2 DEF FindRoot, LockInv, LockTypes, OldKept
  <2> QED BY <2>1, <2>2, FinderMoves
<1>3. CASE mbptree_find_leaf(t)
  <2>1. lock' = lock /\ Inside(t) /\ (Goto(t, "load_shared") \/ pc' = pc)
    BY <1>3 DEF mbptree_find_leaf, At, Inside, InsideLabels
  <2>2. loc' = loc \/ \E a : loc' = [loc EXCEPT ![t].node = a]
    BY <1>3 DEF mbptree_find_leaf
  <2>3. OldKept
    BY <1>1, <2>2 DEF LockInv, LockTypes, OldKept
  <2> QED BY <2>1, <2>3, FinderMoves
<1>4. CASE ScanLeaf(t)
  <2>1. lock' = lock /\ ~ Inside(t) /\ Goto(t, "idle")
    BY <1>4 DEF ScanLeaf, At, Inside, InsideLabels
  <2>2. PICK a, b : loc' = [loc EXCEPT ![t].child = a, ![t].rc = b]
    BY <1>4, Zenon DEF ScanLeaf
  <2>3. OldKept
    BY <1>1, <2>2 DEF LockInv, LockTypes, OldKept
  <2> QED BY <2>1, <2>3, FinderMoves
<1> QED BY <1>2, <1>3, <1>4, FloorLockLock, LoadSharedLock, StoreSharedLock DEF FinderStep

-----------------------------------------------------------------------------
(* Every step of the system. *)
LEMMA NextLock ==
  ASSUME LockInv, [Next]_vars, \A f, g \in Finders : f = g PROVE LockInv'
<1>1. CASE Next
  <2>1. CASE mbptree_free
    <3>1. lock' = lock /\ pc' = pc /\ loc' = loc
      BY <2>1, Zenon DEF mbptree_free
    <3> QED BY <3>1, StillThread DEF LockInv, LockTypes
  <2> QED BY <1>1, <2>1, AppenderLock, AppendLock, FinderLock, LeafFloorLock DEF Next
<1>2. CASE UNCHANGED vars
  <2>1. lock' = lock /\ pc' = pc /\ loc' = loc
    BY <1>2 DEF vars
  <2> QED BY <2>1, StillThread DEF LockInv, LockTypes
<1> QED BY <1>1, <1>2

(* A holder has the whole lock word, and a finder on its way down is       *)
(* counted in it.                                                          *)
LEMMA LockExcludes == LockInv => Exclusion
<1> SUFFICES ASSUME LockInv, NEW t \in Appenders, Appending(t)
             PROVE  /\ \A u \in Appenders \ {t} : ~ Appending(u)
                    /\ \A u \in Finders : ~ Finding(u)
  BY DEF Exclusion
<1>1. lock = Taken /\ \A u \in Appenders : Holding(u) => u = t
  BY DEF LockInv, AppenderHolds, Holding, HoldingLabels, Appending
<1>2. \A u \in Appenders \ {t} : ~ Appending(u)
  BY <1>1 DEF Holding, HoldingLabels, Appending
<1>3. \A u \in Finders : ~ Finding(u)
  BY <1>1 DEF LockInv, FinderCounted, Inside, InsideLabels, Finding, Taken
<1> QED BY <1>2, <1>3

(* With at most one thread in mbptree_leaf_floor, an mbptree_append that   *)
(* changes the tree is alone in it, in spite of the separate read of the   *)
(* lock word and of the decrement that is not atomic.                      *)
THEOREM AppendsExclude ==
  ASSUME \A f, g \in Finders : f = g
  PROVE  Spec => []Exclusion
<1>1. Init => LockInv
  BY InitLock
<1>2. LockInv /\ [Next]_vars => LockInv'
  BY NextLock
<1>3. LockInv => Exclusion
  BY LockExcludes
<1> QED BY <1>1, <1>2, <1>3, PTL DEF Spec

-----------------------------------------------------------------------------
(* One call at a time. *)

Shared == [exclusive |-> 0, shared |-> 1]

(* The lock word with one thread at a label and nobody else in the tree. *)
Word(label) == IF label \in HoldingLabels THEN Taken
               ELSE IF label \in InsideLabels THEN Shared ELSE Free

(* With a mutex around its calls one thread at a time is in the tree, and  *)
(* where it is decides the lock word.                                      *)
SerialInv ==
  /\ LockTypes
  /\ \A t, u \in Threads : pc[t] # "idle" /\ pc[u] # "idle" => t = u
  /\ \A t \in Threads : pc[t] # "idle" => lock = Word(pc[t])
  /\ (\A t \in Threads : pc[t] = "idle") => lock = Free
  /\ \A t \in Finders : /\ pc[t] = "lock" => loc[t].old = Free
                        /\ pc[t] = "store_shared" => loc[t].old = Shared

(* The thread t is alone in the tree. *)
Only(t) == \A u \in Threads : u # t => pc[u] = "idle"

(* A thread that is in the tree, or may call it, is alone. *)
LEMMA StepsAlone ==
  ASSUME SerialInv, Serialized, NEW t \in Threads, pc[t] # "idle" \/ MayCall(t)
  PROVE  Only(t)
BY DEF SerialInv, Only, MayCall

LEMMA WordTypes ==
  ASSUME NEW l PROVE Word(l) \in LockWord
BY DEF Word, LockWord, Taken, Shared, Free

(* A step of a thread that is alone, to a label with its lock word. *)
LEMMA SerialStep ==
  ASSUME SerialInv, NEW t \in Threads, Only(t), NEW l \in Labels,
         t \in Appenders => l \in HoldingLabels \cup {"idle"},
         t \in Finders => l \in InsideLabels \cup {"idle", "lock", "scan"},
         pc' = [pc EXCEPT ![t] = l], lock' = Word(l),
         DOMAIN loc' = Threads, \A u \in Threads : "old" \in DOMAIN loc'[u],
         t \in Finders => loc'[t].old \in LockWord,
         \A u \in Threads : u # t => loc'[u].old = loc[u].old,
         t \in Finders /\ l = "lock" => loc'[t].old = Free,
         t \in Finders /\ l = "store_shared" => loc'[t].old = Shared
  PROVE  SerialInv'
<1>1. pc' \in [Threads -> Labels] /\ pc'[t] = l /\ \A u \in Threads : u # t => pc'[u] = "idle"
  BY DEF SerialInv, LockTypes, Only
<1>2. LockTypes'
  BY <1>1, WordTypes DEF SerialInv, LockTypes, Threads
<1>3. /\ \A u, v \in Threads : pc'[u] # "idle" /\ pc'[v] # "idle" => u = v
      /\ \A u \in Threads : pc'[u] # "idle" => lock' = Word(pc'[u])
  BY <1>1
<1>4. (\A u \in Threads : pc'[u] = "idle") => lock' = Free
  BY <1>1 DEF Word, HoldingLabels, InsideLabels
<1>5. \A u \in Finders : /\ pc'[u] = "lock" => loc'[u].old = Free
                         /\ pc'[u] = "store_shared" => loc'[u].old = Shared
  BY <1>1 DEF Threads
<1> QED BY <1>2, <1>3, <1>4, <1>5 DEF SerialInv

(* A step that leaves the lock alone and keeps the thread on its side. *)
LEMMA SerialMoves ==
  ASSUME SerialInv, NEW t \in Threads, Only(t), NEW l \in Labels, lock' = lock, OldKept,
         pc[t] # "idle", Goto(t, l), Word(l) = Word(pc[t]), l \notin {"lock", "store_shared"},
         t \in Appenders => l \in HoldingLabels \cup {"idle"},
         t \in Finders => l \in InsideLabels \cup {"idle", "lock", "scan"}
  PROVE  SerialInv'
<1>1. lock' = Word(l)
  BY DEF SerialInv
<1>2. t \in Finders => loc'[t].old \in LockWord
  BY DEF SerialInv, LockTypes, OldKept, Threads
<1> QED BY <1>1, <1>2, SerialStep DEF OldKept, Goto

(* A step that does not move the thread. *)
LEMMA SerialStill ==
  ASSUME SerialInv, lock' = lock, pc' = pc, DOMAIN loc' = Threads,
         \A u \in Threads : "old" \in DOMAIN loc'[u],
         \A u \in Finders : loc'[u].old \in LockWord,
         \A u \in Finders : pc[u] # "idle" => loc'[u].old = loc[u].old
  PROVE  SerialInv'
<1>1. LockTypes'
  BY DEF SerialInv, LockTypes, Threads
<1> QED BY <1>1 DEF SerialInv

(* The same without a change of the locals' lock words. *)
LEMMA SerialKept ==
  ASSUME SerialInv, lock' = lock, pc' = pc, OldKept
  PROVE  SerialInv'
BY SerialStill DEF SerialInv, LockTypes, OldKept, Threads

(* The locals that LocSame, LocReturns and LocMoves keep. *)
LEMMA SerialLocals ==
  ASSUME SerialInv, NEW t \in Threads, NEW a, NEW b, NEW c,
         \/ loc' = loc
         \/ Returns(t, a)
         \/ loc' = [loc EXCEPT ![t].leaf = a, ![t].child = b, ![t].node = c]
         \/ loc' = [loc EXCEPT ![t].key = a, ![t].child = b, ![t].node = c]
         \/ loc' = [loc EXCEPT ![t].child = a, ![t].rc = b]
         \/ loc' = [loc EXCEPT ![t].node = a]
  PROVE  OldKept
BY DEF SerialInv, LockTypes, OldKept, Returns

(* What a step of mbptree_append under its lock does to its locals. *)
HolderLocals(t) ==
  \/ loc' = loc
  \/ \E a : Returns(t, a)
  \/ \E a, b, c : loc' = [loc EXCEPT ![t].leaf = a, ![t].child = b, ![t].node = c]
  \/ \E a, b, c : loc' = [loc EXCEPT ![t].key = a, ![t].child = b, ![t].node = c]

LEMMA HolderKeepsOld ==
  ASSUME SerialInv, NEW t \in Threads, HolderLocals(t) PROVE OldKept
<1>1. DOMAIN loc = Threads /\ \A u \in Threads : "old" \in DOMAIN loc[u]
  BY DEF SerialInv, LockTypes
<1>2. CASE loc' = loc
  BY <1>1, <1>2 DEF OldKept
<1>3. ASSUME NEW a, Returns(t, a) PROVE OldKept
  BY <1>1, <1>3 DEF OldKept, Returns
<1>4. ASSUME NEW a, NEW b, NEW c,
             loc' = [loc EXCEPT ![t].leaf = a, ![t].child = b, ![t].node = c]
      PROVE  OldKept
  BY <1>1, <1>4 DEF OldKept
<1>5. ASSUME NEW a, NEW b, NEW c,
             loc' = [loc EXCEPT ![t].key = a, ![t].child = b, ![t].node = c]
      PROVE  OldKept
  BY <1>1, <1>5 DEF OldKept
<1> QED BY <1>2, <1>3, <1>4, <1>5, Zenon DEF HolderLocals

(* What a step of mbptree_append under its lock changes. *)
LEMMA AppenderShape ==
  ASSUME NEW t \in Appenders, AppenderStep(t)
  PROVE  /\ pc[t] \in HoldingLabels
         /\ \/ AppendUnlock(t)
            \/ /\ lock' = lock
               /\ pc' = pc \/ \E l \in HoldingLabels : Goto(t, l)
               /\ HolderLocals(t)
<1>1. CASE mbptree_tryappend(t)
  BY <1>1 DEF HolderLocals, mbptree_tryappend, At, Refused, HoldingLabels
<1>2. CASE StoreData(t)
  BY <1>2 DEF HolderLocals, StoreData, At, HoldingLabels
<1>3. CASE mbptree_new_root(t)
  BY <1>3, Zenon DEF HolderLocals, mbptree_new_root, At, HoldingLabels
<1>4. CASE mbptree_new_leaf(t)
  BY <1>4, Zenon DEF HolderLocals, mbptree_new_leaf, At, HoldingLabels
<1>5. CASE NewLeafFails(t)
  BY <1>5, Zenon DEF HolderLocals, NewLeafFails, At, HoldingLabels
<1>6. CASE mbptree_append_node(t)
  BY <1>6, Zenon DEF HolderLocals, mbptree_append_node, Appended, At, HoldingLabels
<1>7. CASE mbptree_split_root(t)
  BY <1>7, Zenon DEF HolderLocals, mbptree_split_root, Appended, At, HoldingLabels
<1>8. CASE mbptree_split_node(t)
  BY <1>8, Zenon DEF HolderLocals, mbptree_split_node, At, HoldingLabels
<1>9. CASE SplitFails(t)
  BY <1>9, Zenon DEF HolderLocals, SplitFails, At, HoldingLabels
<1>10. CASE AppendUnlock(t)
  BY <1>10, Zenon DEF HolderLocals, AppendUnlock, At, HoldingLabels
<1> QED BY <1>1, <1>2, <1>3, <1>4, <1>5, <1>6, <1>7, <1>8, <1>9, <1>10, Zenon DEF AppenderStep

LEMMA SerialAppender ==
  ASSUME SerialInv, Serialized, NEW t \in Appenders, AppenderStep(t) PROVE SerialInv'
<1>1. t \in Threads /\ t \notin Finders /\ pc[t] \in HoldingLabels /\ pc[t] # "idle"
  BY AppenderShape, TreeAssumption DEF Threads, HoldingLabels
<1>2. Only(t)
  BY <1>1, StepsAlone
<1>3. CASE AppendUnlock(t)
  <2>1. /\ "idle" \in Labels /\ lock' = Word("idle") /\ pc' = [pc EXCEPT ![t] = "idle"] /\ loc' = loc
    BY <1>3 DEF AppendUnlock, Goto, Word, HoldingLabels, InsideLabels, Labels
  <2> QED BY <2>1, <1>1, <1>2, SerialStep DEF SerialInv, LockTypes
<1>4. CASE ~ AppendUnlock(t)
  <2>1. lock' = lock /\ (pc' = pc \/ \E l \in HoldingLabels : Goto(t, l))
    BY <1>4, AppenderShape
  <2>2. OldKept
    BY <1>1, <1>4, AppenderShape, HolderKeepsOld
  <2>3. CASE pc' = pc
    BY <2>1, <2>2, <2>3, SerialKept
  <2>4. CASE \E l \in HoldingLabels : Goto(t, l)
    <3>1. PICK l \in HoldingLabels : Goto(t, l)
      BY <2>4
    <3>2. l \in Labels /\ Word(l) = Word(pc[t]) /\ l \notin {"lock", "store_shared"}
      BY <1>1 DEF HoldingLabels, Labels, Word
    <3> QED BY <1>1, <1>2, <2>1, <2>2, <3>1, <3>2, SerialMoves
  <2> QED BY <2>1, <2>3, <2>4
<1> QED BY <1>3, <1>4

LEMMA SerialAppend ==
  ASSUME SerialInv, Serialized, NEW t \in Appenders, NEW key, mbptree_append(t, key)
  PROVE  SerialInv'
<1>1. t \in Threads /\ t \notin Finders /\ pc[t] = "idle" /\ Only(t)
  BY StepsAlone, TreeAssumption DEF Threads, mbptree_append, MayCall, At
<1>2. lock = Free
  BY <1>1 DEF SerialInv, Only
<1>3. /\ lock' = Word("tryappend") /\ pc' = [pc EXCEPT ![t] = "tryappend"]
      /\ "tryappend" \in Labels \cap HoldingLabels
  BY <1>2 DEF mbptree_append, Unlocked, Goto, Word, HoldingLabels, Taken, Labels
<1>4. /\ DOMAIN loc' = Threads /\ \A u \in Threads : "old" \in DOMAIN loc'[u]
      /\ \A u \in Threads : u # t => loc'[u] = loc[u]
  BY <1>1 DEF mbptree_append, Unlocked, SerialInv, LockTypes, Idle
<1> QED BY <1>1, <1>3, <1>4, SerialStep

-----------------------------------------------------------------------------
(* With any finite number of finders. *)
LEMMA CounterFits ==
  ASSUME IsFiniteSet(Finders), NEW t \in Finders
  PROVE  CounterSize \in Nat /\ CounterSize > 1
<1>1. Cardinality(Finders) \in Nat /\ Cardinality(Finders) # 0
  BY FS_CardinalityType, FS_EmptySet
<1> QED BY <1>1, TreeAssumption

LEMMA SerialFloor ==
  ASSUME SerialInv, Serialized, NEW t \in Finders, NEW key, mbptree_leaf_floor(t, key)
  PROVE  SerialInv'
<1>1. t \in Threads /\ t \notin Appenders /\ pc[t] = "idle" /\ Only(t)
  BY StepsAlone, TreeAssumption DEF Threads, mbptree_leaf_floor, MayCall, At
<1>2. lock = Free /\ lock' = lock
  BY <1>1 DEF SerialInv, Only, mbptree_leaf_floor
<1>3. /\ DOMAIN loc' = Threads /\ \A u \in Threads : "old" \in DOMAIN loc'[u]
      /\ loc'[t].old = Free /\ \A u \in Threads : u # t => loc'[u] = loc[u]
  <2>1. PICK new :
          /\ loc' = [loc EXCEPT ![t] = new]
          /\ \/ new = [Idle(0) EXCEPT !.key = key, !.old = lock, !.seen = Len(appended)]
             \/ new = Idle(ELALLC)
    BY Zenon DEF mbptree_leaf_floor
  <2>2. "old" \in DOMAIN new /\ new.old = Free
    <3>1. CASE new = Idle(ELALLC)
      BY <3>1 DEF Idle
    <3>2. CASE new = [Idle(0) EXCEPT !.key = key, !.old = lock, !.seen = Len(appended)]
      <4>1. "old" \in DOMAIN Idle(0)
        BY DEF Idle
      <4>2. "old" \in DOMAIN new /\ new.old = lock
        BY <3>2, <4>1, ExceptOld, Zenon
      <4> QED BY <1>2, <4>2
    <3> QED BY <2>1, <3>1, <3>2, Zenon
  <2>3. loc'[t] = new /\ \A u \in Threads : u # t => loc'[u] = loc[u]
    BY <2>1, <1>1 DEF SerialInv, LockTypes
  <2> QED BY <2>1, <2>2, <2>3 DEF SerialInv, LockTypes
<1>4. Free \in LockWord /\ "lock" \in Labels /\ Word("lock") = Free
  BY DEF Free, LockWord, Labels, Word, HoldingLabels, InsideLabels
<1>5. CASE pc' = pc
  BY <1>1, <1>2, <1>3, <1>4, <1>5, SerialStill DEF SerialInv, LockTypes, Threads
<1>6. CASE pc' = [pc EXCEPT ![t] = "lock"]
  BY <1>1, <1>2, <1>3, <1>4, <1>6, SerialStep
<1> QED BY <1>5, <1>6 DEF mbptree_leaf_floor, Goto

LEMMA SerialFinder ==
  ASSUME SerialInv, Serialized, IsFiniteSet(Finders), NEW t \in Finders, FinderStep(t)
  PROVE  SerialInv'
<1>1. t \in Threads /\ t \notin Appenders
  BY TreeAssumption DEF Threads
<1>2. pc[t] # "idle"
  BY DEF FinderStep, FloorLock, FindRoot, mbptree_find_leaf, LoadShared, StoreShared, ScanLeaf, At
<1>3. Only(t) /\ lock = Word(pc[t])
  BY <1>1, <1>2, StepsAlone DEF SerialInv
<1>4. CASE FloorLock(t)
  <2>1. loc[t].old = Free /\ lock = Free
    BY <1>3, <1>4 DEF FloorLock, At, SerialInv, Word, HoldingLabels, InsideLabels
  <2>2. (0 + 1) % CounterSize = 1
    BY CounterFits
  <2>3. /\ lock' = Word("root") /\ pc' = [pc EXCEPT ![t] = "root"] /\ loc' = loc
        /\ "root" \in Labels \cap InsideLabels
    BY <1>4, <2>1, <2>2 DEF FloorLock, Free, Goto, Word, InsideLabels, HoldingLabels, Shared, Labels
  <2> QED BY <1>1, <1>3, <2>3, SerialStep DEF SerialInv, LockTypes
<1>5. CASE FindRoot(t)
  <2>1. /\ lock' = lock /\ Goto(t, "find_leaf") /\ "find_leaf" \in Labels \cap InsideLabels
        /\ Word("find_leaf") = Word(pc[t])
    BY <1>5 DEF FindRoot, At, Labels, InsideLabels, HoldingLabels, Word
  <2>2. OldKept
    BY <1>1, <1>5, SerialLocals DEF FindRoot
  <2> QED BY <1>1, <1>2, <1>3, <2>1, <2>2, SerialMoves
<1>6. CASE mbptree_find_leaf(t)
  <2>1. /\ lock' = lock /\ (Goto(t, "load_shared") \/ pc' = pc)
        /\ "load_shared" \in Labels \cap InsideLabels /\ Word("load_shared") = Word(pc[t])
    BY <1>6 DEF mbptree_find_leaf, At, Labels, InsideLabels, HoldingLabels, Word
  <2>2. loc' = loc \/ \E a : loc' = [loc EXCEPT ![t].node = a]
    BY <1>6 DEF mbptree_find_leaf
  <2>3. OldKept
    BY <1>1, <2>2, SerialLocals
  <2> QED BY <1>1, <1>2, <1>3, <2>1, <2>3, SerialMoves, SerialKept
<1>7. CASE LoadShared(t)
  <2>1. /\ lock' = Word("store_shared") /\ lock = Shared /\ pc' = [pc EXCEPT ![t] = "store_shared"]
        /\ "store_shared" \in Labels \cap InsideLabels /\ loc' = [loc EXCEPT ![t].old = lock]
    BY <1>3, <1>7 DEF LoadShared, At, Goto, Labels, InsideLabels, HoldingLabels, Word
  <2>2. /\ DOMAIN loc' = Threads /\ \A u \in Threads : "old" \in DOMAIN loc'[u]
        /\ loc'[t].old = Shared /\ \A u \in Threads : u # t => loc'[u] = loc[u]
    BY <1>1, <2>1 DEF SerialInv, LockTypes
  <2> QED BY <1>1, <1>3, <2>1, <2>2, SerialStep DEF SerialInv, LockTypes
<1>8. CASE StoreShared(t)
  <2>1. loc[t].old = Shared /\ lock = Shared
    BY <1>3, <1>8 DEF StoreShared, At, SerialInv, Word, HoldingLabels, InsideLabels
  <2>2. (1 - 1) % CounterSize = 0
    BY CounterFits
  <2>3. /\ lock' = Word("scan") /\ pc' = [pc EXCEPT ![t] = "scan"] /\ loc' = loc
        /\ "scan" \in Labels
    BY <1>8, <2>1, <2>2 DEF StoreShared, Free, Goto, Word, InsideLabels, HoldingLabels, Shared, Labels
  <2> QED BY <1>1, <1>3, <2>3, SerialStep DEF SerialInv, LockTypes
<1>9. CASE ScanLeaf(t)
  <2>1. lock' = lock /\ Goto(t, "idle") /\ "idle" \in Labels /\ Word("idle") = Word(pc[t])
    BY <1>9 DEF ScanLeaf, At, Labels, InsideLabels, HoldingLabels, Word
  <2>2. PICK a, b : loc' = [loc EXCEPT ![t].child = a, ![t].rc = b]
    BY <1>9, Zenon DEF ScanLeaf
  <2>3. OldKept
    BY <1>1, <2>2, SerialLocals
  <2> QED BY <1>1, <1>2, <1>3, <2>1, <2>3, SerialMoves
<1> QED BY <1>4, <1>5, <1>6, <1>7, <1>8, <1>9 DEF FinderStep

LEMMA NextSerial ==
  ASSUME SerialInv, Serialized, IsFiniteSet(Finders), [Next]_vars PROVE SerialInv'
<1>1. CASE lock' = lock /\ pc' = pc /\ loc' = loc
  BY <1>1, SerialStill DEF SerialInv, LockTypes
<1>2. CASE mbptree_free
  BY <1>1, <1>2, Zenon DEF mbptree_free
<1>3. CASE Next
  BY <1>2, <1>3, SerialAppender, SerialAppend, SerialFinder, SerialFloor DEF Next
<1>4. CASE UNCHANGED vars
  BY <1>1, <1>4 DEF vars
<1> QED BY <1>3, <1>4

LEMMA InitSerial == Init => SerialInv
<1> SUFFICES ASSUME Init PROVE SerialInv
  OBVIOUS
<1>1. lock = Free /\ \A t \in Threads : pc[t] = "idle"
  BY DEF Init
<1> QED BY <1>1, InitLock DEF SerialInv, LockInv, Threads

LEMMA SerialSpec ==
  ASSUME Serialized, IsFiniteSet(Finders) PROVE Spec => []SerialInv
BY InitSerial, NextSerial, PTL DEF Spec

(* With a mutex around the calls, as mqlog has it, no path through         *)
(* mbptree_append or mbptree_leaf_floor leaves the lock word taken, for    *)
(* any number of threads and whatever allocations fail.                    *)
THEOREM LockGivenBack ==
  ASSUME Serialized, IsFiniteSet(Finders) PROVE Spec => []LockReleased
<1>1. SerialInv => LockReleased
  BY DEF SerialInv, LockReleased, Quiescent
<1> QED BY <1>1, SerialSpec, PTL
=============================================================================
