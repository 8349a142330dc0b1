-------------------------- MODULE MbptreeIndexProofs --------------------------
(***************************************************************************)
(* The tree as an index, for calls that exclude one another, as mqlog's    *)
(* do, and any branch factor, number of keys and number of threads: what   *)
(* mbptree_leaf_floor returns, the balance of the tree, the links between  *)
(* its leaves, both iterations, and the freeing of the tree.               *)
(*                                                                         *)
(* Shape says what the nodes are like between two steps of an append: who  *)
(* is whose child, which range of keys is below a node, how high it is,    *)
(* and where a leaf's keys are among those appended.  A node may still     *)
(* have to get a child; that is what a split leaves to the level above.    *)
(* Four lemmas, on growing a leaf, adding a leaf, adding a child and       *)
(* splitting a node, say how Shape is kept, and every step of the code is  *)
(* one of these or two in a row.                                           *)
(***************************************************************************)
EXTENDS MbptreeLockProofs, WellFoundedInduction, SequenceTheorems

(* A key is below the bound that stands for "no key is greater". *)
Above == 2 * MaxKeys + 2
Key   == 0 .. 2 * MaxKeys + 1

Rec(leaf, parent, keys, vals, next) ==
  [leaf |-> leaf, parent |-> parent, keys |-> keys, vals |-> vals, next |-> next]
NodeRec == [leaf : BOOLEAN, parent : Nat, keys : Seq(Key), vals : Seq(Nat), next : Nat]

(* The nodes N are numbered from 1; an inner node has a child more than    *)
(* keys, and the value of a key is the key.                                *)
IsNodes(N) ==
  /\ \E c \in Nat : DOMAIN N = 1 .. c
  /\ N \in [DOMAIN N -> NodeRec]
  /\ \A n \in DOMAIN N : /\ N[n].leaf => N[n].vals = N[n].keys
                         /\ ~ N[n].leaf => Len(N[n].vals) = Len(N[n].keys) + 1

(* Parents and children agree, except that the node pn, unless it is NULL, *)
(* has still to get the child ch.                                          *)
Family(N, r, pn, ch) ==
  /\ r \in DOMAIN N /\ N[r].parent = NULL
  /\ \A n \in DOMAIN N : N[n].parent # n /\ (N[n].parent = NULL => n = r)
  /\ \A n \in DOMAIN N : ~ N[n].leaf => \A i \in 1 .. Len(N[n].vals) :
       /\ N[n].vals[i] \in DOMAIN N
       /\ N[N[n].vals[i]].parent = n
       /\ N[n].vals[i] # ch
       /\ \A j \in 1 .. Len(N[n].vals) : i # j => N[n].vals[i] # N[n].vals[j]
  /\ \A n \in DOMAIN N : N[n].parent # NULL =>
       /\ N[n].parent \in DOMAIN N /\ ~ N[N[n].parent].leaf
       /\ n = ch \/ \E i \in 1 .. Len(N[N[n].parent].vals) : N[N[n].parent].vals[i] = n
  /\ pn # NULL => pn \in DOMAIN N /\ ~ N[pn].leaf /\ ch \in DOMAIN N /\ N[ch].parent = pn

(* The keys below a node n are those from lo[n] on and less than hi[n]:    *)
(* the keys of a node divide its range among its children.  The child that *)
(* pn has still to get takes the end of the last child's range, from pk.   *)
Ranges(N, r, pn, ch, pk, lo, hi) ==
  /\ lo \in [DOMAIN N -> Int] /\ hi \in [DOMAIN N -> Int] /\ lo[r] = -1 /\ hi[r] = Above
  /\ \A n \in DOMAIN N : ~ N[n].leaf => \A i \in 1 .. Len(N[n].vals) :
       /\ lo[N[n].vals[i]] = IF i = 1 THEN lo[n] ELSE N[n].keys[i - 1]
       /\ hi[N[n].vals[i]] = IF i <= Len(N[n].keys) THEN N[n].keys[i]
                             ELSE IF n = pn THEN pk ELSE hi[n]
  /\ pn # NULL => hi[pn] = Above /\ lo[ch] = pk /\ hi[ch] = Above /\ pk \in Key

(* Every path up has one node of each height. *)
Heights(N, h) ==
  /\ h \in [DOMAIN N -> Nat]
  /\ \A n \in DOMAIN N : /\ N[n].leaf <=> h[n] = 0
                         /\ N[n].parent # NULL => h[N[n].parent] = h[n] + 1

(* The keys of a leaf are in order and are all the keys of its range, the  *)
(* ranges of the other leaves are below that of the last leaf L.           *)
Leaves(N, L, app, lo, hi) ==
  /\ app \in Seq(Key)
  /\ L \in DOMAIN N /\ N[L].leaf /\ hi[L] = Above
  /\ \A n \in DOMAIN N : N[n].leaf =>
       /\ n # L => hi[n] <= lo[L]
       /\ lo[n] = -1 \/ (Len(N[n].keys) > 0 /\ N[n].keys[1] = lo[n])
       /\ \A i, j \in 1 .. Len(N[n].keys) : i < j => N[n].keys[i] < N[n].keys[j]
       /\ \A i \in 1 .. Len(N[n].keys) : lo[n] <= N[n].keys[i] /\ N[n].keys[i] < hi[n]
       /\ \A k \in 1 .. Len(app) : lo[n] <= app[k] /\ app[k] < hi[n] =>
            \E i \in 1 .. Len(N[n].keys) : N[n].keys[i] = app[k]

(* The links lead from leaf 1 to L, through all that was appended: the     *)
(* keys of the leaf n follow the first pos[n] ones.                        *)
Links(N, L, app, pos) ==
  /\ pos \in [DOMAIN N -> Nat] /\ 1 \in DOMAIN N /\ N[1].leaf /\ pos[1] = 0
  /\ \A n \in DOMAIN N :
       /\ ~ N[n].leaf => N[n].next = NULL
       /\ N[n].leaf =>
            /\ pos[n] + Len(N[n].keys) <= Len(app)
            /\ \A j \in 1 .. Len(N[n].keys) : N[n].keys[j] = app[pos[n] + j]
            /\ n = L => N[n].next = NULL /\ pos[n] + Len(N[n].keys) = Len(app)
            /\ n # L => /\ N[n].next \in DOMAIN N /\ N[N[n].next].leaf
                        /\ Len(N[n].keys) > 0
                        /\ pos[N[n].next] = pos[n] + Len(N[n].keys)

Shape(N, r, L, pn, ch, pk, app, lo, hi, h, pos) ==
  /\ IsNodes(N) /\ Family(N, r, pn, ch) /\ Ranges(N, r, pn, ch, pk, lo, hi)
  /\ Heights(N, h) /\ Leaves(N, L, app, lo, hi) /\ Links(N, L, app, pos)

-----------------------------------------------------------------------------
LEMMA KeyFacts ==
  /\ Above \in Nat /\ Key \subseteq Nat /\ (\A k \in Key : 0 <= k /\ k < Above)
  /\ BranchFactor \in Nat /\ BranchFactor >= 3
BY TreeAssumption DEF Above, Key

LEMMA NodeFacts ==
  ASSUME NEW N, IsNodes(N)
  PROVE  /\ DOMAIN N \subseteq Nat /\ NULL \notin DOMAIN N
         /\ \A n \in DOMAIN N :
              /\ N[n] \in NodeRec
              /\ N[n].leaf \in BOOLEAN /\ N[n].parent \in Nat /\ N[n].next \in Nat
              /\ N[n].keys \in Seq(Key) /\ N[n].vals \in Seq(Nat)
              /\ Len(N[n].keys) \in Nat /\ Len(N[n].vals) \in Nat
              /\ N[n] = Rec(N[n].leaf, N[n].parent, N[n].keys, N[n].vals, N[n].next)
<1>1. DOMAIN N \subseteq Nat /\ NULL \notin DOMAIN N
  BY DEF IsNodes, NULL
<1>2. \A n \in DOMAIN N : N[n] \in NodeRec
  BY DEF IsNodes
<1>3. ASSUME NEW n \in DOMAIN N
      PROVE  /\ N[n].leaf \in BOOLEAN /\ N[n].parent \in Nat /\ N[n].next \in Nat
             /\ N[n].keys \in Seq(Key) /\ N[n].vals \in Seq(Nat)
             /\ N[n] = Rec(N[n].leaf, N[n].parent, N[n].keys, N[n].vals, N[n].next)
  BY <1>2 DEF NodeRec, Rec
<1>4. ASSUME NEW n \in DOMAIN N PROVE Len(N[n].keys) \in Nat /\ Len(N[n].vals) \in Nat
  BY <1>3
<1> QED BY <1>1, <1>2, <1>3, <1>4

LEMMA RecType ==
  ASSUME NEW l \in BOOLEAN, NEW p \in Nat, NEW k \in Seq(Key), NEW v \in Seq(Nat), NEW x \in Nat
  PROVE  Rec(l, p, k, v, x) \in NodeRec
BY DEF Rec, NodeRec

(* The range of a child. *)
LEMMA RangeOf ==
  ASSUME NEW N, NEW r, NEW pn, NEW ch, NEW pk, NEW lo, NEW hi, Ranges(N, r, pn, ch, pk, lo, hi),
         NEW n \in DOMAIN N, ~ N[n].leaf, NEW i \in 1 .. Len(N[n].vals)
  PROVE  /\ lo[N[n].vals[i]] = IF i = 1 THEN lo[n] ELSE N[n].keys[i - 1]
         /\ hi[N[n].vals[i]] = IF i <= Len(N[n].keys) THEN N[n].keys[i] ELSE IF n = pn THEN pk ELSE hi[n]
<1>1. \A y \in DOMAIN N : ~ N[y].leaf => \A k \in 1 .. Len(N[y].vals) :
        lo[N[y].vals[k]] = IF k = 1 THEN lo[y] ELSE N[y].keys[k - 1]
  BY Zenon DEF Ranges
<1>2. \A y \in DOMAIN N : ~ N[y].leaf => \A k \in 1 .. Len(N[y].vals) :
        hi[N[y].vals[k]] = IF k <= Len(N[y].keys) THEN N[y].keys[k] ELSE IF y = pn THEN pk ELSE hi[y]
  BY Zenon DEF Ranges
<1>3. lo[N[n].vals[i]] = IF i = 1 THEN lo[n] ELSE N[n].keys[i - 1]
  BY <1>1, Zenon
<1>4. hi[N[n].vals[i]] = IF i <= Len(N[n].keys) THEN N[n].keys[i] ELSE IF n = pn THEN pk ELSE hi[n]
  BY <1>2, Zenon
<1> QED BY <1>3, <1>4, Zenon

-----------------------------------------------------------------------------
(* The node pn gets the child it has still to get. *)
Attached(N, pn, ch, pk) ==
  [N EXCEPT ![pn] = Rec(FALSE, N[pn].parent, Append(N[pn].keys, pk), Append(N[pn].vals, ch),
                        N[pn].next)]

LEMMA AttachShape ==
  ASSUME NEW N, NEW r, NEW L, NEW pn, NEW ch, NEW pk, NEW app, NEW lo, NEW hi, NEW h, NEW pos,
         Shape(N, r, L, pn, ch, pk, app, lo, hi, h, pos), pn # NULL
  PROVE  Shape(Attached(N, pn, ch, pk), r, L, NULL, NULL, 0, app, lo, hi, h, pos)
<1> DEFINE N2 == Attached(N, pn, ch, pk)
<1>0. /\ IsNodes(N) /\ Family(N, r, pn, ch) /\ Ranges(N, r, pn, ch, pk, lo, hi)
      /\ Heights(N, h) /\ Leaves(N, L, app, lo, hi) /\ Links(N, L, app, pos)
  BY DEF Shape
<1>1. /\ pn \in DOMAIN N /\ ~ N[pn].leaf /\ ch \in DOMAIN N /\ N[ch].parent = pn /\ pk \in Key
      /\ hi[pn] = Above /\ lo[ch] = pk /\ hi[ch] = Above
  BY <1>0 DEF Family, Ranges
<1>2. PICK K, V, m : K = N[pn].keys /\ V = N[pn].vals /\ m = Len(K)
  OBVIOUS
<1>3. /\ N[pn].parent \in Nat /\ N[pn].next \in Nat /\ K \in Seq(Key) /\ m \in Nat
      /\ V \in Seq(Nat) /\ ch \in Nat /\ Len(V) = m + 1
  BY <1>0, <1>1, <1>2, NodeFacts DEF IsNodes
<1>4. PICK ks, vs : ks = Append(K, pk) /\ vs = Append(V, ch)
  OBVIOUS
<1>5. /\ ks \in Seq(Key) /\ Len(ks) = m + 1 /\ ks[m + 1] = pk
      /\ \A i \in 1 .. m : ks[i] = K[i]
  BY <1>1, <1>2, <1>3, <1>4, AppendProperties
<1>6. /\ vs \in Seq(Nat) /\ Len(vs) = m + 2 /\ vs[m + 2] = ch
      /\ \A i \in 1 .. m + 1 : vs[i] = V[i]
  <2>1. vs \in Seq(Nat) /\ Len(vs) = Len(V) + 1 /\ vs[Len(V) + 1] = ch
        /\ \A i \in 1 .. Len(V) : vs[i] = V[i]
    BY <1>3, <1>4, AppendProperties
  <2>2. Len(V) + 1 = m + 2
    BY <1>3
  <2> QED BY <1>3, <2>1, <2>2
<1>7. /\ DOMAIN N2 = DOMAIN N /\ \A x \in DOMAIN N : x # pn => N2[x] = N[x]
      /\ N2[pn] = Rec(FALSE, N[pn].parent, ks, vs, N[pn].next)
  BY <1>1, <1>2, <1>4 DEF Attached
<1> HIDE DEF N2
<1>8. /\ N2[pn].leaf = FALSE /\ N2[pn].parent = N[pn].parent /\ N2[pn].keys = ks
      /\ N2[pn].vals = vs /\ N2[pn].next = N[pn].next /\ N2[pn] \in NodeRec
  <2>1. Rec(FALSE, N[pn].parent, ks, vs, N[pn].next) \in NodeRec
    BY <1>3, <1>5, <1>6, RecType
  <2>2. N2[pn] = Rec(FALSE, N[pn].parent, ks, vs, N[pn].next)
    BY <1>7
  <2>3. N2[pn].leaf = FALSE /\ N2[pn].parent = N[pn].parent /\ N2[pn].keys = ks
        /\ N2[pn].vals = vs /\ N2[pn].next = N[pn].next
    BY <2>2 DEF Rec
  <2> QED BY <2>1, <2>2, <2>3
<1>9. \A x \in DOMAIN N : /\ N2[x].leaf = N[x].leaf /\ N2[x].parent = N[x].parent
                          /\ N2[x].next = N[x].next /\ (N[x].leaf => N2[x] = N[x])
  BY <1>1, <1>7, <1>8, <1>0, NodeFacts
<1>10. IsNodes(N2)
  <2>1. N2 \in [DOMAIN N2 -> NodeRec]
    BY <1>0, <1>7, <1>8 DEF IsNodes, Attached, N2
  <2>2. Len(vs) = Len(ks) + 1
    BY <1>3, <1>5, <1>6
  <2> QED BY <1>0, <1>7, <1>8, <2>1, <2>2 DEF IsNodes
<1>11. Family(N2, r, NULL, NULL)
  <2>1. ASSUME NEW n \in DOMAIN N, ~ N2[n].leaf, NEW i \in 1 .. Len(N2[n].vals)
        PROVE  /\ N2[n].vals[i] \in DOMAIN N
               /\ N2[N2[n].vals[i]].parent = n
               /\ N2[n].vals[i] # NULL
               /\ \A j \in 1 .. Len(N2[n].vals) : i # j => N2[n].vals[i] # N2[n].vals[j]
    <3>1. NULL \notin DOMAIN N /\ ~ N[n].leaf
      BY <1>0, <1>9, <2>1, NodeFacts
    <3>2. CASE n # pn
      BY <1>0, <1>7, <1>9, <3>1, <3>2 DEF Family
    <3>3. CASE n = pn
      <4>1. N2[n].vals = vs /\ Len(N2[n].vals) = m + 2
        BY <1>6, <1>8, <3>3
      <4>2. \A j \in 1 .. m + 1 : V[j] \in DOMAIN N /\ N[V[j]].parent = pn /\ V[j] # ch
        BY <1>0, <1>1, <1>2, <1>3 DEF Family
      <4>3. ASSUME NEW j \in 1 .. m + 1, NEW k \in 1 .. m + 1, j # k PROVE V[j] # V[k]
        <5>1. j \in 1 .. Len(N[pn].vals) /\ k \in 1 .. Len(N[pn].vals)
          BY <1>2, <1>3
        <5>2. N[pn].vals[j] # N[pn].vals[k]
          BY <5>1, <4>3, <1>0, <1>1 DEF Family
        <5> QED BY <5>2, <1>2
      <4>4. \A j \in 1 .. m + 2 : vs[j] \in DOMAIN N /\ N[vs[j]].parent = pn
                                  /\ (vs[j] = ch <=> j = m + 2)
        BY <4>2, <1>1, <1>3, <1>6
      <4>5. ASSUME NEW j \in 1 .. m + 2, NEW k \in 1 .. m + 2, j # k PROVE vs[j] # vs[k]
        <5>1. CASE j \in 1 .. m + 1 /\ k \in 1 .. m + 1
          BY <5>1, <4>3, <4>5, <1>6
        <5>2. CASE j = m + 2 \/ k = m + 2
          BY <5>2, <4>4, <4>5
        <5> QED BY <5>1, <5>2, <1>3
      <4>6. i \in 1 .. m + 2
        BY <2>1, <4>1
      <4>7. vs[i] \in DOMAIN N /\ N2[vs[i]].parent = pn /\ vs[i] # NULL
        BY <4>4, <4>6, <1>9, <3>1
      <4> QED BY <4>1, <4>5, <4>6, <4>7, <3>3
    <3> QED BY <3>2, <3>3
  <2>2. ASSUME NEW n \in DOMAIN N, N[n].parent # NULL
        PROVE  /\ N2[n].parent \in DOMAIN N /\ ~ N2[N2[n].parent].leaf
               /\ \E i \in 1 .. Len(N2[N2[n].parent].vals) : N2[N2[n].parent].vals[i] = n
    <3>1. PICK p : p = N[n].parent
      OBVIOUS
    <3>2. /\ p # NULL /\ N2[n].parent = p /\ p \in DOMAIN N /\ ~ N2[p].leaf
          /\ n = ch \/ \E i \in 1 .. Len(N[p].vals) : N[p].vals[i] = n
      BY <1>0, <1>9, <2>2, <3>1 DEF Family
    <3>3. \E i \in 1 .. Len(N2[p].vals) : N2[p].vals[i] = n
      <4>1. CASE p # pn
        BY <1>1, <1>7, <3>1, <3>2, <4>1
      <4>2. CASE p = pn /\ n = ch
        <5>1. m + 2 \in 1 .. m + 2
          BY <1>3
        <5> QED BY <5>1, <1>6, <1>8, <4>2
      <4>3. CASE p = pn /\ n # ch
        <5>1. PICK i \in 1 .. m + 1 : V[i] = n
          BY <1>2, <1>3, <3>2, <4>3
        <5>2. i \in 1 .. m + 2 /\ vs[i] = n
          BY <5>1, <1>3, <1>6
        <5> QED BY <5>2, <1>6, <1>8, <4>3
      <4> QED BY <4>1, <4>2, <4>3
    <3> QED BY <3>2, <3>3
  <2>3. /\ r \in DOMAIN N /\ N2[r].parent = NULL
        /\ \A n \in DOMAIN N : N2[n].parent # n /\ (N2[n].parent = NULL => n = r)
    BY <1>0, <1>9 DEF Family
  <2> QED BY <1>7, <1>9, <2>1, <2>2, <2>3 DEF Family
<1>12. Ranges(N2, r, NULL, NULL, 0, lo, hi)
  <2>1. ASSUME NEW n \in DOMAIN N, ~ N[n].leaf, NEW i \in 1 .. Len(N2[n].vals)
        PROVE  /\ lo[N2[n].vals[i]] = IF i = 1 THEN lo[n] ELSE N2[n].keys[i - 1]
               /\ hi[N2[n].vals[i]] = IF i <= Len(N2[n].keys) THEN N2[n].keys[i] ELSE hi[n]
    <3>1. CASE n # pn
      <4>1. N2[n] = N[n]
        BY <1>7, <3>1
      <4>2. i \in 1 .. Len(N[n].vals)
        BY <2>1, <4>1
      <4>3. /\ lo[N[n].vals[i]] = IF i = 1 THEN lo[n] ELSE N[n].keys[i - 1]
            /\ hi[N[n].vals[i]] = IF i <= Len(N[n].keys) THEN N[n].keys[i]
                                  ELSE IF n = pn THEN pk ELSE hi[n]
        BY <1>0, <2>1, <4>2, RangeOf
      <4> QED BY <3>1, <4>1, <4>3
    <3>2. CASE n = pn
      <4>1. N2[n].vals = vs /\ N2[n].keys = ks /\ i \in 1 .. m + 2
        BY <1>6, <1>8, <2>1, <3>2
      <4>2. \A j \in 1 .. m + 1 : /\ lo[V[j]] = IF j = 1 THEN lo[pn] ELSE K[j - 1]
                                  /\ hi[V[j]] = IF j <= m THEN K[j] ELSE pk
        <5> SUFFICES ASSUME NEW j \in 1 .. m + 1
                     PROVE  /\ lo[V[j]] = IF j = 1 THEN lo[pn] ELSE K[j - 1]
                            /\ hi[V[j]] = IF j <= m THEN K[j] ELSE pk
          OBVIOUS
        <5>1. j \in 1 .. Len(N[pn].vals)
          BY <1>2, <1>3
        <5>2. /\ lo[N[pn].vals[j]] = IF j = 1 THEN lo[pn] ELSE N[pn].keys[j - 1]
              /\ hi[N[pn].vals[j]] = IF j <= Len(N[pn].keys) THEN N[pn].keys[j] ELSE pk
          BY <1>0, <1>1, <5>1, RangeOf
        <5> QED BY <1>2, <5>2
      <4>3. CASE i = m + 2
        <5>1. vs[i] = ch /\ i # 1 /\ i - 1 = m + 1 /\ ~ (i <= Len(ks))
          BY <4>3, <1>3, <1>5, <1>6
        <5> QED BY <5>1, <4>1, <1>1, <1>5, <3>2
      <4>4. CASE i \in 1 .. m + 1
        <5>1. vs[i] = V[i] /\ i <= Len(ks)
          BY <4>4, <1>3, <1>5, <1>6
        <5>2. i # 1 => ks[i - 1] = K[i - 1]
          BY <4>4, <1>3, <1>5
        <5>3. ks[i] = IF i <= m THEN K[i] ELSE pk
          BY <4>4, <1>3, <1>5
        <5> QED BY <5>1, <5>2, <5>3, <4>1, <4>2, <4>4, <3>2
      <4>5. i = m + 2 \/ i \in 1 .. m + 1
        BY <4>1, <1>3
      <4> QED BY <4>3, <4>4, <4>5
    <3> QED BY <3>1, <3>2
  <2>2. /\ lo \in [DOMAIN N2 -> Int] /\ hi \in [DOMAIN N2 -> Int] /\ lo[r] = -1 /\ hi[r] = Above
    BY <1>0, <1>7 DEF Ranges
  <2>3. \A n \in DOMAIN N2 : n # NULL /\ (N2[n].leaf <=> N[n].leaf)
    BY <1>0, <1>7, <1>9, NodeFacts
  <2> QED BY <1>7, <2>1, <2>2, <2>3 DEF Ranges
<1>13. Heights(N2, h)
  BY <1>0, <1>7, <1>9 DEF Heights
<1>14. Leaves(N2, L, app, lo, hi)
  BY <1>0, <1>7, <1>9 DEF Leaves
<1>15. Links(N2, L, app, pos)
  BY <1>0, <1>7, <1>9 DEF Links
<1> QED BY <1>10, <1>11, <1>12, <1>13, <1>14, <1>15 DEF Shape, N2

-----------------------------------------------------------------------------
(* The number of a new node. *)
LEMMA NewNode ==
  ASSUME NEW N, IsNodes(N), NEW new, new = Cardinality(DOMAIN N) + 1
  PROVE  /\ new \in Nat /\ new # NULL /\ new \notin DOMAIN N
         /\ \E c \in Nat : DOMAIN N \cup {new} = 1 .. c
         /\ Cardinality(DOMAIN N \cup {new}) = new
<1>1. PICK c \in Nat : DOMAIN N = 1 .. c
  BY DEF IsNodes
<1>2. Cardinality(1 .. c) = c /\ Cardinality(1 .. c + 1) = c + 1
  BY FS_Interval
<1>3. new = c + 1 /\ (1 .. c) \cup {c + 1} = 1 .. c + 1
  BY <1>1, <1>2
<1>4. new \in Nat /\ new # 0 /\ new \notin 1 .. c /\ c + 1 \in Nat
  BY <1>3
<1> QED BY <1>1, <1>2, <1>3, <1>4 DEF NULL

-----------------------------------------------------------------------------
(* A root above the root r, with r as its only child: the first part of    *)
(* mbptree_new_root and mbptree_split_root.                                *)
Raised(N, r, up) ==
  With(With(N, r, Rec(N[r].leaf, up, N[r].keys, N[r].vals, N[r].next)),
       up, Rec(FALSE, NULL, <<>>, <<r>>, NULL))

LEMMA RaiseShape ==
  ASSUME NEW N, NEW r, NEW L, NEW pn, NEW ch, NEW pk, NEW app, NEW lo, NEW hi, NEW h, NEW pos,
         Shape(N, r, L, pn, ch, pk, app, lo, hi, h, pos), pn = NULL => ch = NULL,
         NEW up, up = Cardinality(DOMAIN N) + 1
  PROVE  Shape(Raised(N, r, up), up, L, pn, ch, pk, app, With(lo, up, -1), With(hi, up, Above),
               With(h, up, h[r] + 1), With(pos, up, 0))
<1>0. /\ IsNodes(N) /\ Family(N, r, pn, ch) /\ Ranges(N, r, pn, ch, pk, lo, hi)
      /\ Heights(N, h) /\ Leaves(N, L, app, lo, hi) /\ Links(N, L, app, pos)
  BY DEF Shape
<1>1. /\ up \in Nat /\ up # NULL /\ up \notin DOMAIN N /\ \E c \in Nat : DOMAIN N \cup {up} = 1 .. c
  BY <1>0, NewNode
<1>2. /\ r \in DOMAIN N /\ N[r].parent = NULL /\ r # NULL /\ r \in Nat /\ NULL \notin DOMAIN N
      /\ N[r].leaf \in BOOLEAN /\ N[r].keys \in Seq(Key) /\ N[r].vals \in Seq(Nat) /\ N[r].next \in Nat
  BY <1>0, NodeFacts DEF Family
<1>3. PICK N2 : N2 = Raised(N, r, up)
  OBVIOUS
<1>4. PICK M : M = With(N, r, Rec(N[r].leaf, up, N[r].keys, N[r].vals, N[r].next))
  OBVIOUS
<1>5. /\ DOMAIN M = DOMAIN N /\ \A x \in DOMAIN N : x # r => M[x] = N[x]
      /\ M[r] = Rec(N[r].leaf, up, N[r].keys, N[r].vals, N[r].next)
  BY <1>2, <1>4 DEF With
<1>6. /\ DOMAIN N2 = DOMAIN N \cup {up} /\ \A x \in DOMAIN N : N2[x] = M[x]
      /\ N2[up] = Rec(FALSE, NULL, <<>>, <<r>>, NULL)
  <2>1. N2 = With(M, up, Rec(FALSE, NULL, <<>>, <<r>>, NULL))
    BY <1>3, <1>4 DEF Raised
  <2> QED BY <1>1, <1>5, <2>1 DEF With
<1>7. /\ N2[r].leaf = N[r].leaf /\ N2[r].parent = up /\ N2[r].keys = N[r].keys
      /\ N2[r].vals = N[r].vals /\ N2[r].next = N[r].next
  BY <1>2, <1>5, <1>6 DEF Rec
<1>8. /\ N2[up].leaf = FALSE /\ N2[up].parent = NULL /\ N2[up].keys = <<>>
      /\ N2[up].vals = <<r>> /\ N2[up].next = NULL
  BY <1>6 DEF Rec
<1>9. \A x \in DOMAIN N : /\ N2[x].leaf = N[x].leaf /\ N2[x].keys = N[x].keys
                          /\ N2[x].vals = N[x].vals /\ N2[x].next = N[x].next
                          /\ (x # r => N2[x].parent = N[x].parent)
  BY <1>5, <1>6, <1>7
<1>10. PICK lo2, hi2, h2, pos2 : /\ lo2 = With(lo, up, -1) /\ hi2 = With(hi, up, Above)
                                 /\ h2 = With(h, up, h[r] + 1) /\ pos2 = With(pos, up, 0)
  OBVIOUS
<1>11. /\ lo \in [DOMAIN N -> Int] /\ hi \in [DOMAIN N -> Int] /\ h \in [DOMAIN N -> Nat]
       /\ pos \in [DOMAIN N -> Nat]
  BY <1>0 DEF Ranges, Heights, Links
<1>12. /\ lo2 \in [DOMAIN N2 -> Int] /\ hi2 \in [DOMAIN N2 -> Int] /\ h2 \in [DOMAIN N2 -> Nat]
       /\ pos2 \in [DOMAIN N2 -> Nat]
  <2>1. Above \in Int /\ h[r] + 1 \in Nat
    BY <1>2, <1>11, KeyFacts
  <2>2. lo2 \in [DOMAIN N2 -> Int] /\ hi2 \in [DOMAIN N2 -> Int]
    BY <1>6, <1>10, <1>11, <2>1 DEF With
  <2>3. h2 \in [DOMAIN N2 -> Nat] /\ pos2 \in [DOMAIN N2 -> Nat]
    BY <1>6, <1>10, <1>11, <2>1 DEF With
  <2> QED BY <2>2, <2>3
<1>13. /\ lo2[up] = -1 /\ hi2[up] = Above /\ h2[up] = h[r] + 1 /\ pos2[up] = 0
       /\ \A x \in DOMAIN N : lo2[x] = lo[x] /\ hi2[x] = hi[x] /\ h2[x] = h[x] /\ pos2[x] = pos[x]
  BY <1>1, <1>10, <1>11 DEF With
<1>14. IsNodes(N2)
  <2>1. N2[up] \in NodeRec
    <3>1. <<>> \in Seq(Key) /\ <<r>> \in Seq(Nat) /\ NULL \in Nat
      BY <1>2 DEF NULL
    <3> QED BY <1>6, <3>1, RecType
  <2>2. N2[r] \in NodeRec
    BY <1>1, <1>2, <1>5, <1>6, RecType
  <2>3. \A x \in DOMAIN N2 : N2[x] \in NodeRec
    BY <1>0, <1>5, <1>6, <2>1, <2>2 DEF IsNodes
  <2>4. N2 \in [DOMAIN N2 -> NodeRec]
    BY <1>1, <1>3, <1>6, <2>3 DEF Raised, With
  <2>5. Len(<<r>>) = Len(<<>>) + 1
    OBVIOUS
  <2> QED BY ZenonT(60), <1>0, <1>1, <1>6, <1>8, <1>9, <2>4, <2>5 DEF IsNodes
<1>15. Family(N2, up, pn, ch)
  <2>1. ASSUME NEW n \in DOMAIN N2 PROVE N2[n].parent # n /\ (N2[n].parent = NULL => n = up)
    <3>1. CASE n = up
      BY <1>1, <1>8, <3>1
    <3>2. CASE n = r
      BY <1>1, <1>2, <1>7, <3>2
    <3>3. CASE n \in DOMAIN N /\ n # r
      BY <1>0, <1>9, <3>3 DEF Family
    <3> QED BY <1>6, <3>1, <3>2, <3>3
  <2>2. ch # r
    BY <1>0, <1>2 DEF Family
  <2>3. ASSUME NEW n \in DOMAIN N, ~ N[n].leaf, NEW i \in 1 .. Len(N[n].vals)
        PROVE  /\ N[n].vals[i] \in DOMAIN N
               /\ N2[N[n].vals[i]].parent = n
               /\ N[n].vals[i] # ch
               /\ \A j \in 1 .. Len(N[n].vals) : i # j => N[n].vals[i] # N[n].vals[j]
    <3>1. /\ N[n].vals[i] \in DOMAIN N /\ N[N[n].vals[i]].parent = n /\ N[n].vals[i] # ch
          /\ \A j \in 1 .. Len(N[n].vals) : i # j => N[n].vals[i] # N[n].vals[j]
      BY <1>0, <2>3 DEF Family
    <3>2. N[n].vals[i] # r
      BY <1>2, <3>1
    <3> QED BY <1>9, <3>1, <3>2
  <2>4. \A i \in 1 .. Len(N2[up].vals) : i = 1 /\ N2[up].vals[i] = r
    BY <1>8
  <2>5. \A n \in DOMAIN N2 : ~ N2[n].leaf => \A i \in 1 .. Len(N2[n].vals) :
          /\ N2[n].vals[i] \in DOMAIN N2
          /\ N2[N2[n].vals[i]].parent = n
          /\ N2[n].vals[i] # ch
          /\ \A j \in 1 .. Len(N2[n].vals) : i # j => N2[n].vals[i] # N2[n].vals[j]
    <3>1. \A n \in DOMAIN N : n \in DOMAIN N2 /\ (N2[n].leaf <=> N[n].leaf) /\ N2[n].vals = N[n].vals
      BY <1>6, <1>9
    <3>2. \A n \in DOMAIN N2 : n \in DOMAIN N \/ n = up
      BY <1>6
    <3> SUFFICES ASSUME NEW n \in DOMAIN N2, ~ N2[n].leaf, NEW i \in 1 .. Len(N2[n].vals)
                 PROVE  /\ N2[n].vals[i] \in DOMAIN N2
                        /\ N2[N2[n].vals[i]].parent = n
                        /\ N2[n].vals[i] # ch
                        /\ \A j \in 1 .. Len(N2[n].vals) : i # j => N2[n].vals[i] # N2[n].vals[j]
      OBVIOUS
    <3>3. CASE n \in DOMAIN N
      BY <2>3, <3>1, <3>3
    <3>4. CASE n = up
      BY <1>2, <1>7, <2>2, <2>4, <3>1, <3>4
    <3> QED BY <3>2, <3>3, <3>4
  <2>6. ASSUME NEW n \in DOMAIN N, n # r
        PROVE  /\ N[n].parent \in DOMAIN N /\ ~ N[N[n].parent].leaf
               /\ n = ch \/ \E i \in 1 .. Len(N[N[n].parent].vals) : N[N[n].parent].vals[i] = n
    BY <1>0, <2>6 DEF Family
  <2>7. \E i \in 1 .. Len(N2[up].vals) : N2[up].vals[i] = r
    <3>1. Len(<<r>>) = 1 /\ <<r>>[1] = r /\ 1 \in 1 .. 1
      OBVIOUS
    <3> QED BY <1>8, <3>1
  <2>8. \A n \in DOMAIN N2 : N2[n].parent # NULL =>
          /\ N2[n].parent \in DOMAIN N2 /\ ~ N2[N2[n].parent].leaf
          /\ n = ch \/ \E i \in 1 .. Len(N2[N2[n].parent].vals) : N2[N2[n].parent].vals[i] = n
    <3>1. ASSUME NEW n \in DOMAIN N, n # r
          PROVE  /\ N2[n].parent \in DOMAIN N2 /\ ~ N2[N2[n].parent].leaf
                 /\ n = ch \/ \E i \in 1 .. Len(N2[N2[n].parent].vals) : N2[N2[n].parent].vals[i] = n
      <4>1. PICK p : p = N[n].parent
        OBVIOUS
      <4>2. /\ N2[n].parent = p /\ p \in DOMAIN N /\ ~ N[p].leaf
            /\ n = ch \/ \E i \in 1 .. Len(N[p].vals) : N[p].vals[i] = n
        BY <1>9, <2>6, <3>1, <4>1
      <4>3. p \in DOMAIN N2 /\ ~ N2[p].leaf /\ N2[p].vals = N[p].vals
        BY <1>6, <1>9, <4>2
      <4> QED BY <4>2, <4>3
    <3>2. up \in DOMAIN N2 /\ ~ N2[up].leaf /\ \A n \in DOMAIN N2 : n \in DOMAIN N \/ n = up
      BY <1>6, <1>8
    <3> QED BY <1>7, <1>8, <2>7, <3>1, <3>2
  <2>9. pn # NULL => pn \in DOMAIN N2 /\ ~ N2[pn].leaf /\ ch \in DOMAIN N2 /\ N2[ch].parent = pn
    BY <1>0, <1>6, <1>9, <2>2 DEF Family
  <2> QED BY <1>6, <1>8, <2>1, <2>5, <2>8, <2>9 DEF Family
<1>16. Ranges(N2, up, pn, ch, pk, lo2, hi2)
  <2>1. ASSUME NEW n \in DOMAIN N, ~ N[n].leaf, NEW i \in 1 .. Len(N[n].vals)
        PROVE  /\ lo2[N[n].vals[i]] = IF i = 1 THEN lo2[n] ELSE N[n].keys[i - 1]
               /\ hi2[N[n].vals[i]] = IF i <= Len(N[n].keys) THEN N[n].keys[i]
                                      ELSE IF n = pn THEN pk ELSE hi2[n]
    <3>1. N[n].vals[i] \in DOMAIN N
      BY <1>0, <2>1 DEF Family
    <3>2. /\ lo[N[n].vals[i]] = IF i = 1 THEN lo[n] ELSE N[n].keys[i - 1]
          /\ hi[N[n].vals[i]] = IF i <= Len(N[n].keys) THEN N[n].keys[i]
                                ELSE IF n = pn THEN pk ELSE hi[n]
      BY <1>0, <2>1 DEF Ranges
    <3> QED BY <1>13, <3>1, <3>2
  <2>2. \A i \in 1 .. Len(N2[up].vals) : i = 1 /\ N2[up].vals[i] = r /\ ~ (i <= Len(N2[up].keys))
    BY <1>8
  <2>3. pn # up /\ lo2[r] = -1 /\ hi2[r] = Above
    BY <1>0, <1>1, <1>13 DEF Ranges, Family
  <2>4. \A n \in DOMAIN N2 : ~ N2[n].leaf => \A i \in 1 .. Len(N2[n].vals) :
          /\ lo2[N2[n].vals[i]] = IF i = 1 THEN lo2[n] ELSE N2[n].keys[i - 1]
          /\ hi2[N2[n].vals[i]] = IF i <= Len(N2[n].keys) THEN N2[n].keys[i]
                                  ELSE IF n = pn THEN pk ELSE hi2[n]
    <3>1. \A n \in DOMAIN N : /\ (N2[n].leaf <=> N[n].leaf) /\ N2[n].vals = N[n].vals
                              /\ N2[n].keys = N[n].keys
      BY <1>9
    <3>2. \A n \in DOMAIN N2 : n \in DOMAIN N \/ n = up
      BY <1>6
    <3> SUFFICES ASSUME NEW n \in DOMAIN N2, ~ N2[n].leaf, NEW i \in 1 .. Len(N2[n].vals)
                 PROVE  /\ lo2[N2[n].vals[i]] = IF i = 1 THEN lo2[n] ELSE N2[n].keys[i - 1]
                        /\ hi2[N2[n].vals[i]] = IF i <= Len(N2[n].keys) THEN N2[n].keys[i]
                                                ELSE IF n = pn THEN pk ELSE hi2[n]
      OBVIOUS
    <3>3. CASE n \in DOMAIN N
      BY SMTT(30), <2>1, <3>1, <3>3
    <3>4. CASE n = up
      BY <1>13, <2>2, <2>3, <3>4
    <3> QED BY <3>2, <3>3, <3>4
  <2>5. pn # NULL => hi2[pn] = Above /\ lo2[ch] = pk /\ hi2[ch] = Above /\ pk \in Key
    BY <1>0, <1>13 DEF Ranges, Family
  <2> QED BY <1>12, <1>13, <2>4, <2>5 DEF Ranges
<1>17. Heights(N2, h2)
  <2>1. \A n \in DOMAIN N : n # r => N[n].parent \in DOMAIN N /\ N[n].parent # NULL
    BY <1>0 DEF Family
  <2>2. h2[up] # 0
    BY <1>2, <1>11, <1>13
  <2>3. ASSUME NEW n \in DOMAIN N2
        PROVE  /\ N2[n].leaf <=> h2[n] = 0
               /\ N2[n].parent # NULL => h2[N2[n].parent] = h2[n] + 1
    <3>1. CASE n = up
      BY <1>8, <2>2, <3>1
    <3>2. CASE n = r
      BY <1>0, <1>2, <1>7, <1>13, <3>2 DEF Heights
    <3>3. CASE n \in DOMAIN N /\ n # r
      BY <1>0, <1>9, <1>13, <2>1, <3>3 DEF Heights
    <3> QED BY <1>6, <3>1, <3>2, <3>3
  <2> QED BY <1>12, <2>3 DEF Heights
<1>18. Leaves(N2, L, app, lo2, hi2)
  <2>1. \A n \in DOMAIN N2 : N2[n].leaf => n \in DOMAIN N
    BY <1>6, <1>8
  <2> QED BY <1>0, <1>6, <1>9, <1>13, <2>1 DEF Leaves
<1>19. Links(N2, L, app, pos2)
  <2>1. \A n \in DOMAIN N2 : N2[n].leaf => n \in DOMAIN N
    BY <1>6, <1>8
  <2>2. ASSUME NEW n \in DOMAIN N2, ~ N2[n].leaf PROVE N2[n].next = NULL
    <3>1. n = up \/ (n \in DOMAIN N /\ ~ N[n].leaf /\ N2[n].next = N[n].next)
      BY <1>6, <1>9, <2>2
    <3>2. \A x \in DOMAIN N : ~ N[x].leaf => N[x].next = NULL
      BY <1>0 DEF Links
    <3> QED BY <1>8, <3>1, <3>2
  <2>3. ASSUME NEW n \in DOMAIN N, N[n].leaf
        PROVE  /\ pos2[n] + Len(N2[n].keys) <= Len(app)
               /\ \A j \in 1 .. Len(N2[n].keys) : N2[n].keys[j] = app[pos2[n] + j]
               /\ n = L => N2[n].next = NULL /\ pos2[n] + Len(N2[n].keys) = Len(app)
               /\ n # L => /\ N2[n].next \in DOMAIN N2 /\ N2[N2[n].next].leaf
                           /\ Len(N2[n].keys) > 0
                           /\ pos2[N2[n].next] = pos2[n] + Len(N2[n].keys)
    <3>1. /\ pos[n] + Len(N[n].keys) <= Len(app)
          /\ \A j \in 1 .. Len(N[n].keys) : N[n].keys[j] = app[pos[n] + j]
          /\ n = L => N[n].next = NULL /\ pos[n] + Len(N[n].keys) = Len(app)
          /\ n # L => /\ N[n].next \in DOMAIN N /\ N[N[n].next].leaf
                      /\ Len(N[n].keys) > 0
                      /\ pos[N[n].next] = pos[n] + Len(N[n].keys)
      BY <1>0, <2>3 DEF Links
    <3>2. N2[n].keys = N[n].keys /\ N2[n].next = N[n].next /\ pos2[n] = pos[n]
      BY <1>9, <1>13
    <3>3. \A x \in DOMAIN N : x \in DOMAIN N2 /\ N2[x].leaf = N[x].leaf /\ pos2[x] = pos[x]
      BY <1>6, <1>9, <1>13
    <3> QED BY <3>1, <3>2, <3>3
  <2>4. 1 \in DOMAIN N2 /\ N2[1].leaf /\ pos2[1] = 0
    BY <1>0, <1>6, <1>9, <1>13 DEF Links
  <2>5. \A n \in DOMAIN N2 : N2[n].leaf => N[n].leaf
    BY <1>9, <2>1
  <2> QED BY <1>12, <2>1, <2>2, <2>3, <2>4, <2>5 DEF Links
<1> QED BY <1>3, <1>10, <1>14, <1>15, <1>16, <1>17, <1>18, <1>19 DEF Shape

-----------------------------------------------------------------------------
(* A key that is greater than those of the last leaf is greater than all,  *)
(* and is in no other leaf's range.                                        *)
LEMMA GreatestKey ==
  ASSUME NEW N, NEW L, NEW app, NEW lo, NEW hi, IsNodes(N), Leaves(N, L, app, lo, hi),
         lo \in [DOMAIN N -> Int], hi \in [DOMAIN N -> Int],
         NEW key \in Key, \A i \in 1 .. Len(N[L].keys) : N[L].keys[i] < key
  PROVE  /\ lo[L] \in Int /\ lo[L] <= key
         /\ \A k \in 1 .. Len(app) : app[k] < key
         /\ \A n \in DOMAIN N : N[n].leaf /\ n # L => hi[n] \in Int /\ hi[n] <= key /\ hi[n] <= lo[L]
<1>1. /\ L \in DOMAIN N /\ N[L].leaf /\ hi[L] = Above /\ app \in Seq(Key)
      /\ lo[L] = -1 \/ (Len(N[L].keys) > 0 /\ N[L].keys[1] = lo[L])
      /\ \A k \in 1 .. Len(app) : lo[L] <= app[k] /\ app[k] < hi[L] =>
           \E i \in 1 .. Len(N[L].keys) : N[L].keys[i] = app[k]
      /\ \A n \in DOMAIN N : N[n].leaf /\ n # L => hi[n] <= lo[L]
  BY DEF Leaves
<1>2. PICK K, m : K = N[L].keys /\ m = Len(K)
  OBVIOUS
<1>3. K \in Seq(Key) /\ m \in Nat /\ \A i \in 1 .. m : K[i] \in Key /\ K[i] < key
  BY <1>1, <1>2, NodeFacts
<1>4. lo[L] \in Int /\ key \in Nat /\ Key \subseteq Nat /\ \A k \in Key : 0 <= k /\ k < Above
  BY <1>1, KeyFacts
<1>5. lo[L] <= key
  <2>1. CASE lo[L] = -1
    BY <2>1, <1>4
  <2>2. CASE m > 0 /\ K[1] = lo[L]
    <3>1. K[1] < key
      BY <1>3, <2>2
    <3> QED BY <3>1, <2>2, <1>4
  <2> QED BY <1>1, <1>2, <2>1, <2>2
<1>6. ASSUME NEW k \in 1 .. Len(app) PROVE app[k] < key
  <2>1. app[k] \in Key
    BY <1>1
  <2>2. app[k] \in Nat /\ app[k] < Above
    BY <2>1, <1>4
  <2>3. CASE lo[L] <= app[k]
    <3>1. PICK i \in 1 .. m : K[i] = app[k]
      BY <1>1, <1>2, <2>2, <2>3
    <3> QED BY <3>1, <1>3
  <2>4. CASE ~ (lo[L] <= app[k])
    BY <2>2, <2>4, <1>4, <1>5
  <2> QED BY <2>3, <2>4
<1>7. ASSUME NEW n \in DOMAIN N, N[n].leaf, n # L
      PROVE  hi[n] \in Int /\ hi[n] <= key /\ hi[n] <= lo[L]
  <2>1. hi[n] \in Int /\ hi[n] <= lo[L]
    BY <1>1, <1>7
  <2> QED BY <2>1, <1>4, <1>5
<1> QED BY <1>4, <1>5, <1>6, <1>7

(* A node whose range has no end is the last child of one like that. *)
LEMMA RightSpine ==
  ASSUME NEW N, NEW r, NEW pn, NEW ch, NEW pk, NEW lo, NEW hi,
         IsNodes(N), Family(N, r, pn, ch), Ranges(N, r, pn, ch, pk, lo, hi),
         NEW n \in DOMAIN N, hi[n] = Above, n # ch, NEW p, p = N[n].parent, p # NULL, p # pn
  PROVE  /\ p \in DOMAIN N /\ ~ N[p].leaf /\ hi[p] = Above
         /\ N[p].vals[Len(N[p].keys) + 1] = n
<1>1. /\ p \in DOMAIN N /\ ~ N[p].leaf
      /\ \E i \in 1 .. Len(N[p].vals) : N[p].vals[i] = n
  BY DEF Family
<1>2. PICK i \in 1 .. Len(N[p].vals) : N[p].vals[i] = n
  BY <1>1
<1>3. hi[n] = IF i <= Len(N[p].keys) THEN N[p].keys[i] ELSE hi[p]
  <2>1. hi[N[p].vals[i]] = IF i <= Len(N[p].keys) THEN N[p].keys[i] ELSE IF p = pn THEN pk ELSE hi[p]
    BY <1>1, RangeOf
  <2> QED BY <1>2, <2>1
<1>4. /\ N[p].keys \in Seq(Key) /\ Len(N[p].keys) \in Nat /\ Len(N[p].vals) = Len(N[p].keys) + 1
  BY <1>1, NodeFacts DEF IsNodes
<1>5. ~ (i <= Len(N[p].keys))
  <2> SUFFICES ASSUME i <= Len(N[p].keys) PROVE FALSE
    OBVIOUS
  <2>1. i \in 1 .. Len(N[p].keys)
    BY <1>2, <1>4
  <2>2. N[p].keys[i] \in Key
    BY <1>4, <2>1
  <2> QED BY <1>3, <2>2, KeyFacts
<1>6. i = Len(N[p].keys) + 1
  BY <1>2, <1>4, <1>5
<1> QED BY <1>1, <1>2, <1>3, <1>5, <1>6

-----------------------------------------------------------------------------
(* The last leaf has room and gets a key. *)
Grown(N, L, key) ==
  [N EXCEPT ![L] = Rec(N[L].leaf, N[L].parent, Append(N[L].keys, key), Append(N[L].vals, key),
                       N[L].next)]

LEMMA GrowShape ==
  ASSUME NEW N, NEW r, NEW L, NEW app, NEW lo, NEW hi, NEW h, NEW pos,
         Shape(N, r, L, NULL, NULL, 0, app, lo, hi, h, pos),
         NEW key \in Key, \A i \in 1 .. Len(N[L].keys) : N[L].keys[i] < key
  PROVE  Shape(Grown(N, L, key), r, L, NULL, NULL, 0, Append(app, key), lo, hi, h, pos)
<1>0. /\ IsNodes(N) /\ Family(N, r, NULL, NULL) /\ Ranges(N, r, NULL, NULL, 0, lo, hi)
      /\ Heights(N, h) /\ Leaves(N, L, app, lo, hi) /\ Links(N, L, app, pos)
  BY DEF Shape
<1>1. /\ L \in DOMAIN N /\ N[L].leaf /\ hi[L] = Above /\ app \in Seq(Key) /\ key \in Nat /\ key < Above
      /\ key >= 0
  BY <1>0, KeyFacts DEF Leaves
<1>2. PICK K, m, len : K = N[L].keys /\ m = Len(K) /\ len = Len(app)
  OBVIOUS
<1>3. /\ N[L].parent \in Nat /\ N[L].next \in Nat /\ K \in Seq(Key) /\ m \in Nat /\ len \in Nat
      /\ N[L].vals = K /\ K \in Seq(Nat)
  <2>1. K \in Seq(Key)
    BY <1>0, <1>1, <1>2, NodeFacts
  <2>2. K \in Seq(Nat)
    BY <2>1, KeyFacts, SeqMonotonic
  <2>3. N[L].parent \in Nat /\ N[L].next \in Nat /\ N[L].vals = K
    BY <1>0, <1>1, <1>2, NodeFacts DEF IsNodes
  <2>4. m \in Nat /\ len \in Nat
    BY <1>1, <1>2, <2>1
  <2> QED BY <2>1, <2>2, <2>3, <2>4
<1>4. PICK ks, ap : ks = Append(K, key) /\ ap = Append(app, key)
  OBVIOUS
<1>5. /\ ks \in Seq(Key) /\ ks \in Seq(Nat) /\ Len(ks) = m + 1 /\ ks[m + 1] = key
      /\ \A i \in 1 .. m : ks[i] = K[i]
  BY <1>1, <1>2, <1>3, <1>4, AppendProperties
<1>6. /\ ap \in Seq(Key) /\ Len(ap) = len + 1 /\ ap[len + 1] = key
      /\ \A i \in 1 .. len : ap[i] = app[i]
  BY <1>1, <1>2, <1>4, AppendProperties
<1>7. PICK N2 : N2 = Grown(N, L, key)
  OBVIOUS
<1>8. /\ DOMAIN N2 = DOMAIN N /\ \A x \in DOMAIN N : x # L => N2[x] = N[x]
      /\ N2[L] = Rec(N[L].leaf, N[L].parent, ks, ks, N[L].next)
  BY <1>1, <1>2, <1>3, <1>4, <1>7 DEF Grown
<1>9. /\ N2[L].leaf = N[L].leaf /\ N2[L].parent = N[L].parent /\ N2[L].keys = ks
      /\ N2[L].vals = ks /\ N2[L].next = N[L].next
  BY <1>8 DEF Rec
<1>10. \A x \in DOMAIN N : /\ N2[x].leaf = N[x].leaf /\ N2[x].parent = N[x].parent
                           /\ N2[x].next = N[x].next /\ (~ N[x].leaf => N2[x] = N[x])
  BY <1>1, <1>8, <1>9
<1>11. IsNodes(N2)
  <2>1. N2[L] \in NodeRec
    <3>1. N[L].leaf \in BOOLEAN
      BY <1>0, <1>1, NodeFacts
    <3> QED BY <1>3, <1>5, <1>8, <3>1, RecType
  <2>2. N2 \in [DOMAIN N2 -> NodeRec]
    BY <1>0, <1>7, <1>8, <2>1 DEF IsNodes, Grown
  <2> QED BY <1>0, <1>1, <1>8, <1>9, <2>2 DEF IsNodes
<1>12. Family(N2, r, NULL, NULL)
  <2>1. ASSUME NEW n \in DOMAIN N, N[n].parent # NULL
        PROVE  /\ N2[n].parent \in DOMAIN N /\ ~ N2[N2[n].parent].leaf
               /\ \E i \in 1 .. Len(N2[N2[n].parent].vals) : N2[N2[n].parent].vals[i] = n
    <3>1. PICK p : p = N[n].parent
      OBVIOUS
    <3>2. /\ p \in DOMAIN N /\ ~ N[p].leaf /\ n # NULL
          /\ n = NULL \/ \E i \in 1 .. Len(N[p].vals) : N[p].vals[i] = n
      BY <1>0, <2>1, <3>1, NodeFacts DEF Family
    <3>3. N2[p] = N[p] /\ N2[n].parent = p
      BY <1>10, <3>1, <3>2
    <3> QED BY <3>2, <3>3
  <2>2. ASSUME NEW n \in DOMAIN N, ~ N[n].leaf, NEW i \in 1 .. Len(N[n].vals)
        PROVE  /\ N[n].vals[i] \in DOMAIN N
               /\ N2[N[n].vals[i]].parent = n
               /\ N[n].vals[i] # NULL
               /\ \A j \in 1 .. Len(N[n].vals) : i # j => N[n].vals[i] # N[n].vals[j]
    BY <1>0, <1>10, <2>2 DEF Family
  <2>3. \A n \in DOMAIN N : ~ N2[n].leaf => ~ N[n].leaf /\ N2[n].vals = N[n].vals
    BY <1>10
  <2>4. /\ r \in DOMAIN N /\ N2[r].parent = NULL
        /\ \A n \in DOMAIN N : N2[n].parent # n /\ (N2[n].parent = NULL => n = r)
    BY <1>0, <1>10 DEF Family
  <2> QED BY <1>8, <1>10, <2>1, <2>2, <2>3, <2>4 DEF Family
<1>13. Ranges(N2, r, NULL, NULL, 0, lo, hi)
  <2>1. ASSUME NEW n \in DOMAIN N, ~ N2[n].leaf
        PROVE  N2[n] = N[n] /\ ~ N[n].leaf /\ n # NULL
    BY <1>0, <1>10, <2>1, NodeFacts
  <2>2. /\ lo \in [DOMAIN N2 -> Int] /\ hi \in [DOMAIN N2 -> Int] /\ lo[r] = -1 /\ hi[r] = Above
    BY <1>0, <1>8 DEF Ranges
  <2>3. \A n \in DOMAIN N : ~ N[n].leaf => \A i \in 1 .. Len(N[n].vals) :
          /\ lo[N[n].vals[i]] = IF i = 1 THEN lo[n] ELSE N[n].keys[i - 1]
          /\ hi[N[n].vals[i]] = IF i <= Len(N[n].keys) THEN N[n].keys[i]
                                ELSE IF n = NULL THEN 0 ELSE hi[n]
    BY <1>0 DEF Ranges
  <2>4. ASSUME NEW n \in DOMAIN N2, ~ N2[n].leaf, NEW i \in 1 .. Len(N2[n].vals)
        PROVE  /\ lo[N2[n].vals[i]] = IF i = 1 THEN lo[n] ELSE N2[n].keys[i - 1]
               /\ hi[N2[n].vals[i]] = IF i <= Len(N2[n].keys) THEN N2[n].keys[i]
                                      ELSE IF n = NULL THEN 0 ELSE hi[n]
    <3>1. N2[n] = N[n] /\ n \in DOMAIN N /\ ~ N[n].leaf
      BY <1>8, <2>1, <2>4
    <3> QED BY <2>3, <2>4, <3>1
  <2> QED BY <2>2, <2>4 DEF Ranges
<1>14. Heights(N2, h)
  BY <1>0, <1>8, <1>10 DEF Heights
<1>15. /\ lo \in [DOMAIN N -> Int] /\ hi \in [DOMAIN N -> Int] /\ pos \in [DOMAIN N -> Nat]
  BY <1>0 DEF Ranges, Links
<1>16. /\ lo[L] \in Int /\ lo[L] <= key /\ \A k \in 1 .. len : app[k] < key
       /\ \A n \in DOMAIN N : N[n].leaf /\ n # L => hi[n] \in Int /\ hi[n] <= key /\ hi[n] <= lo[L]
  BY <1>0, <1>2, <1>15, GreatestKey
<1>17. Leaves(N2, L, ap, lo, hi)
  <2>1. ASSUME NEW n \in DOMAIN N, N[n].leaf, n # L
        PROVE  /\ hi[n] <= lo[L]
               /\ lo[n] = -1 \/ (Len(N[n].keys) > 0 /\ N[n].keys[1] = lo[n])
               /\ \A i, j \in 1 .. Len(N[n].keys) : i < j => N[n].keys[i] < N[n].keys[j]
               /\ \A i \in 1 .. Len(N[n].keys) : lo[n] <= N[n].keys[i] /\ N[n].keys[i] < hi[n]
               /\ \A k \in 1 .. len + 1 : lo[n] <= ap[k] /\ ap[k] < hi[n] =>
                    \E i \in 1 .. Len(N[n].keys) : N[n].keys[i] = ap[k]
    <3>1. /\ hi[n] <= lo[L]
          /\ lo[n] = -1 \/ (Len(N[n].keys) > 0 /\ N[n].keys[1] = lo[n])
          /\ \A i, j \in 1 .. Len(N[n].keys) : i < j => N[n].keys[i] < N[n].keys[j]
          /\ \A i \in 1 .. Len(N[n].keys) : lo[n] <= N[n].keys[i] /\ N[n].keys[i] < hi[n]
          /\ \A k \in 1 .. len : lo[n] <= app[k] /\ app[k] < hi[n] =>
               \E i \in 1 .. Len(N[n].keys) : N[n].keys[i] = app[k]
      BY <1>0, <1>2, <2>1 DEF Leaves
    <3>2. ~ (ap[len + 1] < hi[n])
      <4>1. hi[n] \in Int /\ hi[n] <= key
        BY <1>16, <2>1
      <4> QED BY <4>1, <1>1, <1>6
    <3>3. \A k \in 1 .. len + 1 : k = len + 1 \/ (k \in 1 .. len /\ ap[k] = app[k])
      BY <1>3, <1>6
    <3> QED BY <3>1, <3>2, <3>3
  <2>2. /\ lo[L] = -1 \/ (m > 0 /\ K[1] = lo[L])
        /\ \A i, j \in 1 .. m : i < j => K[i] < K[j]
        /\ \A i \in 1 .. m : lo[L] <= K[i] /\ K[i] < key
        /\ \A k \in 1 .. len : lo[L] <= app[k] /\ app[k] < hi[L] => \E i \in 1 .. m : K[i] = app[k]
    BY <1>0, <1>1, <1>2 DEF Leaves
  <2>3. lo[L] = -1 \/ (Len(ks) > 0 /\ ks[1] = lo[L])
    BY <2>2, <1>3, <1>5
  <2>4. ASSUME NEW i \in 1 .. m + 1, NEW j \in 1 .. m + 1, i < j PROVE ks[i] < ks[j]
    <3>1. i \in 1 .. m /\ ks[i] = K[i]
      BY <2>4, <1>3, <1>5
    <3>2. CASE j \in 1 .. m
      BY <2>2, <2>4, <3>1, <3>2, <1>5
    <3>3. CASE j = m + 1
      BY <2>2, <3>1, <3>3, <1>5
    <3> QED BY <3>2, <3>3, <1>3
  <2>5. ASSUME NEW i \in 1 .. m + 1 PROVE lo[L] <= ks[i] /\ ks[i] < hi[L]
    <3>1. CASE i = m + 1
      BY <3>1, <1>1, <1>5, <1>16
    <3>2. CASE i \in 1 .. m
      <4>1. ks[i] = K[i] /\ K[i] \in Key /\ lo[L] <= K[i]
        BY <3>2, <1>3, <1>5, <2>2
      <4> QED BY <4>1, <1>1, KeyFacts
    <3> QED BY <3>1, <3>2, <1>3
  <2>6. ASSUME NEW k \in 1 .. len + 1, lo[L] <= ap[k], ap[k] < hi[L]
        PROVE  \E i \in 1 .. m + 1 : ks[i] = ap[k]
    <3>1. CASE k = len + 1
      <4>1. m + 1 \in 1 .. m + 1
        BY <1>3
      <4> QED BY <3>1, <4>1, <1>5, <1>6
    <3>2. CASE k \in 1 .. len
      <4>1. PICK i \in 1 .. m : K[i] = app[k]
        BY <2>2, <2>6, <3>2, <1>6
      <4>2. i \in 1 .. m + 1 /\ ks[i] = ap[k]
        BY <4>1, <3>2, <1>3, <1>5, <1>6
      <4> QED BY <4>2
    <3> QED BY <3>1, <3>2, <1>3
  <2>7. \A n \in DOMAIN N2 : N2[n].leaf =>
          /\ n # L => hi[n] <= lo[L]
          /\ lo[n] = -1 \/ (Len(N2[n].keys) > 0 /\ N2[n].keys[1] = lo[n])
          /\ \A i, j \in 1 .. Len(N2[n].keys) : i < j => N2[n].keys[i] < N2[n].keys[j]
          /\ \A i \in 1 .. Len(N2[n].keys) : lo[n] <= N2[n].keys[i] /\ N2[n].keys[i] < hi[n]
          /\ \A k \in 1 .. Len(ap) : lo[n] <= ap[k] /\ ap[k] < hi[n] =>
               \E i \in 1 .. Len(N2[n].keys) : N2[n].keys[i] = ap[k]
    <3> SUFFICES ASSUME NEW n \in DOMAIN N, N[n].leaf
          PROVE  /\ n # L => hi[n] <= lo[L]
                 /\ lo[n] = -1 \/ (Len(N2[n].keys) > 0 /\ N2[n].keys[1] = lo[n])
                 /\ \A i, j \in 1 .. Len(N2[n].keys) : i < j => N2[n].keys[i] < N2[n].keys[j]
                 /\ \A i \in 1 .. Len(N2[n].keys) : lo[n] <= N2[n].keys[i] /\ N2[n].keys[i] < hi[n]
                 /\ \A k \in 1 .. len + 1 : lo[n] <= ap[k] /\ ap[k] < hi[n] =>
                      \E i \in 1 .. Len(N2[n].keys) : N2[n].keys[i] = ap[k]
      BY <1>6, <1>8, <1>10
    <3>1. CASE n # L
      BY <1>8, <2>1, <3>1
    <3>2. CASE n = L
      <4>1. N2[n].keys = ks /\ Len(ks) = m + 1
        BY <1>5, <1>9, <3>2
      <4> QED BY <3>2, <4>1, <2>3, <2>4, <2>5, <2>6
    <3> QED BY <3>1, <3>2
  <2> QED BY <1>1, <1>6, <1>8, <1>9, <2>7 DEF Leaves
<1>18. Links(N2, L, ap, pos)
  <2>1. pos[L] + m = len /\ pos[L] \in Nat /\ N[L].next = NULL
        /\ \A j \in 1 .. m : K[j] = app[pos[L] + j]
    BY <1>0, <1>1, <1>2, <1>15 DEF Links
  <2>2. ASSUME NEW j \in 1 .. m + 1 PROVE ks[j] = ap[pos[L] + j]
    <3>1. CASE j = m + 1
      <4>1. pos[L] + j = len + 1
        BY <2>1, <3>1, <1>3
      <4> QED BY <3>1, <4>1, <1>5, <1>6
    <3>2. CASE j \in 1 .. m
      <4>1. pos[L] + j \in 1 .. len
        BY <2>1, <3>2, <1>3
      <4> QED BY <2>1, <3>2, <4>1, <1>5, <1>6
    <3> QED BY <3>1, <3>2, <1>3
  <2>3. pos[L] + (m + 1) = len + 1
    <3>1. PICK k : k = pos[L]
      OBVIOUS
    <3>2. k \in Nat /\ m \in Nat /\ k + m = len
      BY <2>1, <1>3, <3>1
    <3>3. k + (m + 1) = len + 1
      BY <3>2
    <3> QED BY <3>1, <3>3
  <2>4. ASSUME NEW n \in DOMAIN N, N[n].leaf, n # L
        PROVE  /\ pos[n] + Len(N[n].keys) <= len + 1
               /\ \A j \in 1 .. Len(N[n].keys) : N[n].keys[j] = ap[pos[n] + j]
               /\ N[n].next \in DOMAIN N /\ N[N[n].next].leaf
               /\ Len(N[n].keys) > 0
               /\ pos[N[n].next] = pos[n] + Len(N[n].keys)
    <3>1. PICK q, k : q = Len(N[n].keys) /\ k = pos[n]
      OBVIOUS
    <3>2. /\ k + q <= len /\ q \in Nat /\ k \in Nat
          /\ \A j \in 1 .. q : N[n].keys[j] = app[k + j]
          /\ N[n].next \in DOMAIN N /\ N[N[n].next].leaf /\ q > 0
          /\ pos[N[n].next] = k + q
      <4>1. q \in Nat /\ k \in Nat
        BY <1>0, <1>15, <2>4, <3>1, NodeFacts
      <4> QED BY <1>0, <1>2, <2>4, <3>1, <4>1 DEF Links
    <3>3. k + q <= len + 1 /\ \A j \in 1 .. q : k + j \in 1 .. len
      BY <3>2, <1>3
    <3>4. \A j \in 1 .. q : N[n].keys[j] = ap[k + j]
      BY <3>2, <3>3, <1>6
    <3> QED BY <3>1, <3>2, <3>3, <3>4
  <2>5. 1 \in DOMAIN N /\ N[1].leaf /\ pos[1] = 0 /\ \A n \in DOMAIN N : ~ N[n].leaf => N[n].next = NULL
    BY <1>0 DEF Links
  <2>6. ASSUME NEW n \in DOMAIN N
        PROVE  /\ ~ N2[n].leaf => N2[n].next = NULL
               /\ N2[n].leaf =>
                   /\ pos[n] + Len(N2[n].keys) <= len + 1
                   /\ \A j \in 1 .. Len(N2[n].keys) : N2[n].keys[j] = ap[pos[n] + j]
                   /\ n = L => N2[n].next = NULL /\ pos[n] + Len(N2[n].keys) = len + 1
                   /\ n # L => /\ N2[n].next \in DOMAIN N /\ N2[N2[n].next].leaf
                               /\ Len(N2[n].keys) > 0
                               /\ pos[N2[n].next] = pos[n] + Len(N2[n].keys)
    <3>1. CASE n # L
      BY <1>8, <1>10, <2>4, <2>5, <3>1
    <3>2. CASE n = L
      <4>1. N2[n].keys = ks /\ Len(ks) = m + 1 /\ N2[n].next = NULL
        BY <1>5, <1>9, <2>1, <3>2
      <4>2. len + 1 <= len + 1
        BY <1>3
      <4> QED BY <3>2, <4>1, <4>2, <2>2, <2>3
    <3> QED BY <3>1, <3>2
  <2> QED BY <1>6, <1>8, <1>10, <1>15, <2>5, <2>6 DEF Links
<1> QED BY <1>4, <1>7, <1>11, <1>12, <1>13, <1>14, <1>17, <1>18 DEF Shape

-----------------------------------------------------------------------------
(* The full last leaf L is linked to a new leaf with the key, which the    *)
(* parent of L has still to get.                                           *)
NextLeaf(N, L, new, key) ==
  With(With(N, L, Rec(N[L].leaf, N[L].parent, N[L].keys, N[L].vals, new)),
       new, Rec(TRUE, N[L].parent, <<key>>, <<key>>, NULL))

LEMMA NextLeafShape ==
  ASSUME NEW N, NEW r, NEW L, NEW app, NEW lo, NEW hi, NEW h, NEW pos,
         Shape(N, r, L, NULL, NULL, 0, app, lo, hi, h, pos),
         NEW key \in Key, \A i \in 1 .. Len(N[L].keys) : N[L].keys[i] < key,
         Len(N[L].keys) > 0, NEW p, p = N[L].parent, p # NULL,
         NEW new, new = Cardinality(DOMAIN N) + 1
  PROVE  Shape(NextLeaf(N, L, new, key), r, new, p, new, key, Append(app, key),
               With(lo, new, key), With(With(hi, L, key), new, Above), With(h, new, 0),
               With(pos, new, Len(app)))
<1>0. /\ IsNodes(N) /\ Family(N, r, NULL, NULL) /\ Ranges(N, r, NULL, NULL, 0, lo, hi)
      /\ Heights(N, h) /\ Leaves(N, L, app, lo, hi) /\ Links(N, L, app, pos)
  BY DEF Shape
<1>1. /\ L \in DOMAIN N /\ N[L].leaf /\ hi[L] = Above /\ app \in Seq(Key)
      /\ key \in Nat /\ key < Above /\ key >= 0 /\ Above \in Nat
  BY <1>0, KeyFacts DEF Leaves
<1>2. /\ new \in Nat /\ new # NULL /\ new \notin DOMAIN N
      /\ \E c \in Nat : DOMAIN N \cup {new} = 1 .. c
  BY <1>0, NewNode
<1>3. PICK K, m, len : K = N[L].keys /\ m = Len(K) /\ len = Len(app)
  OBVIOUS
<1>4. K \in Seq(Key) /\ m \in Nat /\ m > 0 /\ len \in Nat /\ NULL \notin DOMAIN N
  BY <1>0, <1>1, <1>3, NodeFacts
<1>5. /\ p \in DOMAIN N /\ ~ N[p].leaf /\ hi[p] = Above /\ p # L
      /\ N[p].vals[Len(N[p].keys) + 1] = L
  BY SMTT(30), <1>0, <1>1, <1>4, RightSpine DEF Family
<1>6. PICK ap : ap = Append(app, key)
  OBVIOUS
<1>7. /\ ap \in Seq(Key) /\ Len(ap) = len + 1 /\ ap[len + 1] = key
      /\ \A i \in 1 .. len : ap[i] = app[i]
  BY <1>1, <1>3, <1>6, AppendProperties
<1>8. PICK N2, M : N2 = NextLeaf(N, L, new, key)
                   /\ M = With(N, L, Rec(N[L].leaf, p, K, N[L].vals, new))
  OBVIOUS
<1>9. /\ DOMAIN M = DOMAIN N /\ \A x \in DOMAIN N : x # L => M[x] = N[x]
      /\ M[L] = Rec(N[L].leaf, p, K, N[L].vals, new)
  BY <1>1, <1>8 DEF With
<1>10. /\ DOMAIN N2 = DOMAIN N \cup {new} /\ \A x \in DOMAIN N : N2[x] = M[x]
       /\ N2[new] = Rec(TRUE, p, <<key>>, <<key>>, NULL)
  <2>1. N2 = With(M, new, Rec(TRUE, p, <<key>>, <<key>>, NULL))
    BY <1>3, <1>8 DEF NextLeaf
  <2> QED BY <1>2, <1>9, <2>1 DEF With
<1>11. /\ N2[L].leaf = N[L].leaf /\ N2[L].parent = p /\ N2[L].keys = K
       /\ N2[L].vals = N[L].vals /\ N2[L].next = new
  <2>1. N2[L] = Rec(N[L].leaf, p, K, N[L].vals, new)
    BY <1>1, <1>9, <1>10
  <2> QED BY <2>1 DEF Rec
<1>12. /\ N2[new].leaf = TRUE /\ N2[new].parent = p /\ N2[new].keys = <<key>>
       /\ N2[new].vals = <<key>> /\ N2[new].next = NULL
  BY <1>10 DEF Rec
<1>13. /\ \A x \in DOMAIN N : /\ x \in DOMAIN N2 /\ N2[x].leaf = N[x].leaf
                              /\ N2[x].parent = N[x].parent /\ N2[x].keys = N[x].keys
                              /\ N2[x].vals = N[x].vals /\ (x # L => N2[x].next = N[x].next)
       /\ \A x \in DOMAIN N2 : x \in DOMAIN N \/ x = new
  BY <1>3, <1>9, <1>10, <1>11
<1>14. PICK lo2, hi2, h2, pos2 :
         /\ lo2 = With(lo, new, key) /\ hi2 = With(With(hi, L, key), new, Above)
         /\ h2 = With(h, new, 0) /\ pos2 = With(pos, new, len)
  OBVIOUS
<1>15. /\ lo \in [DOMAIN N -> Int] /\ hi \in [DOMAIN N -> Int] /\ h \in [DOMAIN N -> Nat]
       /\ pos \in [DOMAIN N -> Nat]
  BY <1>0 DEF Ranges, Heights, Links
<1>16. /\ lo2 \in [DOMAIN N2 -> Int] /\ hi2 \in [DOMAIN N2 -> Int] /\ h2 \in [DOMAIN N2 -> Nat]
       /\ pos2 \in [DOMAIN N2 -> Nat]
  <2>1. lo2 \in [DOMAIN N2 -> Int]
    BY <1>1, <1>10, <1>14, <1>15 DEF With
  <2>2. hi2 \in [DOMAIN N2 -> Int]
    BY <1>1, <1>10, <1>14, <1>15 DEF With
  <2>3. h2 \in [DOMAIN N2 -> Nat] /\ pos2 \in [DOMAIN N2 -> Nat]
    BY <1>4, <1>10, <1>14, <1>15 DEF With
  <2> QED BY <2>1, <2>2, <2>3
<1>17. /\ lo2[new] = key /\ hi2[new] = Above /\ h2[new] = 0 /\ pos2[new] = len /\ hi2[L] = key
       /\ \A x \in DOMAIN N : lo2[x] = lo[x] /\ h2[x] = h[x] /\ pos2[x] = pos[x]
       /\ \A x \in DOMAIN N : x # L => hi2[x] = hi[x]
  BY <1>1, <1>2, <1>14, <1>15 DEF With
<1>18. /\ Len(<<key>>) = 1 /\ <<key>>[1] = key /\ <<key>> \in Seq(Key) /\ <<key>> \in Seq(Nat)
  BY <1>1
<1>19. IsNodes(N2)
  <2>1. p \in Nat /\ NULL \in Nat /\ N[L].leaf \in BOOLEAN /\ N[L].vals \in Seq(Nat)
    BY <1>0, <1>1, NodeFacts DEF NULL
  <2>2. N2[new] \in NodeRec
    <3>1. Rec(TRUE, p, <<key>>, <<key>>, NULL) \in NodeRec
      <4>1. p \in Nat /\ NULL \in Nat /\ <<key>> \in Seq(Key) /\ <<key>> \in Seq(Nat) /\ TRUE \in BOOLEAN
        BY <1>18, <2>1
      <4> QED BY <4>1, RecType
    <3> QED BY <1>10, <3>1
  <2>3. N2[L] \in NodeRec
    <3>1. Rec(N[L].leaf, p, K, N[L].vals, new) \in NodeRec
      BY <1>2, <1>4, <2>1, RecType
    <3> QED BY <1>1, <1>9, <1>10, <3>1
  <2>4. \A x \in DOMAIN N2 : N2[x] \in NodeRec
    BY <1>0, <1>9, <1>10, <2>2, <2>3 DEF IsNodes
  <2>5. N2 \in [DOMAIN N2 -> NodeRec]
    BY <1>8, <1>10, <2>4 DEF NextLeaf, With
  <2>6. ASSUME NEW n \in DOMAIN N2
        PROVE  /\ N2[n].leaf => N2[n].vals = N2[n].keys
               /\ ~ N2[n].leaf => Len(N2[n].vals) = Len(N2[n].keys) + 1
    <3>1. CASE n = new
      BY <1>12, <3>1
    <3>2. CASE n \in DOMAIN N
      <4>1. /\ N[n].leaf => N[n].vals = N[n].keys
            /\ ~ N[n].leaf => Len(N[n].vals) = Len(N[n].keys) + 1
        BY <1>0, <3>2 DEF IsNodes
      <4> QED BY <1>13, <3>2, <4>1
    <3> QED BY <1>13, <3>1, <3>2
  <2> QED BY <1>2, <1>10, <2>5, <2>6 DEF IsNodes
<1>20. Family(N2, r, p, new)
  <2>1. ASSUME NEW n \in DOMAIN N2 PROVE N2[n].parent # n /\ (N2[n].parent = NULL => n = r)
    <3>1. CASE n = new
      BY <1>2, <1>5, <1>12, <3>1
    <3>2. CASE n \in DOMAIN N
      BY <1>0, <1>13, <3>2 DEF Family
    <3> QED BY <1>13, <3>1, <3>2
  <2>2. ASSUME NEW n \in DOMAIN N2, ~ N2[n].leaf, NEW i \in 1 .. Len(N2[n].vals)
        PROVE  /\ N2[n].vals[i] \in DOMAIN N2
               /\ N2[N2[n].vals[i]].parent = n
               /\ N2[n].vals[i] # new
               /\ \A j \in 1 .. Len(N2[n].vals) : i # j => N2[n].vals[i] # N2[n].vals[j]
    <3>1. n \in DOMAIN N /\ ~ N[n].leaf /\ N2[n].vals = N[n].vals
      BY <1>12, <1>13, <2>2
    <3>2. /\ N[n].vals[i] \in DOMAIN N /\ N[N[n].vals[i]].parent = n
          /\ \A j \in 1 .. Len(N[n].vals) : i # j => N[n].vals[i] # N[n].vals[j]
      BY <1>0, <2>2, <3>1 DEF Family
    <3> QED BY <1>2, <1>13, <3>1, <3>2
  <2>3. ASSUME NEW n \in DOMAIN N2, N2[n].parent # NULL
        PROVE  /\ N2[n].parent \in DOMAIN N2 /\ ~ N2[N2[n].parent].leaf
               /\ n = new \/ \E i \in 1 .. Len(N2[N2[n].parent].vals) : N2[N2[n].parent].vals[i] = n
    <3>1. CASE n = new
      BY <1>5, <1>12, <1>13, <3>1
    <3>2. CASE n \in DOMAIN N
      <4>1. PICK q : q = N[n].parent
        OBVIOUS
      <4>2. /\ q \in DOMAIN N /\ ~ N[q].leaf
            /\ \E i \in 1 .. Len(N[q].vals) : N[q].vals[i] = n
        BY <1>0, <1>4, <1>13, <2>3, <3>2, <4>1 DEF Family
      <4>3. N2[n].parent = q /\ q \in DOMAIN N2 /\ ~ N2[q].leaf /\ N2[q].vals = N[q].vals
        BY <1>13, <3>2, <4>1, <4>2
      <4> QED BY <4>2, <4>3
    <3> QED BY <1>13, <3>1, <3>2
  <2>4. r \in DOMAIN N2 /\ N2[r].parent = NULL
    BY <1>0, <1>13 DEF Family
  <2>5. p \in DOMAIN N2 /\ ~ N2[p].leaf /\ new \in DOMAIN N2 /\ N2[new].parent = p
    BY <1>5, <1>10, <1>12, <1>13
  <2> QED BY <2>1, <2>2, <2>3, <2>4, <2>5 DEF Family
<1>21. Ranges(N2, r, p, new, key, lo2, hi2)
  <2>1. ASSUME NEW n \in DOMAIN N2, ~ N2[n].leaf, NEW i \in 1 .. Len(N2[n].vals)
        PROVE  /\ lo2[N2[n].vals[i]] = IF i = 1 THEN lo2[n] ELSE N2[n].keys[i - 1]
               /\ hi2[N2[n].vals[i]] = IF i <= Len(N2[n].keys) THEN N2[n].keys[i]
                                       ELSE IF n = p THEN key ELSE hi2[n]
    <3>1. n \in DOMAIN N /\ ~ N[n].leaf /\ N2[n].vals = N[n].vals /\ N2[n].keys = N[n].keys /\ n # L
      BY <1>1, <1>12, <1>13, <2>1
    <3>2. PICK x : x = N[n].vals[i]
      OBVIOUS
    <3>3. /\ x \in DOMAIN N /\ N[x].parent = n /\ n # NULL
          /\ \A j \in 1 .. Len(N[n].vals) : i # j => x # N[n].vals[j]
      BY <1>0, <1>4, <2>1, <3>1, <3>2 DEF Family
    <3>4. /\ lo[x] = IF i = 1 THEN lo[n] ELSE N[n].keys[i - 1]
          /\ hi[x] = IF i <= Len(N[n].keys) THEN N[n].keys[i] ELSE hi[n]
      <4>1. i \in 1 .. Len(N[n].vals) /\ n # NULL
        BY <2>1, <3>1, <3>3
      <4>2. /\ lo[N[n].vals[i]] = IF i = 1 THEN lo[n] ELSE N[n].keys[i - 1]
            /\ hi[N[n].vals[i]] = IF i <= Len(N[n].keys) THEN N[n].keys[i]
                                  ELSE IF n = NULL THEN 0 ELSE hi[n]
        BY <1>0, <3>1, <4>1, RangeOf
      <4> QED BY <3>2, <4>1, <4>2
    <3>5. lo2[x] = lo[x] /\ lo2[n] = lo[n] /\ hi2[n] = hi[n]
      BY <1>17, <3>1, <3>3
    <3>6. Len(N[n].vals) = Len(N[n].keys) + 1 /\ Len(N[n].keys) \in Nat
      BY <1>0, <3>1, NodeFacts DEF IsNodes
    <3>7. CASE x = L
      <4>1. n = p
        BY <3>3, <3>7
      <4>2. Len(N[n].keys) + 1 \in 1 .. Len(N[n].vals)
        BY <3>6
      <4>3. i = Len(N[n].keys) + 1
        BY <1>5, <3>3, <3>7, <4>1, <4>2
      <4>4. ~ (i <= Len(N[n].keys))
        BY <3>6, <4>3
      <4> QED BY <1>17, <3>1, <3>2, <3>4, <3>5, <3>7, <4>1, <4>4
    <3>8. CASE x # L
      <4>1. hi2[x] = hi[x]
        BY <1>17, <3>3, <3>8
      <4>2. n = p => i <= Len(N[n].keys)
        <5> SUFFICES ASSUME n = p, ~ (i <= Len(N[n].keys)) PROVE FALSE
          OBVIOUS
        <5>1. i = Len(N[n].keys) + 1
          BY <2>1, <3>1, <3>6
        <5> QED BY <5>1, <1>5, <3>2, <3>8
      <4> QED BY <3>1, <3>2, <3>4, <3>5, <4>1, <4>2
    <3> QED BY <3>7, <3>8
  <2>2. lo2[r] = -1 /\ hi2[r] = Above /\ hi2[p] = Above
    <3>1. r # L /\ r \in DOMAIN N /\ lo[r] = -1 /\ hi[r] = Above
      BY <1>0 DEF Family, Ranges
    <3> QED BY <1>5, <1>17, <3>1
  <2> QED BY <1>16, <1>17, <2>1, <2>2 DEF Ranges
<1>22. Heights(N2, h2)
  <2>1. ASSUME NEW n \in DOMAIN N2
        PROVE  /\ N2[n].leaf <=> h2[n] = 0
               /\ N2[n].parent # NULL => h2[N2[n].parent] = h2[n] + 1
    <3>1. CASE n = new
      <4>1. h[p] = h[L] + 1 /\ h[L] = 0
        BY <1>0, <1>1 DEF Heights
      <4> QED BY <1>5, <1>12, <1>17, <3>1, <4>1
    <3>2. CASE n \in DOMAIN N
      <4>1. N[n].parent # NULL => N[n].parent \in DOMAIN N
        BY <1>0, <3>2 DEF Family
      <4> QED BY <1>0, <1>13, <1>17, <3>2, <4>1 DEF Heights
    <3> QED BY <1>13, <3>1, <3>2
  <2> QED BY <1>16, <2>1 DEF Heights
<1>23. /\ lo[L] \in Int /\ lo[L] <= key /\ \A k \in 1 .. len : app[k] < key
       /\ \A n \in DOMAIN N : N[n].leaf /\ n # L => hi[n] \in Int /\ hi[n] <= key /\ hi[n] <= lo[L]
  BY <1>0, <1>3, <1>15, GreatestKey
<1>24. Leaves(N2, new, ap, lo2, hi2)
  <2>1. ASSUME NEW n \in DOMAIN N, N[n].leaf
        PROVE  /\ hi2[n] <= key
               /\ lo[n] = -1 \/ (Len(N[n].keys) > 0 /\ N[n].keys[1] = lo[n])
               /\ \A i, j \in 1 .. Len(N[n].keys) : i < j => N[n].keys[i] < N[n].keys[j]
               /\ \A i \in 1 .. Len(N[n].keys) : lo[n] <= N[n].keys[i] /\ N[n].keys[i] < hi2[n]
               /\ \A k \in 1 .. len + 1 : lo[n] <= ap[k] /\ ap[k] < hi2[n] =>
                    \E i \in 1 .. Len(N[n].keys) : N[n].keys[i] = ap[k]
    <3>1. /\ lo[n] = -1 \/ (Len(N[n].keys) > 0 /\ N[n].keys[1] = lo[n])
          /\ \A i, j \in 1 .. Len(N[n].keys) : i < j => N[n].keys[i] < N[n].keys[j]
          /\ \A i \in 1 .. Len(N[n].keys) : lo[n] <= N[n].keys[i] /\ N[n].keys[i] < hi[n]
          /\ \A k \in 1 .. len : lo[n] <= app[k] /\ app[k] < hi[n] =>
               \E i \in 1 .. Len(N[n].keys) : N[n].keys[i] = app[k]
      BY <1>0, <1>3, <2>1 DEF Leaves
    <3>2. hi2[n] \in Int /\ hi2[n] <= key
      <4>1. CASE n = L
        BY <1>1, <1>17, <4>1
      <4>2. CASE n # L
        BY <1>17, <1>23, <2>1, <4>2
      <4> QED BY <4>1, <4>2
    <3>3. \A i \in 1 .. Len(N[n].keys) : N[n].keys[i] < hi2[n]
      <4>1. CASE n = L
        BY <1>17, <4>1
      <4>2. CASE n # L
        BY <1>17, <3>1, <4>2
      <4> QED BY <4>1, <4>2
    <3>4. ASSUME NEW k \in 1 .. len + 1, lo[n] <= ap[k], ap[k] < hi2[n]
          PROVE  \E i \in 1 .. Len(N[n].keys) : N[n].keys[i] = ap[k]
      <4>1. k # len + 1
        BY <1>1, <1>7, <3>2, <3>4
      <4>2. k \in 1 .. len /\ ap[k] = app[k]
        BY <1>4, <1>7, <4>1
      <4>3. app[k] < hi[n]
        <5>1. CASE n = L
          <6>1. app[k] \in Key
            BY <1>1, <1>3, <4>2
          <6> QED BY <6>1, <5>1, <1>1, KeyFacts
        <5>2. CASE n # L
          BY <1>17, <3>4, <4>2, <5>2
        <5> QED BY <5>1, <5>2
      <4> QED BY <3>1, <3>4, <4>2, <4>3
    <3> QED BY <3>1, <3>2, <3>3, <3>4
  <2>2. ASSUME NEW k \in 1 .. len + 1, key <= ap[k] PROVE ap[k] = key
    <3>1. CASE k = len + 1
      BY <3>1, <1>7
    <3>2. CASE k \in 1 .. len
      <4>1. ap[k] = app[k] /\ app[k] \in Key /\ app[k] < key
        BY <3>2, <1>1, <1>3, <1>7, <1>23
      <4>2. app[k] \in Nat
        BY <4>1, KeyFacts
      <4>3. key <= app[k]
        BY <2>2, <4>1
      <4>4. FALSE
        BY <4>1, <4>2, <4>3, <1>1
      <4> QED BY <4>4
    <3> QED BY <3>1, <3>2, <1>4
  <2>3. ASSUME NEW n \in DOMAIN N2, N2[n].leaf
        PROVE  /\ n # new => hi2[n] <= lo2[new]
               /\ lo2[n] = -1 \/ (Len(N2[n].keys) > 0 /\ N2[n].keys[1] = lo2[n])
               /\ \A i, j \in 1 .. Len(N2[n].keys) : i < j => N2[n].keys[i] < N2[n].keys[j]
               /\ \A i \in 1 .. Len(N2[n].keys) : lo2[n] <= N2[n].keys[i] /\ N2[n].keys[i] < hi2[n]
               /\ \A k \in 1 .. Len(ap) : lo2[n] <= ap[k] /\ ap[k] < hi2[n] =>
                    \E i \in 1 .. Len(N2[n].keys) : N2[n].keys[i] = ap[k]
    <3>1. CASE n \in DOMAIN N
      <4>1. N[n].leaf /\ N2[n].keys = N[n].keys /\ lo2[n] = lo[n] /\ lo2[new] = key
        BY <1>13, <1>17, <2>3, <3>1
      <4>2. PICK ks, a, b : ks = N[n].keys /\ a = lo[n] /\ b = hi2[n]
        OBVIOUS
      <4>3. /\ b <= key /\ (a = -1 \/ (Len(ks) > 0 /\ ks[1] = a))
            /\ (\A i, j \in 1 .. Len(ks) : i < j => ks[i] < ks[j])
            /\ (\A i \in 1 .. Len(ks) : a <= ks[i] /\ ks[i] < b)
            /\ \A k \in 1 .. len + 1 : a <= ap[k] /\ ap[k] < b => \E i \in 1 .. Len(ks) : ks[i] = ap[k]
        BY <2>1, <3>1, <4>1, <4>2
      <4>4. N2[n].keys = ks /\ lo2[n] = a /\ hi2[n] = b /\ lo2[new] = key /\ Len(ap) = len + 1
        BY <1>7, <4>1, <4>2
      <4> QED BY <4>3, <4>4
    <3>2. CASE n = new
      <4>1. N2[n].keys = <<key>> /\ lo2[n] = key /\ hi2[n] = Above
        BY <1>12, <1>17, <3>2
      <4>2. \A i \in 1 .. Len(<<key>>) : i = 1 /\ <<key>>[i] = key
        BY <1>18
      <4>3. 1 \in 1 .. Len(<<key>>) /\ Len(<<key>>) > 0 /\ ~ (1 < 1) /\ key <= key
        BY <1>1, <1>18
      <4> QED BY <1>1, <1>7, <2>2, <3>2, <4>1, <4>2, <4>3
    <3> QED BY <1>13, <3>1, <3>2
  <2> QED BY <1>7, <1>10, <1>12, <1>17, <2>3 DEF Leaves
<1>25. Links(N2, new, ap, pos2)
  <2>1. ASSUME NEW n \in DOMAIN N, N[n].leaf
        PROVE  /\ pos[n] + Len(N[n].keys) <= len + 1
               /\ \A j \in 1 .. Len(N[n].keys) : N[n].keys[j] = ap[pos[n] + j]
               /\ Len(N[n].keys) > 0
               /\ N2[n].next \in DOMAIN N2 /\ N2[N2[n].next].leaf
               /\ pos2[N2[n].next] = pos[n] + Len(N[n].keys)
    <3>1. PICK q, k : q = Len(N[n].keys) /\ k = pos[n]
      OBVIOUS
    <3>2. q \in Nat /\ k \in Nat
      BY <1>0, <1>15, <2>1, <3>1, NodeFacts
    <3>3. /\ k + q <= len
          /\ \A j \in 1 .. q : N[n].keys[j] = app[k + j]
          /\ n = L => k + q = len
          /\ n # L => N[n].next \in DOMAIN N /\ N[N[n].next].leaf /\ q > 0 /\ pos[N[n].next] = k + q
      BY <1>0, <1>3, <2>1, <3>1, <3>2 DEF Links
    <3>4. k + q <= len + 1 /\ \A j \in 1 .. q : k + j \in 1 .. len
      BY <3>2, <3>3, <1>4
    <3>5. \A j \in 1 .. q : N[n].keys[j] = ap[k + j]
      BY <3>3, <3>4, <1>7
    <3>6. CASE n = L
      <4>1. q > 0 /\ N2[n].next = new /\ pos2[new] = k + q
        BY <1>3, <1>4, <1>11, <1>17, <3>1, <3>3, <3>6
      <4> QED BY <1>10, <1>12, <3>1, <3>4, <3>5, <4>1
    <3>7. CASE n # L
      <4>1. N2[n].next = N[n].next /\ N[n].next \in DOMAIN N2 /\ N2[N[n].next].leaf
        BY <1>13, <2>1, <3>3, <3>7
      <4>2. pos2[N[n].next] = k + q /\ q > 0
        BY <1>17, <3>3, <3>7
      <4> QED BY <3>1, <3>4, <3>5, <4>1, <4>2
    <3> QED BY <3>6, <3>7
  <2>2. \A j \in 1 .. Len(<<key>>) : <<key>>[j] = ap[len + j]
    <3>1. \A j \in 1 .. Len(<<key>>) : j = 1 /\ <<key>>[j] = key
      BY <1>18
    <3> QED BY <1>7, <3>1
  <2>3. \A n \in DOMAIN N : ~ N[n].leaf => N[n].next = NULL
    BY <1>0 DEF Links
  <2>4. 1 \in DOMAIN N2 /\ N2[1].leaf /\ pos2[1] = 0
    BY <1>0, <1>13, <1>17 DEF Links
  <2>5. ASSUME NEW n \in DOMAIN N2
        PROVE  /\ ~ N2[n].leaf => N2[n].next = NULL
               /\ N2[n].leaf =>
                   /\ pos2[n] + Len(N2[n].keys) <= len + 1
                   /\ \A j \in 1 .. Len(N2[n].keys) : N2[n].keys[j] = ap[pos2[n] + j]
                   /\ n = new => N2[n].next = NULL /\ pos2[n] + Len(N2[n].keys) = len + 1
                   /\ n # new => /\ N2[n].next \in DOMAIN N2 /\ N2[N2[n].next].leaf
                                 /\ Len(N2[n].keys) > 0
                                 /\ pos2[N2[n].next] = pos2[n] + Len(N2[n].keys)
    <3>1. CASE n = new
      <4>1. pos2[n] = len /\ N2[n].keys = <<key>> /\ Len(<<key>>) = 1 /\ N2[n].next = NULL /\ N2[n].leaf
        BY <1>12, <1>17, <1>18, <3>1
      <4>2. len + 1 <= len + 1
        BY <1>4
      <4> QED BY <2>2, <3>1, <4>1, <4>2
    <3>2. CASE n \in DOMAIN N /\ N[n].leaf
      <4>1. pos2[n] = pos[n] /\ N2[n].keys = N[n].keys /\ N2[n].leaf /\ n # new
        BY <1>2, <1>13, <1>17, <3>2
      <4> QED BY <2>1, <3>2, <4>1
    <3>3. CASE n \in DOMAIN N /\ ~ N[n].leaf
      BY <1>1, <1>13, <2>3, <3>3
    <3> QED BY <1>13, <3>1, <3>2, <3>3
  <2> QED BY <1>7, <1>16, <2>4, <2>5 DEF Links
<1> QED BY <1>3, <1>6, <1>8, <1>14, <1>19, <1>20, <1>21, <1>22, <1>24, <1>25 DEF Shape

-----------------------------------------------------------------------------
(* mbptree_move_half_node: the node n keeps its first a keys and a + 1     *)
(* children; the rest, but for the key between, goes to a new node that    *)
(* the parent of n has still to get.                                       *)
Split(N, n, new, a) ==
  LET K     == N[n].keys
      V     == N[n].vals
      moved == {V[i] : i \in a + 2 .. Len(V)}
  IN  [x \in DOMAIN N \cup {new} |->
         IF x = n THEN Rec(FALSE, N[n].parent, SubSeq(K, 1, a), SubSeq(V, 1, a + 1), N[n].next)
         ELSE IF x = new THEN Rec(FALSE, N[n].parent, SubSeq(K, a + 2, Len(K)),
                                  SubSeq(V, a + 2, Len(V)), NULL)
         ELSE IF x \in moved THEN Rec(N[x].leaf, new, N[x].keys, N[x].vals, N[x].next)
         ELSE N[x]]

(* The two parts of a sequence. *)
LEMMA Halves ==
  ASSUME NEW S, NEW s \in Seq(S), NEW a \in Nat, a <= Len(s)
  PROVE  /\ SubSeq(s, 1, a) \in Seq(S) /\ Len(SubSeq(s, 1, a)) = a
         /\ \A i \in 1 .. a : SubSeq(s, 1, a)[i] = s[i]
         /\ SubSeq(s, a + 1, Len(s)) \in Seq(S) /\ Len(SubSeq(s, a + 1, Len(s))) = Len(s) - a
         /\ \A i \in 1 .. Len(s) - a : SubSeq(s, a + 1, Len(s))[i] = s[a + i]
<1>1. Len(s) \in Nat /\ \A i \in 1 .. Len(s) : s[i] \in S
  OBVIOUS
<1>2. PICK len : len = Len(s)
  OBVIOUS
<1>3. \A i \in 1 .. a : s[i] \in S
  BY <1>1
<1>4. \A i \in a + 1 .. len : s[i] \in S
  BY <1>1, <1>2
<1>5. /\ SubSeq(s, 1, a) \in Seq(S) /\ Len(SubSeq(s, 1, a)) = IF 1 <= a THEN a - 1 + 1 ELSE 0
      /\ \A i \in 1 .. a - 1 + 1 : SubSeq(s, 1, a)[i] = s[1 + i - 1]
  BY <1>3, SubSeqProperties
<1>6. /\ SubSeq(s, a + 1, len) \in Seq(S)
      /\ Len(SubSeq(s, a + 1, len)) = IF a + 1 <= len THEN len - (a + 1) + 1 ELSE 0
      /\ \A i \in 1 .. len - (a + 1) + 1 : SubSeq(s, a + 1, len)[i] = s[a + 1 + i - 1]
  BY <1>1, <1>2, <1>4, SubSeqProperties
<1>7. PICK u, v : u = SubSeq(s, 1, a) /\ v = SubSeq(s, a + 1, len)
  OBVIOUS
<1>8. Len(u) = a /\ \A i \in 1 .. a : u[i] = s[i]
  <2>1. ASSUME NEW i \in 1 .. a PROVE i \in 1 .. a - 1 + 1 /\ 1 + i - 1 = i
    OBVIOUS
  <2>2. (IF 1 <= a THEN a - 1 + 1 ELSE 0) = a
    OBVIOUS
  <2> QED BY <1>5, <1>7, <2>1, <2>2
<1>9. Len(v) = len - a /\ \A i \in 1 .. len - a : v[i] = s[a + i]
  <2>1. ASSUME NEW i \in 1 .. len - a PROVE i \in 1 .. len - (a + 1) + 1 /\ a + 1 + i - 1 = a + i
    BY <1>1, <1>2
  <2>2. (IF a + 1 <= len THEN len - (a + 1) + 1 ELSE 0) = len - a
    BY <1>1, <1>2
  <2> QED BY <1>6, <1>7, <2>1, <2>2
<1> QED BY <1>2, <1>5, <1>6, <1>7, <1>8, <1>9

LEMMA SplitShape ==
  ASSUME NEW N, NEW r, NEW L, NEW app, NEW lo, NEW hi, NEW h, NEW pos,
         Shape(N, r, L, NULL, NULL, 0, app, lo, hi, h, pos),
         NEW n \in DOMAIN N, ~ N[n].leaf, hi[n] = Above, NEW q, q = N[n].parent, q # NULL,
         NEW new, new = Cardinality(DOMAIN N) + 1,
         NEW a \in Nat, a < Len(N[n].keys), NEW mid, mid = N[n].keys[a + 1]
  PROVE  Shape(Split(N, n, new, a), r, L, q, new, mid, app,
               With(lo, new, mid), With(With(hi, n, mid), new, Above), With(h, new, h[n]),
               With(pos, new, 0))
<1>0. /\ IsNodes(N) /\ Family(N, r, NULL, NULL) /\ Ranges(N, r, NULL, NULL, 0, lo, hi)
      /\ Heights(N, h) /\ Leaves(N, L, app, lo, hi) /\ Links(N, L, app, pos)
  BY DEF Shape
<1>1. /\ new \in Nat /\ new # NULL /\ new \notin DOMAIN N
      /\ \E c \in Nat : DOMAIN N \cup {new} = 1 .. c
  BY <1>0, NewNode
<1>2. PICK K, V, b : K = N[n].keys /\ V = N[n].vals /\ b = Len(K)
  OBVIOUS
<1>3. /\ K \in Seq(Key) /\ V \in Seq(Nat) /\ b \in Nat /\ Len(V) = b + 1 /\ a < b
      /\ NULL \notin DOMAIN N /\ q \in Nat /\ N[n].next \in Nat /\ n # new
  BY <1>0, <1>1, <1>2, NodeFacts DEF IsNodes
<1>4. mid \in Key /\ mid = K[a + 1] /\ mid \in Int
  <2>1. a + 1 \in 1 .. Len(K)
    BY <1>2, <1>3
  <2>2. K[a + 1] \in Key
    BY <1>3, <2>1, ElementOfSeq
  <2>3. mid = K[a + 1]
    BY <1>2
  <2>4. mid \in Nat
    BY <2>2, <2>3, KeyFacts
  <2> QED BY <2>2, <2>3, <2>4
<1>5. /\ q \in DOMAIN N /\ ~ N[q].leaf /\ hi[q] = Above /\ q # n /\ q # new
      /\ N[q].vals[Len(N[q].keys) + 1] = n
  <2>1. n # NULL
    BY <1>3
  <2>2. /\ q \in DOMAIN N /\ ~ N[q].leaf /\ hi[q] = Above
        /\ N[q].vals[Len(N[q].keys) + 1] = n
    BY <1>0, <2>1, RightSpine
  <2>3. q # n
    BY <1>0 DEF Family
  <2> QED BY <1>1, <2>2, <2>3
<1>6. PICK k1, k2, v1, v2 :
        /\ k1 = SubSeq(K, 1, a) /\ k2 = SubSeq(K, a + 2, Len(K))
        /\ v1 = SubSeq(V, 1, a + 1) /\ v2 = SubSeq(V, a + 2, Len(V))
  OBVIOUS
<1>7. /\ k1 \in Seq(Key) /\ Len(k1) = a /\ \A i \in 1 .. a : k1[i] = K[i]
  <2>1. K \in Seq(Key) /\ a <= Len(K)
    BY <1>2, <1>3
  <2>2. /\ SubSeq(K, 1, a) \in Seq(Key) /\ Len(SubSeq(K, 1, a)) = a
        /\ \A i \in 1 .. a : SubSeq(K, 1, a)[i] = K[i]
    BY <2>1, Halves, ZenonT(60)
  <2> QED BY <1>6, <2>2
<1>8. /\ v1 \in Seq(Nat) /\ Len(v1) = a + 1 /\ \A i \in 1 .. a + 1 : v1[i] = V[i]
  <2>1. PICK c : c = a + 1
    OBVIOUS
  <2>2. c \in Nat /\ c <= Len(V)
    BY SMTT(30), <1>3, <2>1
  <2>3. /\ SubSeq(V, 1, c) \in Seq(Nat) /\ Len(SubSeq(V, 1, c)) = c
        /\ \A i \in 1 .. c : SubSeq(V, 1, c)[i] = V[i]
    BY ZenonT(60), <1>3, <2>2, Halves
  <2> QED BY <1>6, <2>1, <2>3
<1>9. /\ k2 \in Seq(Key) /\ Len(k2) = b - (a + 1)
      /\ \A i \in 1 .. b - (a + 1) : k2[i] = K[a + 1 + i]
  <2>1. PICK c : c = a + 1
    OBVIOUS
  <2>2. c \in Nat /\ c <= Len(K) /\ c + 1 = a + 2
    BY SMTT(30), <1>2, <1>3, <2>1
  <2>3. /\ SubSeq(K, c + 1, Len(K)) \in Seq(Key) /\ Len(SubSeq(K, c + 1, Len(K))) = Len(K) - c
        /\ \A i \in 1 .. Len(K) - c : SubSeq(K, c + 1, Len(K))[i] = K[c + i]
    BY SMTT(30), <1>3, <2>2, Halves
  <2> QED BY <1>2, <1>6, <2>1, <2>2, <2>3
<1>10. /\ v2 \in Seq(Nat) /\ Len(v2) = b - a /\ \A i \in 1 .. b - a : v2[i] = V[a + 1 + i]
  <2>1. PICK c : c = a + 1
    OBVIOUS
  <2>2. c \in Nat /\ c <= Len(V) /\ c + 1 = a + 2 /\ Len(V) - c = b - a
    BY SMTT(30), <1>3, <2>1
  <2>3. /\ SubSeq(V, c + 1, Len(V)) \in Seq(Nat) /\ Len(SubSeq(V, c + 1, Len(V))) = Len(V) - c
        /\ \A i \in 1 .. Len(V) - c : SubSeq(V, c + 1, Len(V))[i] = V[c + i]
    BY SMTT(30), <1>3, <2>2, Halves
  <2> QED BY <1>6, <2>1, <2>2, <2>3
<1>11. PICK moved : moved = {V[i] : i \in a + 2 .. b + 1}
  OBVIOUS
<1>12. PICK N2 : N2 = Split(N, n, new, a)
  OBVIOUS
<1>13. N2 = [x \in DOMAIN N \cup {new} |->
               IF x = n THEN Rec(FALSE, q, k1, v1, N[n].next)
               ELSE IF x = new THEN Rec(FALSE, q, k2, v2, NULL)
               ELSE IF x \in moved THEN Rec(N[x].leaf, new, N[x].keys, N[x].vals, N[x].next)
               ELSE N[x]]
  BY <1>2, <1>3, <1>6, <1>11, <1>12 DEF Split
(* The children of n. *)
<1>14. \A i \in 1 .. b + 1 : V[i] \in DOMAIN N /\ N[V[i]].parent = n /\ V[i] # n /\ V[i] # new
  <2>1. \A i \in 1 .. b + 1 : V[i] \in DOMAIN N /\ N[V[i]].parent = n
    BY <1>0, <1>2, <1>3 DEF Family
  <2> QED BY <1>1, <1>5, <2>1
<1>15. \A i, j \in 1 .. b + 1 : i # j => V[i] # V[j]
  <2> SUFFICES ASSUME NEW i \in 1 .. b + 1, NEW j \in 1 .. b + 1, i # j PROVE V[i] # V[j]
    OBVIOUS
  <2>1. i \in 1 .. Len(N[n].vals) /\ j \in 1 .. Len(N[n].vals)
    BY <1>2, <1>3
  <2>2. N[n].vals[i] # N[n].vals[j]
    BY <1>0, <2>1 DEF Family
  <2> QED BY <1>2, <2>2
<1>16. \A i \in 1 .. b + 1 : V[i] \in moved <=> i > a + 1
  <2>1. ASSUME NEW i \in 1 .. b + 1, i > a + 1 PROVE V[i] \in moved
    <3>1. i \in a + 2 .. b + 1
      BY <1>3, <2>1
    <3> QED BY <1>11, <3>1
  <2>2. ASSUME NEW i \in 1 .. b + 1, V[i] \in moved PROVE i > a + 1
    <3>1. PICK j \in a + 2 .. b + 1 : V[j] = V[i]
      BY <1>11, <2>2
    <3>2. j \in 1 .. b + 1
      BY <1>3, <3>1
    <3>3. j = i
      BY <1>15, <3>1, <3>2
    <3> QED BY <1>3, <3>1, <3>3
  <2> QED BY <2>1, <2>2
<1>17. \A x \in moved : /\ x \in DOMAIN N /\ N[x].parent = n /\ x # n /\ x # new
                        /\ \E i \in 1 .. b - a : v2[i] = x
  <2>1. ASSUME NEW x \in moved
        PROVE  \E i \in 1 .. b + 1 : V[i] = x /\ \E j \in 1 .. b - a : v2[j] = x
    <3>1. PICK i \in a + 2 .. b + 1 : V[i] = x
      BY <1>11
    <3>2. i \in 1 .. b + 1 /\ i - (a + 1) \in 1 .. b - a /\ a + 1 + (i - (a + 1)) = i
      BY <1>3, <3>1
    <3>3. v2[i - (a + 1)] = x
      BY <1>10, <3>1, <3>2
    <3> QED BY <3>1, <3>2, <3>3
  <2> QED BY <1>14, <2>1
(* The fields of the nodes afterwards. *)
<1>18. DOMAIN N2 = DOMAIN N \cup {new} /\ \A x \in DOMAIN N2 : x \in DOMAIN N \/ x = new
  BY <1>13
<1>19. /\ N2[n].leaf = FALSE /\ N2[n].parent = q /\ N2[n].keys = k1 /\ N2[n].vals = v1
       /\ N2[n].next = N[n].next
  <2>1. N2[n] = Rec(FALSE, q, k1, v1, N[n].next)
    BY <1>13
  <2> QED BY <2>1 DEF Rec
<1>20. /\ N2[new].leaf = FALSE /\ N2[new].parent = q /\ N2[new].keys = k2 /\ N2[new].vals = v2
       /\ N2[new].next = NULL
  <2>1. N2[new] = Rec(FALSE, q, k2, v2, NULL)
    BY <1>3, <1>13
  <2> QED BY <2>1 DEF Rec
<1>21. \A x \in moved : /\ N2[x].leaf = N[x].leaf /\ N2[x].parent = new /\ N2[x].keys = N[x].keys
                        /\ N2[x].vals = N[x].vals /\ N2[x].next = N[x].next
  <2> SUFFICES ASSUME NEW x \in moved
               PROVE  /\ N2[x].leaf = N[x].leaf /\ N2[x].parent = new /\ N2[x].keys = N[x].keys
                      /\ N2[x].vals = N[x].vals /\ N2[x].next = N[x].next
    OBVIOUS
  <2>1. x \in DOMAIN N /\ x # n /\ x # new
    BY <1>17
  <2>2. N2[x] = Rec(N[x].leaf, new, N[x].keys, N[x].vals, N[x].next)
    BY <1>13, <2>1
  <2> QED BY <2>2 DEF Rec
<1>22. \A x \in DOMAIN N : x # n /\ x \notin moved => N2[x] = N[x]
  BY <1>1, <1>13
<1>23. \A x \in DOMAIN N : /\ x \in DOMAIN N2 /\ N2[x].leaf = N[x].leaf /\ N2[x].next = N[x].next
                           /\ (x # n => N2[x].keys = N[x].keys /\ N2[x].vals = N[x].vals)
                           /\ (x \notin moved => N2[x].parent = N[x].parent)
  <2>1. N2[n].leaf = N[n].leaf
    BY <1>0, <1>19, NodeFacts
  <2> QED BY <1>18, <1>19, <1>21, <1>22, <2>1
<1>24. IsNodes(N2)
  <2>1. \A x \in DOMAIN N2 : N2[x] \in NodeRec
    <3>1. NULL \in Nat /\ FALSE \in BOOLEAN
      BY DEF NULL
    <3>2. Rec(FALSE, q, k1, v1, N[n].next) \in NodeRec
      BY <1>3, <1>7, <1>8, <3>1, RecType
    <3>3. Rec(FALSE, q, k2, v2, NULL) \in NodeRec
      BY <1>3, <1>9, <1>10, <3>1, RecType
    <3>4. \A x \in DOMAIN N : Rec(N[x].leaf, new, N[x].keys, N[x].vals, N[x].next) \in NodeRec
      BY <1>0, <1>1, NodeFacts, RecType
    <3>5. \A x \in DOMAIN N : N[x] \in NodeRec
      BY <1>0, NodeFacts
    <3> QED BY <1>13, <3>2, <3>3, <3>4, <3>5
  <2>2. N2 \in [DOMAIN N2 -> NodeRec]
    BY <1>13, <2>1
  <2>3. Len(v1) = Len(k1) + 1 /\ Len(v2) = Len(k2) + 1
    BY <1>3, <1>7, <1>8, <1>9, <1>10
  <2>4. ASSUME NEW x \in DOMAIN N2
        PROVE  /\ N2[x].leaf => N2[x].vals = N2[x].keys
               /\ ~ N2[x].leaf => Len(N2[x].vals) = Len(N2[x].keys) + 1
    <3>1. CASE x = new
      BY <1>20, <2>3, <3>1
    <3>2. CASE x = n
      BY <1>19, <2>3, <3>2
    <3>3. CASE x \in DOMAIN N /\ x # n
      <4>1. /\ N[x].leaf => N[x].vals = N[x].keys
            /\ ~ N[x].leaf => Len(N[x].vals) = Len(N[x].keys) + 1
        BY <1>0, <3>3 DEF IsNodes
      <4> QED BY <1>23, <3>3, <4>1
    <3> QED BY <1>18, <3>1, <3>2, <3>3
  <2> QED BY <1>1, <1>18, <2>2, <2>4 DEF IsNodes

<1>25. Family(N2, r, q, new)
  <2>1. ASSUME NEW x \in DOMAIN N2 PROVE N2[x].parent # x /\ (N2[x].parent = NULL => x = r)
    <3>1. CASE x = new
      BY <1>5, <1>20, <3>1
    <3>2. CASE x \in moved
      BY <1>1, <1>17, <1>21, <3>2
    <3>3. CASE x \in DOMAIN N /\ x \notin moved
      BY <1>0, <1>23, <3>3 DEF Family
    <3> QED BY <1>18, <3>1, <3>2, <3>3
  <2>2. ASSUME NEW y \in DOMAIN N2, ~ N2[y].leaf, NEW i \in 1 .. Len(N2[y].vals)
        PROVE  /\ N2[y].vals[i] \in DOMAIN N /\ N2[N2[y].vals[i]].parent = y
               /\ \A j \in 1 .. Len(N2[y].vals) : i # j => N2[y].vals[i] # N2[y].vals[j]
    <3>1. CASE y = new
      <4>1. N2[y].vals = v2 /\ i \in 1 .. b - a
        BY <1>10, <1>20, <2>2, <3>1
      <4>2. \A j \in 1 .. b - a : a + 1 + j \in 1 .. b + 1 /\ a + 1 + j > a + 1
        BY <1>3
      <4>3. \A j \in 1 .. b - a : v2[j] = V[a + 1 + j]
        BY <1>10
      <4>4. v2[i] \in moved
        BY <1>16, <4>1, <4>2, <4>3
      <4>5. ASSUME NEW j \in 1 .. b - a, i # j PROVE v2[i] # v2[j]
        <5>1. a + 1 + i # a + 1 + j
          BY <1>3, <4>1, <4>5
        <5> QED BY <1>15, <4>1, <4>2, <4>3, <5>1
      <4> QED BY <1>10, <1>17, <1>21, <3>1, <4>1, <4>4, <4>5
    <3>2. CASE y = n
      <4>1. N2[y].vals = v1 /\ Len(v1) = a + 1 /\ i \in 1 .. a + 1
        BY <1>8, <1>19, <2>2, <3>2
      <4>2. \A j \in 1 .. a + 1 : j \in 1 .. b + 1 /\ ~ (j > a + 1) /\ v1[j] = V[j]
        BY <1>3, <1>8
      <4>3. v1[i] \in DOMAIN N /\ v1[i] \notin moved /\ N[v1[i]].parent = n
        BY <1>14, <1>16, <4>1, <4>2
      <4>4. \A j \in 1 .. a + 1 : i # j => v1[i] # v1[j]
        BY <1>15, <4>1, <4>2
      <4> QED BY <1>23, <3>2, <4>1, <4>3, <4>4
    <3>3. CASE y \in DOMAIN N /\ y # n
      <4>1. ~ N[y].leaf /\ N2[y].vals = N[y].vals
        BY <1>23, <2>2, <3>3
      <4>2. /\ N[y].vals[i] \in DOMAIN N /\ N[N[y].vals[i]].parent = y
            /\ \A j \in 1 .. Len(N[y].vals) : i # j => N[y].vals[i] # N[y].vals[j]
        BY SMTT(30), <1>0, <2>2, <3>3, <4>1 DEF Family
      <4>3. N[y].vals[i] \notin moved
        BY <1>17, <3>3, <4>2
      <4> QED BY <1>23, <4>1, <4>2, <4>3
    <3> QED BY <1>18, <3>1, <3>2, <3>3
  <2>3. ASSUME NEW x \in DOMAIN N2, N2[x].parent # NULL
        PROVE  /\ N2[x].parent \in DOMAIN N2 /\ ~ N2[N2[x].parent].leaf
               /\ x = new \/ \E i \in 1 .. Len(N2[N2[x].parent].vals) : N2[N2[x].parent].vals[i] = x
    <3>1. CASE x = new
      BY <1>5, <1>20, <1>23, <3>1
    <3>2. CASE x \in moved
      <4>1. N2[x].parent = new /\ new \in DOMAIN N2 /\ ~ N2[new].leaf /\ N2[new].vals = v2
        BY <1>18, <1>20, <1>21, <3>2
      <4> QED BY <1>10, <1>17, <3>2, <4>1
    <3>3. CASE x \in DOMAIN N /\ x \notin moved
      <4>1. PICK p : p = N[x].parent
        OBVIOUS
      <4>2. N2[x].parent = p /\ p # NULL
        BY <1>23, <2>3, <3>3, <4>1
      <4>3. /\ p \in DOMAIN N /\ ~ N[p].leaf
            /\ \E i \in 1 .. Len(N[p].vals) : N[p].vals[i] = x
        BY SMTT(30), <1>0, <1>3, <3>3, <4>1, <4>2 DEF Family
      <4>4. p \in DOMAIN N2 /\ ~ N2[p].leaf
        BY <1>23, <4>3
      <4>5. \E i \in 1 .. Len(N2[p].vals) : N2[p].vals[i] = x
        <5>1. CASE p # n
          BY <1>23, <4>3, <5>1
        <5>2. CASE p = n
          <6>1. PICK i \in 1 .. b + 1 : V[i] = x
            BY <1>2, <1>3, <4>3, <5>2
          <6>2. ~ (i > a + 1)
            BY <1>16, <3>3, <6>1
          <6>3. i \in 1 .. a + 1
            BY <1>3, <6>1, <6>2
          <6>4. v1[i] = x
            BY <1>8, <6>1, <6>3
          <6> QED BY <1>8, <1>19, <5>2, <6>3, <6>4
        <5> QED BY <5>1, <5>2
      <4> QED BY <4>2, <4>4, <4>5
    <3> QED BY <1>18, <3>1, <3>2, <3>3
  <2>4. r \in DOMAIN N2 /\ N2[r].parent = NULL
    <3>1. r \in DOMAIN N /\ N[r].parent = NULL /\ n # NULL
      BY <1>0, <1>3 DEF Family
    <3>2. r \notin moved
      BY <1>17, <3>1
    <3> QED BY <1>23, <3>1, <3>2
  <2>5. q \in DOMAIN N2 /\ ~ N2[q].leaf /\ new \in DOMAIN N2 /\ N2[new].parent = q
    BY <1>5, <1>18, <1>20, <1>23
  <2>6. ASSUME NEW y \in DOMAIN N2, ~ N2[y].leaf, NEW i \in 1 .. Len(N2[y].vals)
        PROVE  N2[y].vals[i] \in DOMAIN N2 /\ N2[y].vals[i] # new
    <3>1. N2[y].vals[i] \in DOMAIN N
      BY <2>2, <2>6
    <3> QED BY <1>1, <1>23, <3>1
  <2>7. \A y \in DOMAIN N2 : ~ N2[y].leaf => \A i \in 1 .. Len(N2[y].vals) :
          /\ N2[y].vals[i] \in DOMAIN N2
          /\ N2[N2[y].vals[i]].parent = y
          /\ N2[y].vals[i] # new
          /\ \A j \in 1 .. Len(N2[y].vals) : i # j => N2[y].vals[i] # N2[y].vals[j]
    BY <2>2, <2>6
  <2> QED BY <2>1, <2>3, <2>4, <2>5, <2>7 DEF Family
<1>26. PICK lo2, hi2, h2, pos2 :
         /\ lo2 = With(lo, new, mid) /\ hi2 = With(With(hi, n, mid), new, Above)
         /\ h2 = With(h, new, h[n]) /\ pos2 = With(pos, new, 0)
  OBVIOUS
<1>27. /\ lo \in [DOMAIN N -> Int] /\ hi \in [DOMAIN N -> Int] /\ h \in [DOMAIN N -> Nat]
       /\ pos \in [DOMAIN N -> Nat]
  BY <1>0 DEF Ranges, Heights, Links
<1>28. /\ lo2 \in [DOMAIN N2 -> Int] /\ hi2 \in [DOMAIN N2 -> Int] /\ h2 \in [DOMAIN N2 -> Nat]
       /\ pos2 \in [DOMAIN N2 -> Nat]
  <2>1. Above \in Int
    BY KeyFacts
  <2>2. lo2 \in [DOMAIN N2 -> Int]
    BY <1>4, <1>18, <1>26, <1>27 DEF With
  <2>3. hi2 \in [DOMAIN N2 -> Int]
    BY <1>4, <1>18, <1>26, <1>27, <2>1 DEF With
  <2>4. h2 \in [DOMAIN N2 -> Nat] /\ pos2 \in [DOMAIN N2 -> Nat]
    BY <1>18, <1>26, <1>27 DEF With
  <2> QED BY <2>2, <2>3, <2>4
<1>29. /\ lo2[new] = mid /\ hi2[new] = Above /\ h2[new] = h[n] /\ pos2[new] = 0 /\ hi2[n] = mid
       /\ \A x \in DOMAIN N : lo2[x] = lo[x] /\ h2[x] = h[x] /\ pos2[x] = pos[x]
       /\ \A x \in DOMAIN N : x # n => hi2[x] = hi[x]
  BY <1>1, <1>3, <1>26, <1>27 DEF With
<1>30. Ranges(N2, r, q, new, mid, lo2, hi2)
  <2>1. ASSUME NEW i \in 1 .. b + 1
        PROVE  /\ lo2[V[i]] = IF i = 1 THEN lo[n] ELSE K[i - 1]
               /\ hi2[V[i]] = IF i <= b THEN K[i] ELSE Above
    <3>1. /\ lo[V[i]] = IF i = 1 THEN lo[n] ELSE K[i - 1]
          /\ hi[V[i]] = IF i <= b THEN K[i] ELSE Above
      <4>1. i \in 1 .. Len(N[n].vals) /\ n # NULL
        BY <1>2, <1>3
      <4>2. /\ lo[N[n].vals[i]] = IF i = 1 THEN lo[n] ELSE N[n].keys[i - 1]
            /\ hi[N[n].vals[i]] = IF i <= Len(N[n].keys) THEN N[n].keys[i] ELSE hi[n]
        BY <1>0, <4>1 DEF Ranges
      <4> QED BY <1>2, <4>2
    <3> QED BY <1>14, <1>29, <2>1, <3>1
  <2>2. ASSUME NEW y \in DOMAIN N2, ~ N2[y].leaf, NEW i \in 1 .. Len(N2[y].vals)
        PROVE  /\ lo2[N2[y].vals[i]] = IF i = 1 THEN lo2[y] ELSE N2[y].keys[i - 1]
               /\ hi2[N2[y].vals[i]] = IF i <= Len(N2[y].keys) THEN N2[y].keys[i]
                                       ELSE IF y = q THEN mid ELSE hi2[y]
    <3>1. CASE y = new
      <4>1. N2[y].vals = v2 /\ N2[y].keys = k2 /\ i \in 1 .. b - a
        BY <1>10, <1>20, <2>2, <3>1
      <4>2. PICK j : j = a + 1 + i
        OBVIOUS
      <4>3. j \in 1 .. b + 1 /\ j # 1 /\ j - 1 = a + i /\ v2[i] = V[j]
        BY <1>3, <1>10, <4>1, <4>2
      <4>4. lo2[v2[i]] = K[a + i] /\ hi2[v2[i]] = IF j <= b THEN K[j] ELSE Above
        BY <2>1, <4>3
      <4>5. i # 1 => k2[i - 1] = K[a + i]
        <5> SUFFICES ASSUME i # 1 PROVE k2[i - 1] = K[a + i]
          OBVIOUS
        <5>1. i - 1 \in 1 .. b - (a + 1) /\ a + 1 + (i - 1) = a + i
          BY <1>3, <4>1
        <5> QED BY <1>9, <5>1
      <4>6. i = 1 => lo2[y] = K[a + i]
        BY <1>4, <1>29, <3>1
      <4>7. CASE j <= b
        <5>1. i \in 1 .. b - (a + 1) /\ i <= Len(k2)
          BY <1>3, <1>9, <4>1, <4>2, <4>7
        <5>2. k2[i] = K[j]
          BY <1>9, <4>2, <5>1
        <5> QED BY <4>1, <4>4, <4>5, <4>6, <4>7, <5>1, <5>2
      <4>8. CASE ~ (j <= b)
        <5>1. ~ (i <= Len(k2))
          BY <1>3, <1>9, <4>1, <4>2, <4>8
        <5>2. y # q /\ hi2[y] = Above
          BY <1>5, <1>29, <3>1
        <5> QED BY <4>1, <4>4, <4>5, <4>6, <4>8, <5>1, <5>2
      <4> QED BY <4>7, <4>8
    <3>2. CASE y = n
      <4>1. N2[y].vals = v1 /\ N2[y].keys = k1 /\ i \in 1 .. a + 1
        BY <1>8, <1>19, <2>2, <3>2
      <4>2. i \in 1 .. b + 1 /\ i <= b /\ v1[i] = V[i]
        BY SMTT(30), <1>3, <1>8, <4>1
      <4>3. lo2[v1[i]] = (IF i = 1 THEN lo[n] ELSE K[i - 1]) /\ hi2[v1[i]] = K[i]
        BY <2>1, <4>2
      <4>4. i # 1 => k1[i - 1] = K[i - 1]
        <5>1. i # 1 => i - 1 \in 1 .. a
          BY <4>1
        <5> QED BY <1>7, <5>1
      <4>5. lo2[y] = lo[n] /\ hi2[y] = mid /\ y # q
        BY <1>5, <1>29, <3>2
      <4>6. CASE i <= a
        <5>1. k1[i] = K[i] /\ i <= Len(k1)
          BY <1>3, <1>7, <4>1, <4>6
        <5> QED BY <4>1, <4>3, <4>4, <4>5, <5>1
      <4>7. CASE i = a + 1
        <5>1. K[i] = mid /\ ~ (i <= Len(k1))
          BY <1>3, <1>4, <1>7, <4>7
        <5> QED BY <4>1, <4>3, <4>4, <4>5, <5>1
      <4>8. i <= a \/ i = a + 1
        BY SMTT(30), <4>1, <1>3
      <4> QED BY <4>6, <4>7, <4>8
    <3>3. CASE y \in DOMAIN N /\ y # n
      <4>1. ~ N[y].leaf /\ N2[y].vals = N[y].vals /\ N2[y].keys = N[y].keys /\ y # NULL
        BY <1>3, <1>23, <2>2, <3>3
      <4>2. PICK x, Y, l : x = N[y].vals[i] /\ Y = N[y].keys /\ l = Len(Y)
        OBVIOUS
      <4>3. /\ x \in DOMAIN N /\ N[x].parent = y
            /\ \A j \in 1 .. Len(N[y].vals) : i # j => x # N[y].vals[j]
        BY <1>0, <2>2, <3>3, <4>1, <4>2 DEF Family
      <4>4. /\ lo[x] = IF i = 1 THEN lo[y] ELSE Y[i - 1]
            /\ hi[x] = IF i <= l THEN Y[i] ELSE hi[y]
        BY SMTT(30), <1>0, <2>2, <3>3, <4>1, <4>2 DEF Ranges
      <4>5. lo2[x] = lo[x] /\ lo2[y] = lo[y] /\ hi2[y] = hi[y]
        BY <1>29, <3>3, <4>3
      <4>6. l \in Nat /\ Len(N[y].vals) = l + 1 /\ i \in 1 .. l + 1
        BY <1>0, <2>2, <3>3, <4>1, <4>2, NodeFacts DEF IsNodes
      <4>7. CASE x = n
        <5>1. y = q
          BY <4>3, <4>7
        <5>2. l + 1 \in 1 .. l + 1 /\ N[y].vals[l + 1] = n
          BY <1>5, <4>2, <4>6, <5>1
        <5>3. i = l + 1
          BY <4>3, <4>6, <4>7, <5>2
        <5>4. ~ (i <= l)
          BY <4>6, <5>3
        <5> QED BY <1>29, <4>1, <4>2, <4>4, <4>5, <4>7, <5>1, <5>4
      <4>8. CASE x # n
        <5>1. hi2[x] = hi[x]
          BY <1>29, <4>3, <4>8
        <5>2. ASSUME y = q PROVE i <= l
          <6> SUFFICES ASSUME ~ (i <= l) PROVE FALSE
            OBVIOUS
          <6>1. i = l + 1
            BY <4>6
          <6> QED BY <1>5, <4>2, <4>8, <5>2, <6>1
        <5> QED BY <4>1, <4>2, <4>4, <4>5, <5>1, <5>2
      <4> QED BY <4>7, <4>8
    <3> QED BY <1>18, <3>1, <3>2, <3>3
  <2>3. lo2[r] = -1 /\ hi2[r] = Above
    <3>1. r # n /\ r \in DOMAIN N /\ lo[r] = -1 /\ hi[r] = Above
      BY <1>0 DEF Family, Ranges
    <3> QED BY <1>29, <3>1
  <2>4. hi2[q] = Above
    BY <1>5, <1>29
  <2> QED BY <1>4, <1>28, <1>29, <2>2, <2>3, <2>4 DEF Ranges
<1>31. Heights(N2, h2)
  <2>1. h[q] = h[n] + 1 /\ h[n] # 0
    BY <1>0 DEF Heights
  <2>2. ASSUME NEW x \in DOMAIN N2
        PROVE  /\ N2[x].leaf <=> h2[x] = 0
               /\ N2[x].parent # NULL => h2[N2[x].parent] = h2[x] + 1
    <3>1. CASE x = new
      BY <1>5, <1>20, <1>29, <2>1, <3>1
    <3>2. CASE x \in moved
      <4>1. x \in DOMAIN N /\ N[x].parent = n /\ n # NULL
        BY <1>3, <1>17, <3>2
      <4>2. h[n] = h[x] + 1 /\ (N[x].leaf <=> h[x] = 0)
        BY <1>0, <4>1 DEF Heights
      <4> QED BY <1>21, <1>29, <3>2, <4>1, <4>2
    <3>3. CASE x \in DOMAIN N /\ x \notin moved
      <4>1. N[x].parent # NULL => N[x].parent \in DOMAIN N
        BY <1>0, <3>3 DEF Family
      <4> QED BY <1>0, <1>23, <1>29, <3>3, <4>1 DEF Heights
    <3> QED BY <1>18, <3>1, <3>2, <3>3
  <2> QED BY <1>28, <2>2 DEF Heights
(* The leaves are left as they are. *)
<1>32. /\ \A x \in DOMAIN N2 : N2[x].leaf => x \in DOMAIN N /\ N[x].leaf /\ hi2[x] = hi[x]
       /\ \A x \in DOMAIN N : N[x].leaf => x \in DOMAIN N2 /\ N2[x].leaf /\ x # n /\ hi2[x] = hi[x]
       /\ \A x \in DOMAIN N : N[x].leaf => /\ N2[x].keys = N[x].keys /\ N2[x].next = N[x].next
                                           /\ lo2[x] = lo[x] /\ pos2[x] = pos[x]
  BY <1>18, <1>20, <1>23, <1>29
<1>33. Leaves(N2, L, app, lo2, hi2)
  <2>1. L \in DOMAIN N /\ N[L].leaf /\ hi[L] = Above /\ app \in Seq(Key)
    BY <1>0 DEF Leaves
  <2>2. ASSUME NEW x \in DOMAIN N2, N2[x].leaf
        PROVE  /\ x # L => hi2[x] <= lo2[L]
               /\ lo2[x] = -1 \/ (Len(N2[x].keys) > 0 /\ N2[x].keys[1] = lo2[x])
               /\ \A i, j \in 1 .. Len(N2[x].keys) : i < j => N2[x].keys[i] < N2[x].keys[j]
               /\ \A i \in 1 .. Len(N2[x].keys) : lo2[x] <= N2[x].keys[i] /\ N2[x].keys[i] < hi2[x]
               /\ \A k \in 1 .. Len(app) : lo2[x] <= app[k] /\ app[k] < hi2[x] =>
                    \E i \in 1 .. Len(N2[x].keys) : N2[x].keys[i] = app[k]
    <3>1. x \in DOMAIN N /\ N[x].leaf /\ hi2[x] = hi[x] /\ lo2[x] = lo[x] /\ N2[x].keys = N[x].keys
      BY <1>32, <2>2
    <3>2. lo2[L] = lo[L]
      BY <1>32, <2>1
    <3>3. /\ x # L => hi[x] <= lo[L]
          /\ lo[x] = -1 \/ (Len(N[x].keys) > 0 /\ N[x].keys[1] = lo[x])
          /\ \A i, j \in 1 .. Len(N[x].keys) : i < j => N[x].keys[i] < N[x].keys[j]
          /\ \A i \in 1 .. Len(N[x].keys) : lo[x] <= N[x].keys[i] /\ N[x].keys[i] < hi[x]
          /\ \A k \in 1 .. Len(app) : lo[x] <= app[k] /\ app[k] < hi[x] =>
               \E i \in 1 .. Len(N[x].keys) : N[x].keys[i] = app[k]
      BY <1>0, <3>1 DEF Leaves
    <3> QED BY <3>1, <3>2, <3>3
  <2>3. L \in DOMAIN N2 /\ N2[L].leaf /\ hi2[L] = Above
    BY <1>32, <2>1
  <2> QED BY <2>1, <2>2, <2>3 DEF Leaves
<1>34. Links(N2, L, app, pos2)
  <2>1. ASSUME NEW x \in DOMAIN N2, ~ N2[x].leaf PROVE N2[x].next = NULL
    <3>1. CASE x = new
      BY <1>20, <3>1
    <3>2. CASE x \in DOMAIN N
      BY <1>0, <1>23, <2>1, <3>2 DEF Links
    <3> QED BY <1>18, <3>1, <3>2
  <2>2. ASSUME NEW x \in DOMAIN N2, N2[x].leaf
        PROVE  /\ pos2[x] + Len(N2[x].keys) <= Len(app)
               /\ \A j \in 1 .. Len(N2[x].keys) : N2[x].keys[j] = app[pos2[x] + j]
               /\ x = L => N2[x].next = NULL /\ pos2[x] + Len(N2[x].keys) = Len(app)
               /\ x # L => /\ N2[x].next \in DOMAIN N2 /\ N2[N2[x].next].leaf
                           /\ Len(N2[x].keys) > 0
                           /\ pos2[N2[x].next] = pos2[x] + Len(N2[x].keys)
    <3>1. x \in DOMAIN N /\ N[x].leaf /\ pos2[x] = pos[x] /\ N2[x].keys = N[x].keys /\ N2[x].next = N[x].next
      BY <1>32, <2>2
    <3>2. /\ pos[x] + Len(N[x].keys) <= Len(app)
          /\ \A j \in 1 .. Len(N[x].keys) : N[x].keys[j] = app[pos[x] + j]
          /\ x = L => N[x].next = NULL /\ pos[x] + Len(N[x].keys) = Len(app)
          /\ x # L => /\ N[x].next \in DOMAIN N /\ N[N[x].next].leaf
                      /\ Len(N[x].keys) > 0
                      /\ pos[N[x].next] = pos[x] + Len(N[x].keys)
      BY <1>0, <3>1 DEF Links
    <3>3. x # L => N[x].next \in DOMAIN N2 /\ N2[N[x].next].leaf /\ pos2[N[x].next] = pos[N[x].next]
      BY <1>32, <3>2
    <3> QED BY <3>1, <3>2, <3>3
  <2>3. 1 \in DOMAIN N2 /\ N2[1].leaf /\ pos2[1] = 0
    BY <1>0, <1>32 DEF Links
  <2> QED BY <1>28, <2>1, <2>2, <2>3 DEF Links
<1> QED BY <1>12, <1>24, <1>25, <1>26, <1>30, <1>31, <1>33, <1>34 DEF Shape

(* No node has more keys than its array has room for. *)
Fits(N) == \A n \in DOMAIN N : Len(N[n].keys) <= BranchFactor - 1

(* A key that is greater than those of the leaf L. *)
Beyond(N, L, key) == key \in Key /\ \A i \in 1 .. Len(N[L].keys) : N[L].keys[i] < key

(* The comparison with the last key of a leaf is one with all. *)
LEMMA LastIsGreatest ==
  ASSUME NEW K \in Seq(Key), \A i, j \in 1 .. Len(K) : i < j => K[i] < K[j],
         NEW key \in Key, key > LastKey(K)
  PROVE  \A i \in 1 .. Len(K) : K[i] < key
<1> SUFFICES ASSUME NEW i \in 1 .. Len(K) PROVE K[i] < key
  OBVIOUS
<1>1. PICK m : m = Len(K)
  OBVIOUS
<1>2. m \in Nat /\ i \in 1 .. m /\ m \in 1 .. m /\ K # <<>>
  BY <1>1
<1>3. LastKey(K) = K[m]
  BY <1>1, <1>2 DEF LastKey, Last
<1>4. K[m] \in Key /\ K[i] \in Key
  BY <1>1, <1>2
<1>5. K[m] \in Nat /\ K[i] \in Nat /\ key \in Nat
  BY <1>4, KeyFacts
<1>6. CASE i = m
  BY <1>3, <1>5, <1>6
<1>7. CASE i # m
  <2>1. i < m
    BY <1>2, <1>7
  <2>2. K[i] < K[m]
    BY <1>1, <1>2, <2>1
  <2> QED BY <1>3, <1>5, <2>2
<1> QED BY <1>6, <1>7

(* The stores of the code into one node, as one store of a whole node. *)
Lengthened(N, n, k, v) == [N EXCEPT ![n].keys = Append(@, k), ![n].vals = Append(@, v)]
Stored(N, n, i, k) == [N EXCEPT ![n].keys[i] = k, ![n].vals[i] = k]

LEMMA StoreBoth ==
  ASSUME NEW N, NEW n \in DOMAIN N, NEW k, NEW v,
         N[n] = Rec(N[n].leaf, N[n].parent, N[n].keys, N[n].vals, N[n].next)
  PROVE  Lengthened(N, n, k, v)
         = [N EXCEPT ![n] = Rec(N[n].leaf, N[n].parent, Append(N[n].keys, k), Append(N[n].vals, v),
                                N[n].next)]
<1>1. PICK l, p, ks, vs, x : /\ l = N[n].leaf /\ p = N[n].parent /\ ks = N[n].keys
                             /\ vs = N[n].vals /\ x = N[n].next
  OBVIOUS
<1>2. N[n] = Rec(l, p, ks, vs, x)
  BY <1>1
<1>3. PICK M : M = [N EXCEPT ![n].keys = Append(@, k), ![n].vals = Append(@, v)]
  OBVIOUS
<1>4. PICK s, u, r : s = Append(ks, k) /\ u = Append(vs, v) /\ r = N[n]
  OBVIOUS
<1>5. PICK q : q = [[r EXCEPT !.keys = s] EXCEPT !.vals = u]
  OBVIOUS
<1>6. q = Rec(l, p, s, u, x)
  <2>1. PICK y : y = [r EXCEPT !.keys = s]
    OBVIOUS
  <2>2. y = Rec(l, p, s, vs, x)
    <3>1. r = Rec(l, p, ks, vs, x)
      BY <1>2, <1>4
    <3> QED BY <2>1, <3>1 DEF Rec
  <2>3. q = [y EXCEPT !.vals = u]
    BY <1>5, <2>1
  <2> QED BY <2>2, <2>3 DEF Rec
<1>7. M = [N EXCEPT ![n] = q]
  BY <1>1, <1>2, <1>3, <1>4, <1>5 DEF Rec
<1> QED BY <1>1, <1>3, <1>4, <1>6, <1>7 DEF Lengthened

(* The size of the leaf, then its key and value: together they grow it. *)
LEMMA StoreGrown ==
  ASSUME NEW M, NEW L \in DOMAIN M, NEW key \in Key, M[L] \in NodeRec, M[L].vals = M[L].keys,
         NEW N, N = Grown(M, L, 0), NEW i, i = Len(N[L].keys)
  PROVE  Stored(N, L, i, key) = Grown(M, L, key)
<1>1. PICK l, p, ks, x, m : /\ l = M[L].leaf /\ p = M[L].parent /\ ks = M[L].keys
                            /\ x = M[L].next /\ m = Len(ks)
  OBVIOUS
<1>2. ks \in Seq(Key) /\ m \in Nat /\ M[L].vals = ks
  BY <1>1 DEF NodeRec
<1>3. PICK z, s : z = Append(ks, 0) /\ s = Append(ks, key)
  OBVIOUS
<1>4. DOMAIN N = DOMAIN M /\ N[L] = Rec(l, p, z, z, x) /\ \A y \in DOMAIN M : y # L => N[y] = M[y]
  BY <1>1, <1>2, <1>3 DEF Grown
<1>5. N[L].keys = z /\ N[L].vals = z
  BY <1>4 DEF Rec
<1>6. 0 \in Key
  BY TreeAssumption DEF Key
<1>7. z \in Seq(Key) /\ Len(z) = m + 1 /\ \A j \in 1 .. m : z[j] = ks[j]
  BY <1>1, <1>2, <1>3, <1>6, AppendProperties
<1>8. s \in Seq(Key) /\ Len(s) = m + 1 /\ s[m + 1] = key /\ \A j \in 1 .. m : s[j] = ks[j]
  BY <1>1, <1>2, <1>3, AppendProperties
<1>9. i = m + 1
  BY <1>5, <1>7
<1>10. [z EXCEPT ![i] = key] = s
  <2>1. PICK y : y = [z EXCEPT ![i] = key]
    OBVIOUS
  <2>2. DOMAIN z = 1 .. m + 1 /\ DOMAIN s = 1 .. m + 1 /\ i \in 1 .. m + 1
    BY <1>2, <1>7, <1>8, <1>9
  <2>3. DOMAIN y = 1 .. m + 1 /\ \A j \in 1 .. m + 1 : y[j] = s[j]
    BY <1>2, <1>7, <1>8, <1>9, <2>1, <2>2
  <2>4. y \in Seq(Key) /\ Len(y) = m + 1
    <3>1. y \in [1 .. m + 1 -> Key]
      BY <1>7, <2>1, <2>2
    <3>2. m + 1 \in Nat
      BY <1>2
    <3> QED BY <2>3, <3>1, <3>2
  <2>5. y = s
    BY <1>8, <2>3, <2>4, SeqEqual
  <2> QED BY <2>1, <2>5
<1>11. PICK R : R = [N EXCEPT ![L].keys[i] = key, ![L].vals[i] = key]
  OBVIOUS
<1>12. PICK r, q : r = N[L] /\ q = [[r EXCEPT !.keys = s] EXCEPT !.vals = s]
  OBVIOUS
<1>13. q = Rec(l, p, s, s, x)
  <2>1. PICK y : y = [r EXCEPT !.keys = s]
    OBVIOUS
  <2>2. y = Rec(l, p, s, z, x)
    BY <1>4, <1>12, <2>1 DEF Rec
  <2>3. q = [y EXCEPT !.vals = s]
    BY <1>12, <2>1
  <2> QED BY <2>2, <2>3 DEF Rec
<1>14. R = [N EXCEPT ![L] = Rec(l, p, s, s, x)]
  <2>1. R = [N EXCEPT ![L] = [[r EXCEPT !.keys = [z EXCEPT ![i] = key]]
                                 EXCEPT !.vals = [z EXCEPT ![i] = key]]]
    BY <1>4, <1>5, <1>11, <1>12 DEF Rec
  <2> QED BY <1>10, <1>12, <1>13, <2>1
<1>15. Grown(M, L, key) = [M EXCEPT ![L] = Rec(l, p, s, s, x)]
  BY <1>1, <1>2, <1>3 DEF Grown
<1>16. N = [M EXCEPT ![L] = Rec(l, p, z, z, x)]
  BY <1>1, <1>2, <1>3 DEF Grown
<1> QED BY <1>11, <1>14, <1>15, <1>16 DEF Stored

LEMMA GrownFits ==
  ASSUME NEW N, NEW L \in DOMAIN N, NEW key \in Key, IsNodes(N), Fits(N),
         Len(N[L].keys) < BranchFactor - 1
  PROVE  Fits(Grown(N, L, key))
<1>1. PICK G, K, m : G = Grown(N, L, key) /\ K = N[L].keys /\ m = Len(K)
  OBVIOUS
<1>2. K \in Seq(Key) /\ m \in Nat /\ m < BranchFactor - 1
  BY <1>1, NodeFacts
<1>3. Len(Append(K, key)) = m + 1 /\ m + 1 <= BranchFactor - 1
  BY <1>1, <1>2, KeyFacts
<1>4. DOMAIN G = DOMAIN N /\ G[L].keys = Append(K, key) /\ \A x \in DOMAIN N : x # L => G[x] = N[x]
  BY <1>1 DEF Grown, Rec
<1> QED BY <1>1, <1>3, <1>4 DEF Fits

-----------------------------------------------------------------------------
LEMMA SameFcn ==
  ASSUME NEW A, NEW B, A = [x \in DOMAIN A |-> A[x]], B = [x \in DOMAIN B |-> B[x]],
         DOMAIN A = DOMAIN B, \A x \in DOMAIN A : A[x] = B[x]
  PROVE  A = B
<1>1. [x \in DOMAIN A |-> A[x]] = [x \in DOMAIN A |-> B[x]]
  OBVIOUS
<1>2. [x \in DOMAIN A |-> B[x]] = [x \in DOMAIN B |-> B[x]]
  OBVIOUS
<1> QED BY <1>1, <1>2

(* The nodes that the code makes. *)
LEMMA MadeNode ==
  ASSUME NEW p, NEW ks, NEW vs, NEW node, node = [create_node(p) EXCEPT !.keys = ks, !.vals = vs]
  PROVE  node = Rec(FALSE, p, ks, vs, NULL)
<1>1. PICK r : r = create_node(p)
  OBVIOUS
<1>2. PICK y : y = [r EXCEPT !.keys = ks]
  OBVIOUS
<1>3. y = Rec(FALSE, p, ks, <<>>, NULL)
  BY <1>1, <1>2 DEF Rec, create_node
<1>4. node = [y EXCEPT !.vals = vs]
  BY <1>1, <1>2
<1> QED BY <1>3, <1>4 DEF Rec

LEMMA MadeLeaf ==
  ASSUME NEW p, NEW key, NEW node, node = LeafWith(p, key)
  PROVE  node = Rec(TRUE, p, <<key>>, <<key>>, NULL)
<1>1. PICK s : s = <<key>>
  OBVIOUS
<1>2. PICK r : r = create_leaf(p)
  OBVIOUS
<1>3. r = Rec(TRUE, p, <<>>, <<>>, NULL)
  BY <1>2 DEF create_leaf, create_node, Rec
<1>4. PICK y : y = [r EXCEPT !.keys = s]
  OBVIOUS
<1>5. y = Rec(TRUE, p, s, <<>>, NULL)
  BY <1>3, <1>4 DEF Rec
<1>6. node = [y EXCEPT !.vals = s]
  BY <1>1, <1>2, <1>4 DEF LeafWith
<1>7. node = Rec(TRUE, p, s, s, NULL)
  BY <1>5, <1>6 DEF Rec
<1> QED BY <1>1, <1>7

LEMMA AppendShort ==
  ASSUME NEW a, NEW b PROVE Append(<<>>, a) = <<a>> /\ Append(<<a>>, b) = <<a, b>>
<1>1. PICK S : S = {a, b}
  OBVIOUS
<1>2. <<>> \in Seq(S) /\ <<a>> \in Seq(S) /\ <<a, b>> \in Seq(S) /\ a \in S /\ b \in S
  BY <1>1
<1>3. PICK s, t : s = Append(<<>>, a) /\ t = Append(<<a>>, b)
  OBVIOUS
<1>4. s \in Seq(S) /\ Len(s) = 1 /\ s[1] = a
  BY <1>2, <1>3, AppendProperties
<1>5. t \in Seq(S) /\ Len(t) = 2 /\ t[1] = a /\ t[2] = b
  BY <1>2, <1>3, AppendProperties
<1>6. s = <<a>>
  <2>1. Len(s) = Len(<<a>>) /\ \A i \in 1 .. Len(s) : s[i] = <<a>>[i]
    BY <1>4
  <2> QED BY <1>2, <1>4, <2>1, SeqEqual
<1>7. t = <<a, b>>
  <2>1. Len(t) = Len(<<a, b>>) /\ \A i \in 1 .. Len(t) : t[i] = <<a, b>>[i]
    BY <1>5
  <2> QED BY <1>2, <1>5, <2>1, SeqEqual
<1> QED BY <1>3, <1>6, <1>7

(* The nodes that mbptree_new_root and mbptree_new_leaf make, and what they *)
(* do to the full leaf L.                                                  *)
Top(mid, n, new) == Rec(FALSE, NULL, <<mid>>, <<n, new>>, NULL)
OneKey(p, key) == Rec(TRUE, p, <<key>>, <<key>>, NULL)
Relinked(N, L, up, new) == [N EXCEPT ![L].parent = up, ![L].next = new]
LinkedTo(N, L, new) == [N EXCEPT ![L].next = new]

(* mbptree_new_root: a root, a leaf, and the leaf under the root. *)
LEMMA NewRootNodes ==
  ASSUME NEW N, NEW L \in DOMAIN N, NEW up, NEW new, NEW key, up \notin DOMAIN N, new \notin DOMAIN N,
         up # new, N[L] = Rec(N[L].leaf, N[L].parent, N[L].keys, N[L].vals, N[L].next),
         N = [x \in DOMAIN N |-> N[x]]
  PROVE  With(With(Relinked(N, L, up, new), up, Top(key, L, new)), new, OneKey(up, key))
         = Attached(NextLeaf(Raised(N, L, up), L, new, key), up, new, key)
<1>1. PICK l, p, ks, vs, x : /\ l = N[L].leaf /\ p = N[L].parent /\ ks = N[L].keys
                             /\ vs = N[L].vals /\ x = N[L].next
  OBVIOUS
<1>0. PICK top, leaf : /\ top = Rec(FALSE, NULL, <<key>>, <<L, new>>, NULL) /\ top = Top(key, L, new)
                       /\ leaf = Rec(TRUE, up, <<key>>, <<key>>, NULL) /\ leaf = OneKey(up, key)
  BY DEF Top, OneKey
<1>2. PICK A0 : A0 = [N EXCEPT ![L].parent = up, ![L].next = new] /\ A0 = Relinked(N, L, up, new)
  BY Zenon DEF Relinked
<1>3. DOMAIN A0 = DOMAIN N /\ \A n \in DOMAIN N : n # L => A0[n] = N[n]
  BY <1>2
<1>4. A0[L] = Rec(l, up, ks, vs, new)
  <2>1. PICK r : r = N[L]
    OBVIOUS
  <2>2. r = Rec(l, p, ks, vs, x)
    BY <1>1, <2>1
  <2>3. PICK y : y = [r EXCEPT !.parent = up]
    OBVIOUS
  <2>4. y = Rec(l, up, ks, vs, x)
    BY <2>2, <2>3 DEF Rec
  <2>5. A0[L] = [y EXCEPT !.next = new]
    BY <1>2, <2>1, <2>2, <2>3 DEF Rec
  <2> QED BY <2>4, <2>5 DEF Rec
<1>5. PICK A : A = With(With(A0, up, top), new, leaf)
  OBVIOUS
<1>6. /\ DOMAIN A = DOMAIN N \cup {up, new} /\ A[up] = top /\ A[new] = leaf
      /\ \A n \in DOMAIN N : A[n] = A0[n]
      /\ A = [n \in DOMAIN A |-> A[n]]
  BY <1>3, <1>5 DEF With
<1>7. PICK R : R = Raised(N, L, up)
  OBVIOUS
<1>8. /\ DOMAIN R = DOMAIN N \cup {up} /\ R[up] = Rec(FALSE, NULL, <<>>, <<L>>, NULL)
      /\ R[L] = Rec(l, up, ks, vs, x) /\ \A n \in DOMAIN N : n # L => R[n] = N[n]
  BY <1>1, <1>7 DEF Raised, With
<1>9. R[L].leaf = l /\ R[L].parent = up /\ R[L].keys = ks /\ R[L].vals = vs
  BY <1>8 DEF Rec
<1>10. PICK S : S = NextLeaf(R, L, new, key)
  OBVIOUS
<1>11. /\ DOMAIN S = DOMAIN N \cup {up, new} /\ S[up] = R[up] /\ S[new] = leaf
       /\ S[L] = Rec(l, up, ks, vs, new) /\ \A n \in DOMAIN N : n # L => S[n] = N[n]
       /\ S = [n \in DOMAIN S |-> S[n]]
  BY <1>0, <1>8, <1>9, <1>10 DEF NextLeaf, With
<1>12. /\ S[up].parent = NULL /\ S[up].keys = <<>> /\ S[up].vals = <<L>> /\ S[up].next = NULL
  BY <1>8, <1>11 DEF Rec
<1>13. Append(<<>>, key) = <<key>> /\ Append(<<L>>, new) = <<L, new>>
  BY AppendShort
<1>14. PICK B : B = Attached(S, up, new, key)
  OBVIOUS
<1>15. /\ DOMAIN B = DOMAIN S /\ B[up] = top /\ \A n \in DOMAIN S : n # up => B[n] = S[n]
       /\ B = [n \in DOMAIN B |-> B[n]]
  BY <1>0, <1>11, <1>12, <1>13, <1>14 DEF Attached
<1>16. DOMAIN A = DOMAIN B /\ \A n \in DOMAIN A : A[n] = B[n]
  <2>1. A[up] = B[up] /\ A[new] = B[new]
    BY <1>6, <1>11, <1>15
  <2>2. \A n \in DOMAIN N : A[n] = S[n]
    BY <1>3, <1>4, <1>6, <1>11
  <2>3. \A n \in DOMAIN N : B[n] = S[n]
    BY <1>11, <1>15
  <2> QED BY <1>6, <1>11, <1>15, <2>1, <2>2, <2>3
<1>17. A = B
  BY <1>6, <1>15, <1>16, SameFcn
<1> QED BY <1>0, <1>2, <1>5, <1>7, <1>10, <1>14, <1>17

(* mbptree_new_leaf. *)
LEMMA NewLeafNodes ==
  ASSUME NEW N, NEW L \in DOMAIN N, NEW new, NEW key, new \notin DOMAIN N,
         N[L] = Rec(N[L].leaf, N[L].parent, N[L].keys, N[L].vals, N[L].next),
         N = [x \in DOMAIN N |-> N[x]]
  PROVE  With(LinkedTo(N, L, new), new, OneKey(N[L].parent, key)) = NextLeaf(N, L, new, key)
<1>1. PICK l, p, ks, vs, x : /\ l = N[L].leaf /\ p = N[L].parent /\ ks = N[L].keys
                             /\ vs = N[L].vals /\ x = N[L].next
  OBVIOUS
<1>2. PICK A0, B0 : A0 = [N EXCEPT ![L].next = new] /\ A0 = LinkedTo(N, L, new) /\ B0 = With(N, L, Rec(l, p, ks, vs, new))
  BY Zenon DEF LinkedTo
<1>3. DOMAIN A0 = DOMAIN N /\ (\A n \in DOMAIN N : n # L => A0[n] = N[n])
      /\ A0 = [n \in DOMAIN A0 |-> A0[n]]
  BY <1>2
<1>4. A0[L] = Rec(l, p, ks, vs, new)
  <2>1. PICK r : r = N[L]
    OBVIOUS
  <2>2. r = Rec(l, p, ks, vs, x)
    BY <1>1, <2>1
  <2>3. A0[L] = [r EXCEPT !.next = new]
    BY <1>2, <2>1, <2>2 DEF Rec
  <2> QED BY <2>2, <2>3 DEF Rec
<1>5. /\ DOMAIN B0 = DOMAIN N /\ (\A n \in DOMAIN N : n # L => B0[n] = N[n])
      /\ B0[L] = Rec(l, p, ks, vs, new) /\ B0 = [n \in DOMAIN B0 |-> B0[n]]
  BY <1>2 DEF With
<1>6. DOMAIN A0 = DOMAIN B0 /\ \A n \in DOMAIN A0 : A0[n] = B0[n]
  BY <1>3, <1>4, <1>5
<1>7. A0 = B0
  BY <1>3, <1>5, <1>6, SameFcn
<1>8. OneKey(N[L].parent, key) = Rec(TRUE, p, <<key>>, <<key>>, NULL)
  BY <1>1 DEF OneKey
<1>9. NextLeaf(N, L, new, key) = With(B0, new, Rec(TRUE, p, <<key>>, <<key>>, NULL))
  BY <1>1, <1>2, Zenon DEF NextLeaf
<1> QED BY <1>2, <1>7, <1>8, <1>9

-----------------------------------------------------------------------------
LEMMA AppendHalves ==
  ASSUME NEW S, NEW s \in Seq(S), NEW e \in S, NEW a \in Nat, a <= Len(s), NEW t, t = Append(s, e)
  PROVE  /\ SubSeq(t, 1, a) = SubSeq(s, 1, a)
         /\ SubSeq(t, a + 1, Len(t)) = Append(SubSeq(s, a + 1, Len(s)), e)
<1>1. PICK len : len = Len(s)
  OBVIOUS
<1>2. /\ len \in Nat /\ t \in Seq(S) /\ Len(t) = len + 1 /\ t[len + 1] = e
      /\ \A i \in 1 .. len : t[i] = s[i]
  BY <1>1, AppendProperties
<1>3. a <= Len(t) /\ a <= len
  BY <1>1, <1>2
<1>4. PICK s1, s2, t1, t2 : /\ s1 = SubSeq(s, 1, a) /\ s2 = SubSeq(s, a + 1, Len(s))
                            /\ t1 = SubSeq(t, 1, a) /\ t2 = SubSeq(t, a + 1, Len(t))
  OBVIOUS
<1>5. /\ s1 \in Seq(S) /\ Len(s1) = a /\ \A i \in 1 .. a : s1[i] = s[i]
  BY <1>4, Halves
<1>6. /\ s2 \in Seq(S) /\ Len(s2) = len - a /\ \A i \in 1 .. len - a : s2[i] = s[a + i]
  BY <1>1, <1>4, Halves
<1>7. /\ t1 \in Seq(S) /\ Len(t1) = a /\ \A i \in 1 .. a : t1[i] = t[i]
  BY <1>2, <1>3, <1>4, Halves
<1>8. /\ t2 \in Seq(S) /\ Len(t2) = (len + 1) - a /\ \A i \in 1 .. (len + 1) - a : t2[i] = t[a + i]
  <2>1. /\ t2 \in Seq(S) /\ Len(t2) = Len(t) - a /\ \A i \in 1 .. Len(t) - a : t2[i] = t[a + i]
    BY <1>2, <1>3, <1>4, Halves
  <2> QED BY <1>2, <2>1
<1>9. t1 = s1
  <2>1. \A i \in 1 .. a : t1[i] = s1[i]
    <3>1. \A i \in 1 .. a : i \in 1 .. len
      BY <1>2, <1>3
    <3> QED BY <1>2, <1>5, <1>7, <3>1
  <2> QED BY <1>5, <1>7, <2>1, SeqEqual
<1>10. PICK u : u = Append(s2, e)
  OBVIOUS
<1>11. /\ u \in Seq(S) /\ Len(u) = (len - a) + 1 /\ u[(len - a) + 1] = e
       /\ \A i \in 1 .. len - a : u[i] = s2[i]
  <2>1. PICK d : d = len - a
    OBVIOUS
  <2>2. Len(s2) = d
    BY <1>6, <2>1
  <2>3. /\ u \in Seq(S) /\ Len(u) = d + 1 /\ u[d + 1] = e /\ \A i \in 1 .. d : u[i] = s2[i]
    BY <1>6, <1>10, <2>2, AppendProperties
  <2> QED BY <2>1, <2>3
<1>12. t2 = u
  <2>1. ASSUME NEW i \in 1 .. (len + 1) - a PROVE t2[i] = u[i]
    <3>1. t2[i] = t[a + i]
      BY <1>8
    <3>2. CASE i = (len - a) + 1
      <4>1. a + i = len + 1
        BY <1>2, <3>2
      <4> QED BY <1>2, <1>11, <3>1, <3>2, <4>1
    <3>3. CASE i \in 1 .. len - a
      <4>1. a + i \in 1 .. len
        BY <1>2, <3>3
      <4> QED BY <1>2, <1>6, <1>11, <3>1, <3>3, <4>1
    <3> QED BY <1>2, <1>3, <3>2, <3>3
  <2>2. Len(u) = (len + 1) - a
    BY <1>2, <1>3, <1>11
  <2> QED BY <1>8, <1>11, <2>1, <2>2, SeqEqual
<1> QED BY <1>4, <1>9, <1>10, <1>12

(* The nodes N after a node n with the keys K and the children V, all that *)
(* it has and is to get, was split.                                        *)
Halved(N, n, new, q, K, V, next, a) ==
  [x \in DOMAIN N \cup {new} |->
     IF x = n THEN Rec(FALSE, q, SubSeq(K, 1, a), SubSeq(V, 1, a + 1), next)
     ELSE IF x = new THEN Rec(FALSE, q, SubSeq(K, a + 2, Len(K)), SubSeq(V, a + 2, Len(V)), NULL)
     ELSE IF x \in {V[i] : i \in a + 2 .. Len(V)}
          THEN Rec(N[x].leaf, new, N[x].keys, N[x].vals, N[x].next)
     ELSE N[x]]

(* The full node n, with a child to get, split where the code splits it. *)
HalvedAt(N, n, new, q, key, child) ==
  Halved(N, n, new, q, Append(N[n].keys, key), Append(N[n].vals, child), N[n].next, mbptree_midpoint)

LEMMA SplitIsHalved ==
  ASSUME NEW N, NEW n \in DOMAIN N, NEW q, NEW K, NEW V, NEW x, N[n] = Rec(FALSE, q, K, V, x),
         NEW new, new \notin DOMAIN N, NEW key, NEW child
  PROVE  Split(Attached(N, n, child, key), n, new, mbptree_midpoint) = HalvedAt(N, n, new, q, key, child)
<1>0. PICK KK, VV, a : KK = Append(K, key) /\ VV = Append(V, child) /\ a = mbptree_midpoint
  OBVIOUS
<1>1. N[n].parent = q /\ N[n].keys = K /\ N[n].vals = V /\ N[n].next = x
  BY DEF Rec
<1>2. PICK T : T = Attached(N, n, child, key)
  OBVIOUS
<1>3. DOMAIN T = DOMAIN N /\ T[n] = Rec(FALSE, q, KK, VV, x) /\ \A y \in DOMAIN N : y # n => T[y] = N[y]
  BY <1>0, <1>1, <1>2 DEF Attached
<1>4. T[n].parent = q /\ T[n].keys = KK /\ T[n].vals = VV /\ T[n].next = x
  BY <1>3 DEF Rec
<1>5. PICK moved, lhs, rhs :
        /\ moved = {VV[i] : i \in a + 2 .. Len(VV)}
        /\ lhs = Rec(FALSE, q, SubSeq(KK, 1, a), SubSeq(VV, 1, a + 1), x)
        /\ rhs = Rec(FALSE, q, SubSeq(KK, a + 2, Len(KK)), SubSeq(VV, a + 2, Len(VV)), NULL)
  OBVIOUS
<1>6. Split(T, n, new, a) = [y \in DOMAIN T \cup {new} |->
        IF y = n THEN lhs ELSE IF y = new THEN rhs
        ELSE IF y \in moved THEN Rec(T[y].leaf, new, T[y].keys, T[y].vals, T[y].next) ELSE T[y]]
  BY <1>4, <1>5 DEF Split
<1>7. Halved(N, n, new, q, KK, VV, x, a) = [y \in DOMAIN N \cup {new} |->
        IF y = n THEN lhs ELSE IF y = new THEN rhs
        ELSE IF y \in moved THEN Rec(N[y].leaf, new, N[y].keys, N[y].vals, N[y].next) ELSE N[y]]
  BY <1>5 DEF Halved
<1>8. PICK A, B : A = Split(T, n, new, a) /\ B = Halved(N, n, new, q, KK, VV, x, a)
  OBVIOUS
<1>9. DOMAIN A = DOMAIN B /\ A = [y \in DOMAIN A |-> A[y]] /\ B = [y \in DOMAIN B |-> B[y]]
  BY <1>3, <1>6, <1>7, <1>8
<1>10. ASSUME NEW y \in DOMAIN A PROVE A[y] = B[y]
  <2>1. CASE y = n \/ y = new
    BY <1>3, <1>6, <1>7, <1>8, <2>1
  <2>2. CASE y # n /\ y # new
    <3>1. y \in DOMAIN N
      BY <1>3, <1>6, <1>8, <2>2
    <3>2. T[y] = N[y]
      BY <1>3, <2>2, <3>1
    <3> QED BY <1>3, <1>6, <1>7, <1>8, <2>2, <3>1, <3>2
  <2> QED BY <2>1, <2>2
<1>11. A = B
  BY <1>9, <1>10, SameFcn
<1>12. HalvedAt(N, n, new, q, key, child) = Halved(N, n, new, q, KK, VV, x, a)
  BY <1>0, <1>1 DEF HalvedAt
<1> QED BY <1>0, <1>2, <1>8, <1>11, <1>12

LEMMA Midpoint ==
  /\ mbptree_midpoint \in Nat /\ mbptree_midpoint >= 1 /\ mbptree_midpoint + 1 <= BranchFactor - 1
BY KeyFacts DEF mbptree_midpoint

(* mbptree_move_half_node. *)
LEMMA MoveIsHalved ==
  ASSUME IsNodes(nodes), NEW n \in DOMAIN nodes, ~ nodes[n].leaf,
         Len(nodes[n].keys) = BranchFactor - 1,
         NEW new, NEW q, NEW key \in Key, NEW child \in Nat, child # n, child # new
  PROVE  mbptree_move_half_node(n, new, q, key, child) = HalvedAt(nodes, n, new, q, key, child)
<1>0. PICK KK, VV : KK = Append(nodes[n].keys, key) /\ VV = Append(nodes[n].vals, child)
  OBVIOUS
<1>1. PICK N, K, V, a, b : /\ N = nodes /\ K = N[n].keys /\ V = N[n].vals /\ a = mbptree_midpoint
                           /\ b = Len(K)
  OBVIOUS
<1>2. /\ K \in Seq(Key) /\ V \in Seq(Nat) /\ b \in Nat /\ b = BranchFactor - 1 /\ Len(V) = b + 1
      /\ a \in Nat /\ a + 1 <= b
  BY <1>1, NodeFacts, Midpoint DEF IsNodes
<1>3. PICK c : c = a + 1
  OBVIOUS
<1>4. c \in Nat /\ c <= Len(K) /\ c <= Len(V) /\ a <= Len(K) /\ c + 1 = a + 2
  BY <1>1, <1>2, <1>3
<1>5. /\ SubSeq(KK, 1, a) = SubSeq(K, 1, a)
      /\ SubSeq(KK, c + 1, Len(KK)) = Append(SubSeq(K, c + 1, Len(K)), key)
  <2>1. KK = Append(K, key) /\ K \in Seq(Key)
    BY <1>0, <1>1, <1>2
  <2>2. SubSeq(KK, 1, a) = SubSeq(K, 1, a)
    BY <1>2, <1>4, <2>1, AppendHalves
  <2>3. SubSeq(KK, c + 1, Len(KK)) = Append(SubSeq(K, c + 1, Len(K)), key)
    BY ZenonT(60), <1>4, <2>1, AppendHalves
  <2> QED BY <2>2, <2>3
<1>6. /\ SubSeq(VV, 1, c) = SubSeq(V, 1, c)
      /\ SubSeq(VV, c + 1, Len(VV)) = Append(SubSeq(V, c + 1, Len(V)), child)
  <2>1. VV = Append(V, child) /\ V \in Seq(Nat)
    BY <1>0, <1>1, <1>2
  <2>2. SubSeq(VV, 1, c) = SubSeq(V, 1, c)
    BY <1>4, <2>1, AppendHalves
  <2>3. SubSeq(VV, c + 1, Len(VV)) = Append(SubSeq(V, c + 1, Len(V)), child)
    BY ZenonT(60), <1>4, <2>1, AppendHalves
  <2> QED BY <2>2, <2>3
<1>7. PICK moved : moved = SubSeq(V, c + 1, Len(V))
  OBVIOUS
<1>8. /\ moved \in Seq(Nat) /\ Len(moved) = (b + 1) - c
      /\ \A i \in 1 .. (b + 1) - c : moved[i] = V[c + i]
  <2>1. V \in Seq(Nat) /\ Len(V) - c = (b + 1) - c
    BY <1>2
  <2>2. /\ moved \in Seq(Nat) /\ Len(moved) = Len(V) - c
        /\ \A i \in 1 .. Len(V) - c : moved[i] = V[c + i]
    BY SMTT(30), <1>4, <1>7, <2>1, Halves
  <2> QED BY <2>1, <2>2
<1>9. VV \in Seq(Nat) /\ Len(VV) = b + 2 /\ VV[b + 2] = child /\ \A i \in 1 .. b + 1 : VV[i] = V[i]
  <2>1. /\ VV \in Seq(Nat) /\ Len(VV) = Len(V) + 1 /\ VV[Len(V) + 1] = child
        /\ \A i \in 1 .. Len(V) : VV[i] = V[i]
    <3>1. VV = Append(V, child)
      BY <1>0, <1>1
    <3> QED BY SMTT(30), <1>2, <3>1, AppendProperties
  <2>2. Len(V) + 1 = b + 2
    BY <1>2
  <2> QED BY <1>2, <2>1, <2>2
<1>10. Adopted(moved, child) = {VV[i] : i \in a + 2 .. Len(VV)}
  <2>1. ASSUME NEW i \in a + 2 .. b + 2 PROVE VV[i] \in Adopted(moved, child)
    <3>1. CASE i = b + 2
      BY <1>9, <3>1 DEF Adopted
    <3>2. CASE i # b + 2
      <4>1. i - c \in 1 .. (b + 1) - c /\ c + (i - c) = i /\ i \in 1 .. b + 1
        <5>1. a \in Nat /\ b \in Nat /\ c = a + 1
          BY <1>2, <1>3
        <5> QED BY <3>2, <5>1
      <4>2. i - c \in DOMAIN moved
        BY <1>8, <4>1
      <4>3. moved[i - c] = VV[i]
        <5>1. moved[i - c] = V[c + (i - c)]
          BY <1>8, <4>1
        <5> QED BY <1>9, <4>1, <5>1
      <4> QED BY <4>2, <4>3 DEF Adopted
    <3> QED BY <3>1, <3>2
  <2>2. child \in {VV[i] : i \in a + 2 .. b + 2}
    <3>1. b + 2 \in a + 2 .. b + 2
      BY <1>2
    <3> QED BY <1>9, <3>1
  <2>3. ASSUME NEW i \in DOMAIN moved PROVE moved[i] \in {VV[j] : j \in a + 2 .. b + 2}
    <3>1. i \in 1 .. (b + 1) - c
      BY <1>8
    <3>2. c + i \in a + 2 .. b + 2 /\ c + i \in 1 .. b + 1
      <4>1. a \in Nat /\ b \in Nat /\ c = a + 1
        BY <1>2, <1>3
      <4> QED BY <3>1, <4>1
    <3>3. moved[i] = VV[c + i]
      BY <1>8, <1>9, <3>1, <3>2
    <3> QED BY <3>2, <3>3
  <2> QED BY <1>9, <2>1, <2>2, <2>3 DEF Adopted
<1>11. PICK lhs, rhs :
        /\ lhs = Rec(FALSE, q, SubSeq(KK, 1, a), SubSeq(VV, 1, a + 1), N[n].next)
        /\ rhs = Rec(FALSE, q, SubSeq(KK, a + 2, Len(KK)), SubSeq(VV, a + 2, Len(VV)), NULL)
  OBVIOUS
<1>12. [N[n] EXCEPT !.parent = q, !.keys = SubSeq(K, 1, a), !.vals = SubSeq(V, 1, a + 1)] = lhs
  <2>1. PICK r, l, p, x, s, u : /\ r = N[n] /\ l = N[n].leaf /\ p = N[n].parent /\ x = N[n].next
                                /\ s = SubSeq(K, 1, a) /\ u = SubSeq(V, 1, a + 1)
    OBVIOUS
  <2>2. r = Rec(FALSE, p, K, V, x)
    <3>1. N[n].leaf = FALSE /\ N[n] = Rec(N[n].leaf, N[n].parent, N[n].keys, N[n].vals, N[n].next)
      BY <1>1, NodeFacts
    <3> QED BY <1>1, <2>1, <3>1
  <2>3. PICK y : y = [r EXCEPT !.parent = q]
    OBVIOUS
  <2>4. y = Rec(FALSE, q, K, V, x)
    BY <2>2, <2>3 DEF Rec
  <2>5. PICK z : z = [y EXCEPT !.keys = s]
    OBVIOUS
  <2>6. z = Rec(FALSE, q, s, V, x)
    BY <2>4, <2>5 DEF Rec
  <2>7. PICK w : w = [z EXCEPT !.vals = u]
    OBVIOUS
  <2>8. w = Rec(FALSE, q, s, u, x)
    BY <2>6, <2>7 DEF Rec
  <2>9. w = [r EXCEPT !.parent = q, !.keys = s, !.vals = u]
    BY <2>3, <2>5, <2>7
  <2>10. w = lhs
    BY <1>3, <1>5, <1>6, <1>11, <2>1, <2>8
  <2> QED BY <2>1, <2>9, <2>10
<1>13. [create_node(q) EXCEPT !.keys = Append(SubSeq(K, a + 2, Len(K)), key), !.vals = Append(moved, child)]
       = rhs
  <2>1. PICK s, u : s = Append(SubSeq(K, a + 2, Len(K)), key) /\ u = Append(moved, child)
    OBVIOUS
  <2>2. PICK w : w = [create_node(q) EXCEPT !.keys = s, !.vals = u]
    OBVIOUS
  <2>3. w = Rec(FALSE, q, s, u, NULL)
    BY <2>2, MadeNode
  <2>4. w = rhs
    BY <1>4, <1>5, <1>6, <1>7, <1>11, <2>1, <2>3
  <2> QED BY <2>1, <2>2, <2>4
<1>14. \A x \in DOMAIN N : [N[x] EXCEPT !.parent = new] = Rec(N[x].leaf, new, N[x].keys, N[x].vals, N[x].next)
  <2> SUFFICES ASSUME NEW x \in DOMAIN N
               PROVE  [N[x] EXCEPT !.parent = new] = Rec(N[x].leaf, new, N[x].keys, N[x].vals, N[x].next)
    OBVIOUS
  <2>1. PICK r, l, p, k, v, y : /\ r = N[x] /\ l = N[x].leaf /\ p = N[x].parent /\ k = N[x].keys
                                /\ v = N[x].vals /\ y = N[x].next
    OBVIOUS
  <2>2. r = Rec(l, p, k, v, y)
    BY <1>1, <2>1, NodeFacts
  <2>3. [r EXCEPT !.parent = new] = Rec(l, new, k, v, y)
    BY <2>2 DEF Rec
  <2> QED BY <2>1, <2>3
<1>15. PICK H : H = mbptree_move_half_node(n, new, q, key, child)
  OBVIOUS
<1>16. H = [x \in DOMAIN N \cup {new} |->
              IF x = n THEN lhs ELSE IF x = new THEN rhs
              ELSE IF x \in Adopted(moved, child) THEN [N[x] EXCEPT !.parent = new] ELSE N[x]]
  <2>1. moved = SubSeq(V, a + 2, Len(V))
    BY <1>4, <1>7
  <2> QED BY <1>1, <1>12, <1>13, <1>15, <2>1, Zenon DEF mbptree_move_half_node
<1>17. PICK B : B = Halved(nodes, n, new, q, KK, VV, nodes[n].next, mbptree_midpoint)
  OBVIOUS
<1>18. B = [x \in DOMAIN N \cup {new} |->
              IF x = n THEN lhs ELSE IF x = new THEN rhs
              ELSE IF x \in Adopted(moved, child)
                   THEN Rec(N[x].leaf, new, N[x].keys, N[x].vals, N[x].next)
              ELSE N[x]]
  BY <1>1, <1>10, <1>11, <1>17 DEF Halved
<1>19. DOMAIN H = DOMAIN B /\ H = [y \in DOMAIN H |-> H[y]] /\ B = [y \in DOMAIN B |-> B[y]]
  BY <1>16, <1>18
<1>20. \A y \in DOMAIN H : H[y] = B[y]
  BY <1>14, <1>16, <1>18
<1>21. H = B
  BY <1>19, <1>20, SameFcn
<1>22. HalvedAt(nodes, n, new, q, key, child) = B
  BY <1>0, <1>17 DEF HalvedAt
<1> QED BY <1>15, <1>21, <1>22

(* mbptree_split_root: a root, the split, and the new node under the root. *)

LEMMA SplitRootNodes ==
  ASSUME NEW N, NEW n \in DOMAIN N, NEW up, NEW new, up \notin DOMAIN N, new \notin DOMAIN N,
         up # new, NEW KK, NEW VV, NEW x, NEW a, NEW mid,
         \A i \in a + 2 .. Len(VV) : VV[i] \in DOMAIN N
  PROVE  With(Halved(N, n, new, up, KK, VV, x, a), up, Top(mid, n, new))
         = Attached(Halved(Raised(N, n, up), n, new, up, KK, VV, x, a), up, new, mid)
<1>1. PICK moved, lhs, rhs, top :
        /\ top = Rec(FALSE, NULL, <<mid>>, <<n, new>>, NULL)
        /\ moved = {VV[i] : i \in a + 2 .. Len(VV)}
        /\ lhs = Rec(FALSE, up, SubSeq(KK, 1, a), SubSeq(VV, 1, a + 1), x)
        /\ rhs = Rec(FALSE, up, SubSeq(KK, a + 2, Len(KK)), SubSeq(VV, a + 2, Len(VV)), NULL)
  OBVIOUS
<1>2. PICK R : R = Raised(N, n, up)
  OBVIOUS
<1>3. /\ DOMAIN R = DOMAIN N \cup {up} /\ R[up] = Rec(FALSE, NULL, <<>>, <<n>>, NULL)
      /\ \A y \in DOMAIN N : y # n => R[y] = N[y]
  BY <1>2 DEF Raised, With
<1>4. PICK H, G : /\ H = Halved(N, n, new, up, KK, VV, x, a)
                  /\ G = Halved(R, n, new, up, KK, VV, x, a)
  OBVIOUS
<1>5. H = [y \in DOMAIN N \cup {new} |->
             IF y = n THEN lhs ELSE IF y = new THEN rhs
             ELSE IF y \in moved THEN Rec(N[y].leaf, new, N[y].keys, N[y].vals, N[y].next)
             ELSE N[y]]
  BY <1>1, <1>4 DEF Halved
<1>6. G = [y \in DOMAIN R \cup {new} |->
             IF y = n THEN lhs ELSE IF y = new THEN rhs
             ELSE IF y \in moved THEN Rec(R[y].leaf, new, R[y].keys, R[y].vals, R[y].next)
             ELSE R[y]]
  BY <1>1, <1>4 DEF Halved
<1>7. up \notin moved /\ up # n
  BY <1>1
<1>8. G[up] = Rec(FALSE, NULL, <<>>, <<n>>, NULL)
  BY <1>3, <1>6, <1>7
<1>9. G[up].parent = NULL /\ G[up].keys = <<>> /\ G[up].vals = <<n>> /\ G[up].next = NULL
  BY <1>8 DEF Rec
<1>10. Append(<<>>, mid) = <<mid>> /\ Append(<<n>>, new) = <<n, new>>
  BY AppendShort
<1>11. PICK A, B : A = With(H, up, top) /\ B = Attached(G, up, new, mid)
  OBVIOUS
<1>12. /\ DOMAIN A = DOMAIN N \cup {new, up} /\ A = [y \in DOMAIN A |-> A[y]] /\ A[up] = top
       /\ \A y \in DOMAIN N \cup {new} : A[y] = H[y]
  <2>1. DOMAIN H = DOMAIN N \cup {new}
    BY <1>5
  <2> QED BY <1>11, <2>1 DEF With
<1>13. /\ DOMAIN B = DOMAIN N \cup {new, up} /\ B = [y \in DOMAIN B |-> B[y]] /\ B[up] = top
       /\ \A y \in DOMAIN N \cup {new} : B[y] = G[y]
  <2>1. DOMAIN G = DOMAIN N \cup {new, up}
    BY <1>3, <1>6
  <2> QED BY <1>1, <1>9, <1>10, <1>11, <2>1 DEF Attached
<1>14. ASSUME NEW y \in DOMAIN N \cup {new} PROVE H[y] = G[y]
  <2>1. CASE y = n \/ y = new
    BY <1>3, <1>5, <1>6, <2>1
  <2>2. CASE y # n /\ y # new
    <3>1. y \in DOMAIN N /\ R[y] = N[y] /\ y \in DOMAIN R
      BY <1>3, <2>2
    <3> QED BY <1>5, <1>6, <2>2, <3>1
  <2> QED BY <2>1, <2>2
<1>15. A = B
  <2>1. DOMAIN A = DOMAIN B /\ A = [y \in DOMAIN A |-> A[y]] /\ B = [y \in DOMAIN B |-> B[y]]
    BY <1>12, <1>13
  <2>2. ASSUME NEW y \in DOMAIN A PROVE A[y] = B[y]
    <3>1. CASE y = up
      BY <1>12, <1>13, <3>1
    <3>2. CASE y # up
      <4>1. y \in DOMAIN N \cup {new}
        BY <1>12, <3>2
      <4>2. A[y] = H[y] /\ B[y] = G[y] /\ H[y] = G[y]
        BY <1>12, <1>13, <1>14, <4>1
      <4> QED BY <4>2
    <3> QED BY <3>1, <3>2
  <2> QED BY <2>1, <2>2, SameFcn
<1> QED BY <1>1, <1>2, <1>4, <1>11, <1>15 DEF Top

(* Both halves of a node have room. *)
LEMMA HalvedFits ==
  ASSUME NEW N, NEW n \in DOMAIN N, NEW new, new \notin DOMAIN N, Fits(N), NEW q, NEW V, NEW x,
         NEW K \in Seq(Key), Len(K) = BranchFactor,
         NEW H, H = Halved(N, n, new, q, K, V, x, mbptree_midpoint)
  PROVE  /\ Fits(H)
         /\ \A y \in DOMAIN N : y # n => H[y].keys = N[y].keys
<1>1. PICK a, moved : /\ a = mbptree_midpoint /\ moved = {V[i] : i \in a + 2 .. Len(V)}
  OBVIOUS
<1>2. H = [y \in DOMAIN N \cup {new} |->
             IF y = n THEN Rec(FALSE, q, SubSeq(K, 1, a), SubSeq(V, 1, a + 1), x)
             ELSE IF y = new THEN Rec(FALSE, q, SubSeq(K, a + 2, Len(K)), SubSeq(V, a + 2, Len(V)), NULL)
             ELSE IF y \in moved THEN Rec(N[y].leaf, new, N[y].keys, N[y].vals, N[y].next)
             ELSE N[y]]
  BY <1>1 DEF Halved
<1>3. H[n].keys = SubSeq(K, 1, a)
  <2>1. PICK s, u : s = SubSeq(K, 1, a) /\ u = SubSeq(V, 1, a + 1)
    OBVIOUS
  <2>2. H[n] = Rec(FALSE, q, s, u, x)
    BY <1>2, <2>1
  <2>3. H[n].keys = s
    BY <2>2 DEF Rec
  <2> QED BY <2>1, <2>3
<1>4. H[new].keys = SubSeq(K, a + 2, Len(K))
  <2>1. PICK s, u : s = SubSeq(K, a + 2, Len(K)) /\ u = SubSeq(V, a + 2, Len(V))
    OBVIOUS
  <2>2. H[new] = Rec(FALSE, q, s, u, NULL)
    BY <1>2, <2>1
  <2>3. H[new].keys = s
    BY <2>2 DEF Rec
  <2> QED BY <2>1, <2>3
<1>5. ASSUME NEW y \in DOMAIN N, y # n PROVE H[y].keys = N[y].keys
  <2>1. CASE y \in moved
    <3>1. H[y] = Rec(N[y].leaf, new, N[y].keys, N[y].vals, N[y].next)
      BY <1>2, <1>5, <2>1
    <3> QED BY <3>1 DEF Rec
  <2>2. CASE y \notin moved
    BY <1>2, <1>5, <2>2
  <2> QED BY <2>1, <2>2
<1>6. a \in Nat /\ a + 1 <= BranchFactor - 1 /\ BranchFactor \in Nat
  BY <1>1, Midpoint, KeyFacts
<1>7. PICK c : c = a + 1
  OBVIOUS
<1>8. c \in Nat /\ c <= Len(K) /\ a <= Len(K) /\ c + 1 = a + 2 /\ c >= 1
  BY <1>6, <1>7
<1>9. Len(SubSeq(K, 1, a)) = a /\ Len(SubSeq(K, c + 1, Len(K))) = Len(K) - c
  BY <1>6, <1>8, Halves
<1>10. a <= BranchFactor - 1 /\ Len(K) - c <= BranchFactor - 1
  BY <1>6, <1>8
<1>11. Len(H[n].keys) <= BranchFactor - 1 /\ Len(H[new].keys) <= BranchFactor - 1
  BY <1>3, <1>4, <1>8, <1>9, <1>10
<1>12. ASSUME NEW y \in DOMAIN H PROVE Len(H[y].keys) <= BranchFactor - 1
  <2>1. y = n \/ y = new \/ (y \in DOMAIN N /\ y # n)
    BY <1>2
  <2> QED BY <1>5, <1>11, <2>1 DEF Fits
<1> QED BY <1>1, <1>5, <1>12 DEF Fits

-----------------------------------------------------------------------------
(* The tree between two operations, with the keys app. *)
Ready(N, r, L, app) ==
  \E lo, hi, h, pos : Shape(N, r, L, NULL, NULL, 0, app, lo, hi, h, pos)

(* The last leaf has its new size, but not yet the key. *)
Storing(N, r, L, app, key) ==
  \E M : /\ Ready(M, r, L, app) /\ Fits(M) /\ Beyond(M, L, key)
         /\ Len(M[L].keys) < BranchFactor - 1 /\ N = Grown(M, L, 0)

(* A node, l.node, has still to get a child; the last leaf will be l.leaf. *)
Pending(N, r, L, app, l) ==
  /\ l.node # NULL /\ L \in DOMAIN N
  /\ \E lo, hi, h, pos :
       Shape(N, r, l.leaf, l.node, l.child, l.key, Append(app, Head(N[l.leaf].keys)), lo, hi, h, pos)

(* The descent has come to a node whose range has the key. *)
Located(N, r, L, app, l) ==
  /\ l.node \in DOMAIN N
  /\ \E lo, hi, h, pos : /\ Shape(N, r, L, NULL, NULL, 0, app, lo, hi, h, pos)
                         /\ lo[l.node] <= l.key /\ l.key < hi[l.node]

(* What a thread at a label, with the locals l, relies on. *)
InTree(N, r, L, app, label, l) ==
  /\ label \notin {"store_data", "append_node"} => Ready(N, r, L, app)
  /\ label \notin {"store_data", "append_node", "unlock", "idle"} => l.key \in Key
  /\ label = "new_leaf" => Beyond(N, L, l.key) /\ ~ (Len(N[L].keys) < BranchFactor - 1)
  /\ label = "store_data" => Storing(N, r, L, app, l.key)
  /\ label = "append_node" => Pending(N, r, L, app, l)
  /\ label \in {"lock", "root", "find_leaf", "load_shared", "store_shared", "scan"} => l.seen = Len(app)
  /\ label \in {"find_leaf", "load_shared", "store_shared", "scan"} => Located(N, r, L, app, l)
  /\ label \in {"load_shared", "store_shared", "scan"} => N[l.node].leaf

LEMMA ReadyFacts ==
  ASSUME NEW N, NEW r, NEW L, NEW app, Ready(N, r, L, app)
  PROVE  /\ IsNodes(N) /\ r \in DOMAIN N /\ L \in DOMAIN N /\ N[L].leaf /\ app \in Seq(Key)
         /\ \A n \in DOMAIN N : N[n].parent = NULL => n = r
         /\ \A i, j \in 1 .. Len(N[L].keys) : i < j => N[L].keys[i] < N[L].keys[j]
BY DEF Ready, Shape, Family, Leaves

(* mbptree_tryappend makes room in the last leaf, *)
LEMMA TryAppendStores ==
  ASSUME NEW N, NEW r, NEW L, NEW app, NEW key \in Key, Ready(N, r, L, app), Fits(N),
         key > LastKey(N[L].keys), Len(N[L].keys) < BranchFactor - 1, NEW N2,
         N2 = Lengthened(N, L, 0, NULL)
  PROVE  Storing(N2, r, L, app, key) /\ Fits(N2)
<1>1. L \in DOMAIN N /\ IsNodes(N)
  BY ReadyFacts
<1>2. N2 = Grown(N, L, 0)
  <2>1. N[L] = Rec(N[L].leaf, N[L].parent, N[L].keys, N[L].vals, N[L].next)
    BY <1>1, NodeFacts
  <2>2. N2 = [N EXCEPT ![L] = Rec(N[L].leaf, N[L].parent, Append(N[L].keys, 0),
                                  Append(N[L].vals, NULL), N[L].next)]
    BY <1>1, <2>1, StoreBoth
  <2> QED BY <2>2 DEF Grown, NULL
<1>3. Beyond(N, L, key)
  BY <1>1, LastIsGreatest, ReadyFacts, NodeFacts DEF Beyond
<1>4. 0 \in Key
  BY TreeAssumption DEF Key
<1>5. Fits(Grown(N, L, 0))
  BY <1>1, <1>4, GrownFits
<1> QED BY <1>2, <1>3, <1>5, Zenon DEF Storing

(* and StoreData fills it. *)
LEMMA StoreDataReady ==
  ASSUME NEW N, NEW r, NEW L, NEW app, NEW key, Storing(N, r, L, app, key),
         NEW i, i = Len(N[L].keys), NEW N2,
         N2 = Stored(N, L, i, key)
  PROVE  /\ key \in Key /\ Ready(N2, r, L, Append(app, key)) /\ Fits(N2)
<1>1. PICK M : /\ Ready(M, r, L, app) /\ Fits(M) /\ Beyond(M, L, key)
               /\ Len(M[L].keys) < BranchFactor - 1 /\ N = Grown(M, L, 0)
  BY DEF Storing
<1>2. PICK lo, hi, h, pos : Shape(M, r, L, NULL, NULL, 0, app, lo, hi, h, pos)
  BY <1>1 DEF Ready
<1>3. L \in DOMAIN M /\ IsNodes(M) /\ M[L].leaf
  BY <1>1, ReadyFacts
<1>4. key \in Key /\ \A j \in 1 .. Len(M[L].keys) : M[L].keys[j] < key
  BY <1>1 DEF Beyond
<1>5. N2 = Grown(M, L, key)
  <2>1. M[L] \in NodeRec /\ M[L].vals = M[L].keys
    BY <1>3, NodeFacts DEF IsNodes
  <2> QED BY <1>1, <1>3, <1>4, <2>1, StoreGrown
<1>6. Shape(Grown(M, L, key), r, L, NULL, NULL, 0, Append(app, key), lo, hi, h, pos)
  BY <1>2, <1>4, GrowShape
<1>7. Fits(Grown(M, L, key))
  BY <1>1, <1>3, <1>4, GrownFits
<1> QED BY <1>4, <1>5, <1>6, <1>7, Zenon DEF Ready

-----------------------------------------------------------------------------
LEMMA AsFunction ==
  ASSUME NEW N, IsNodes(N)
  PROVE  N = [x \in DOMAIN N |-> N[x]]
BY DEF IsNodes

LEMMA OneKeyFits ==
  ASSUME NEW key PROVE Len(<<key>>) <= BranchFactor - 1
<1>1. Len(<<key>>) = 1
  OBVIOUS
<1> QED BY <1>1, KeyFacts

(* mbptree_new_root. *)
LEMMA NewRootReady ==
  ASSUME NEW N, NEW L, NEW app, NEW key, Ready(N, L, L, app), Fits(N), Beyond(N, L, key),
         ~ (Len(N[L].keys) < BranchFactor - 1),
         NEW up, up = Cardinality(DOMAIN N) + 1, NEW new, new = Cardinality(DOMAIN N) + 2, NEW N2,
         N2 = Attached(NextLeaf(Raised(N, L, up), L, new, key), up, new, key)
  PROVE  Ready(N2, up, new, Append(app, key)) /\ Fits(N2) /\ up # NULL
<1>1. PICK lo, hi, h, pos : Shape(N, L, L, NULL, NULL, 0, app, lo, hi, h, pos)
  BY DEF Ready
<1>2. IsNodes(N) /\ L \in DOMAIN N /\ key \in Key /\ \A i \in 1 .. Len(N[L].keys) : N[L].keys[i] < key
  BY ReadyFacts DEF Beyond
<1>3. PICK R : R = Raised(N, L, up)
  OBVIOUS
<1>4. /\ up \in Nat /\ up # NULL /\ up \notin DOMAIN N /\ Cardinality(DOMAIN N \cup {up}) = up
  BY <1>2, NewNode
<1>5. PICK keys, vals, l, x : keys = N[L].keys /\ vals = N[L].vals /\ l = N[L].leaf /\ x = N[L].next
  OBVIOUS
<1>6. /\ DOMAIN R = DOMAIN N \cup {up} /\ R[L] = Rec(l, up, keys, vals, x)
      /\ R[up] = Rec(FALSE, NULL, <<>>, <<L>>, NULL)
      /\ \A y \in DOMAIN N : y # L => R[y] = N[y]
  BY <1>2, <1>3, <1>4, <1>5 DEF Raised, With
<1>7. R[L].keys = keys /\ R[L].parent = up /\ R[up].keys = <<>>
  BY <1>6 DEF Rec
<1>8. new = Cardinality(DOMAIN R) + 1
  <2>1. Cardinality(DOMAIN R) = up
    BY <1>4, <1>6
  <2>2. Cardinality(DOMAIN N) \in Nat
    <3>1. PICK c \in Nat : DOMAIN N = 1 .. c
      BY <1>2 DEF IsNodes
    <3>2. Cardinality(1 .. c) = c
      BY FS_Interval
    <3> QED BY <3>1, <3>2
  <2> QED BY <2>1, <2>2
<1>9. PICK lo2, hi2, h2, pos2 : Shape(R, up, L, NULL, NULL, 0, app, lo2, hi2, h2, pos2)
  BY <1>1, <1>3, RaiseShape
<1>10. Len(R[L].keys) > 0
  <2>1. Len(keys) \in Nat
    BY <1>2, <1>5, NodeFacts
  <2> QED BY <1>5, <1>7, <2>1, KeyFacts
<1>11. PICK T : T = NextLeaf(R, L, new, key)
  OBVIOUS
<1>12. PICK lo3, hi3, h3, pos3 : Shape(T, up, new, up, new, key, Append(app, key), lo3, hi3, h3, pos3)
  <2>1. \A i \in 1 .. Len(R[L].keys) : R[L].keys[i] < key
    BY <1>2, <1>5, <1>7
  <2>2. up = R[L].parent /\ up # NULL
    BY <1>4, <1>7
  <2> QED BY <1>2, <1>8, <1>9, <1>10, <1>11, <2>1, <2>2, NextLeafShape
<1>13. Shape(N2, up, new, NULL, NULL, 0, Append(app, key), lo3, hi3, h3, pos3)
  BY <1>3, <1>4, <1>11, <1>12, AttachShape
<1>14. new \notin DOMAIN R
  <2>1. IsNodes(R)
    BY <1>9 DEF Shape
  <2> QED BY <1>8, <2>1, NewNode
<1>15. PICK rk, rv, rx : rk = R[L].keys /\ rv = R[L].vals /\ rx = R[L].leaf
  OBVIOUS
<1>16. /\ DOMAIN T = DOMAIN R \cup {new} /\ T[L] = Rec(rx, up, rk, rv, new)
       /\ T[new] = Rec(TRUE, up, <<key>>, <<key>>, NULL)
       /\ \A y \in DOMAIN R : y # L => T[y] = R[y]
  BY <1>2, <1>6, <1>7, <1>11, <1>14, <1>15 DEF NextLeaf, With
<1>17. T[L].keys = keys /\ T[new].keys = <<key>> /\ T[up].keys = <<>>
  BY <1>2, <1>4, <1>6, <1>7, <1>15, <1>16 DEF Rec
<1>18. /\ DOMAIN N2 = DOMAIN T /\ \A y \in DOMAIN T : y # up => N2[y] = T[y]
       /\ N2[up].keys = <<key>>
  <2>1. PICK p, v, z : p = T[up].parent /\ v = Append(T[up].vals, new) /\ z = T[up].next
    OBVIOUS
  <2>2. N2 = [T EXCEPT ![up] = Rec(FALSE, p, <<key>>, v, z)]
    BY <1>3, <1>11, <1>17, <2>1, AppendShort DEF Attached
  <2>3. N2[up] = Rec(FALSE, p, <<key>>, v, z)
    BY <1>6, <1>16, <2>2
  <2> QED BY <2>2, <2>3 DEF Rec
<1>19. ASSUME NEW y \in DOMAIN N2 PROVE Len(N2[y].keys) <= BranchFactor - 1
  <2>1. CASE y = up \/ y = new
    <3>1. N2[y].keys = <<key>>
      BY <1>6, <1>14, <1>17, <1>18, <2>1
    <3> QED BY <3>1, OneKeyFits
  <2>2. CASE y # up /\ y # new
    <3>1. y \in DOMAIN N /\ N2[y].keys = N[y].keys
      BY <1>5, <1>6, <1>16, <1>17, <1>18, <2>2
    <3> QED BY <3>1 DEF Fits
  <2> QED BY <2>1, <2>2
<1> QED BY <1>4, <1>13, <1>19 DEF Ready, Fits

(* mbptree_new_leaf. *)
LEMMA NewLeafPending ==
  ASSUME NEW N, NEW r, NEW L, NEW app, NEW key, Ready(N, r, L, app), Fits(N), Beyond(N, L, key),
         ~ (Len(N[L].keys) < BranchFactor - 1), N[L].parent # NULL,
         NEW new, new = Cardinality(DOMAIN N) + 1, NEW N2, N2 = NextLeaf(N, L, new, key),
         NEW l, l.key = key, l.leaf = new, l.child = new, l.node = N[L].parent
  PROVE  Pending(N2, r, L, app, l) /\ Fits(N2)
<1>1. PICK lo, hi, h, pos : Shape(N, r, L, NULL, NULL, 0, app, lo, hi, h, pos)
  BY DEF Ready
<1>2. IsNodes(N) /\ L \in DOMAIN N /\ key \in Key /\ \A i \in 1 .. Len(N[L].keys) : N[L].keys[i] < key
  BY ReadyFacts DEF Beyond
<1>3. new \notin DOMAIN N
  BY <1>2, NewNode
<1>4. Len(N[L].keys) > 0
  <2>1. Len(N[L].keys) \in Nat
    BY <1>2, NodeFacts
  <2> QED BY <2>1, KeyFacts
<1>5. PICK p : p = N[L].parent
  OBVIOUS
<1>6. PICK lo2, hi2, h2, pos2 : Shape(N2, r, new, p, new, key, Append(app, key), lo2, hi2, h2, pos2)
  BY <1>1, <1>2, <1>4, <1>5, NextLeafShape
<1>7. PICK keys, vals, leaf : keys = N[L].keys /\ vals = N[L].vals /\ leaf = N[L].leaf
  OBVIOUS
<1>8. /\ DOMAIN N2 = DOMAIN N \cup {new} /\ N2[L] = Rec(leaf, p, keys, vals, new)
      /\ N2[new] = Rec(TRUE, p, <<key>>, <<key>>, NULL)
      /\ \A y \in DOMAIN N : y # L => N2[y] = N[y]
  BY <1>2, <1>3, <1>5, <1>7 DEF NextLeaf, With
<1>9. N2[L].keys = keys /\ N2[new].keys = <<key>>
  BY <1>8 DEF Rec
<1>10. Head(N2[new].keys) = key
  BY <1>9
<1>11. ASSUME NEW y \in DOMAIN N2 PROVE Len(N2[y].keys) <= BranchFactor - 1
  <2>1. CASE y = new
    BY <1>9, <2>1, OneKeyFits
  <2>2. CASE y # new
    <3>1. y \in DOMAIN N /\ N2[y].keys = N[y].keys
      BY <1>7, <1>8, <1>9, <2>2
    <3> QED BY <3>1 DEF Fits
  <2> QED BY <2>1, <2>2
<1>12. Pending(N2, r, L, app, l)
  <2>1. l.node # NULL /\ L \in DOMAIN N2
    BY <1>2, <1>8
  <2>2. Append(app, Head(N2[l.leaf].keys)) = Append(app, key)
    BY <1>10
  <2>3. Shape(N2, r, l.leaf, l.node, l.child, l.key, Append(app, Head(N2[l.leaf].keys)), lo2, hi2, h2, pos2)
    BY <1>5, <1>6, <2>2
  <2> QED BY <2>1, <2>3 DEF Pending
<1> QED BY <1>11, <1>12 DEF Fits

(* mbptree_append_node. *)
LEMMA AppendNodeReady ==
  ASSUME NEW N, NEW r, NEW L, NEW app, NEW l, Pending(N, r, L, app, l), Fits(N),
         Len(N[l.node].keys) < BranchFactor - 1, NEW N2, N2 = Lengthened(N, l.node, l.key, l.child)
  PROVE  Ready(N2, r, l.leaf, Append(app, Head(N[l.leaf].keys))) /\ Fits(N2)
<1>1. PICK n, leaf, child, key, app2 :
        /\ n = l.node /\ leaf = l.leaf /\ child = l.child /\ key = l.key
        /\ app2 = Append(app, Head(N[leaf].keys))
  OBVIOUS
<1>2. PICK lo, hi, h, pos : Shape(N, r, leaf, n, child, key, app2, lo, hi, h, pos)
  BY <1>1 DEF Pending
<1>3. IsNodes(N) /\ n # NULL /\ n \in DOMAIN N /\ ~ N[n].leaf /\ key \in Key
  BY <1>1, <1>2 DEF Shape, Family, Ranges, Pending
<1>4. N[n] = Rec(N[n].leaf, N[n].parent, N[n].keys, N[n].vals, N[n].next) /\ N[n].leaf = FALSE
  BY <1>3, NodeFacts
<1>5. N2 = Attached(N, n, child, key)
  <2>1. N2 = [N EXCEPT ![n] = Rec(N[n].leaf, N[n].parent, Append(N[n].keys, key),
                                  Append(N[n].vals, child), N[n].next)]
    BY <1>1, <1>3, <1>4, StoreBoth
  <2> QED BY <1>4, <2>1 DEF Attached
<1>6. Shape(N2, r, leaf, NULL, NULL, 0, app2, lo, hi, h, pos)
  BY <1>2, <1>3, <1>5, AttachShape
<1>7. PICK K, K2, V2, p, x : /\ K = N[n].keys /\ K2 = Append(K, key) /\ V2 = Append(N[n].vals, child)
                             /\ p = N[n].parent /\ x = N[n].next
  OBVIOUS
<1>8. N2 = [N EXCEPT ![n] = Rec(FALSE, p, K2, V2, x)]
  BY <1>5, <1>7 DEF Attached
<1>9. N2[n].keys = K2
  <2>1. N2[n] = Rec(FALSE, p, K2, V2, x)
    BY <1>3, <1>8
  <2> QED BY <2>1 DEF Rec
<1>10. K \in Seq(Key) /\ Len(K) \in Nat /\ Len(K) < BranchFactor - 1
  BY <1>1, <1>3, <1>7, NodeFacts
<1>11. Len(K2) <= BranchFactor - 1
  BY <1>3, <1>7, <1>10, KeyFacts
<1>12. Fits(N2)
  BY <1>8, <1>9, <1>11 DEF Fits
<1> QED BY <1>1, <1>6, <1>12 DEF Ready

-----------------------------------------------------------------------------
LEMMA SplitRootNodesAt ==
  ASSUME NEW N, NEW n \in DOMAIN N, NEW up, NEW new, up \notin DOMAIN N, new \notin DOMAIN N,
         up # new, NEW key, NEW child \in DOMAIN N, NEW mid, IsNodes(N), ~ N[n].leaf,
         \A i \in 1 .. Len(N[n].vals) : N[n].vals[i] \in DOMAIN N
  PROVE  With(HalvedAt(N, n, new, up, key, child), up, Top(mid, n, new))
         = Attached(HalvedAt(Raised(N, n, up), n, new, up, key, child), up, new, mid)
<1>1. PICK K, V, x, KK, VV, a, top :
        /\ K = N[n].keys /\ V = N[n].vals /\ x = N[n].next
        /\ KK = Append(K, key) /\ VV = Append(V, child) /\ a = mbptree_midpoint
        /\ top = Top(mid, n, new)
  OBVIOUS
<1>2. PICK R : R = Raised(N, n, up)
  OBVIOUS
<1>3. R[n] = Rec(N[n].leaf, up, K, V, x)
  BY <1>1, <1>2 DEF Raised, With
<1>4. R[n].keys = K /\ R[n].vals = V /\ R[n].next = x
  BY <1>3 DEF Rec
<1>5. V \in Seq(Nat) /\ child \in Nat /\ \A i \in 1 .. Len(V) : V[i] \in DOMAIN N
  BY <1>1, NodeFacts
<1>6. \A i \in a + 2 .. Len(VV) : VV[i] \in DOMAIN N
  <2>1. VV = Append(V, child)
    BY <1>1
  <2>2. /\ Len(VV) = Len(V) + 1 /\ VV[Len(V) + 1] = child /\ \A i \in 1 .. Len(V) : VV[i] = V[i]
    BY <1>5, <2>1, AppendProperties
  <2>3. a \in Nat
    BY <1>1, Midpoint
  <2> SUFFICES ASSUME NEW i \in a + 2 .. Len(VV) PROVE VV[i] \in DOMAIN N
    OBVIOUS
  <2>4. i \in 1 .. Len(V) \/ i = Len(V) + 1
    BY <1>5, <2>2, <2>3
  <2> QED BY <1>5, <2>2, <2>4
<1>7. top = Top(mid, n, new)
  BY <1>1
<1>8. With(Halved(N, n, new, up, KK, VV, x, a), up, top)
      = Attached(Halved(Raised(N, n, up), n, new, up, KK, VV, x, a), up, new, mid)
  <2>1. With(Halved(N, n, new, up, KK, VV, x, a), up, Top(mid, n, new))
        = Attached(Halved(Raised(N, n, up), n, new, up, KK, VV, x, a), up, new, mid)
    BY <1>6, SplitRootNodes
  <2> QED BY <1>7, <2>1
<1>9. HalvedAt(N, n, new, up, key, child) = Halved(N, n, new, up, KK, VV, x, a)
  BY <1>1 DEF HalvedAt
<1>10. HalvedAt(R, n, new, up, key, child) = Halved(R, n, new, up, KK, VV, x, a)
  BY <1>1, <1>4 DEF HalvedAt
<1> QED BY <1>2, <1>7, <1>8, <1>9, <1>10

(* The nodes H after a split of n have the others' keys. *)
Keeps(H, N, n) ==
  DOMAIN N \subseteq DOMAIN H /\ \A y \in DOMAIN N : y # n => H[y].keys = N[y].keys

LEMMA HalvedAtFits ==
  ASSUME NEW N, IsNodes(N), NEW n \in DOMAIN N, NEW new, new \notin DOMAIN N, Fits(N), NEW q,
         NEW key \in Key, NEW child, Len(N[n].keys) = BranchFactor - 1
  PROVE  /\ Fits(HalvedAt(N, n, new, q, key, child))
         /\ Keeps(HalvedAt(N, n, new, q, key, child), N, n)
<1>0. PICK H : H = HalvedAt(N, n, new, q, key, child)
  OBVIOUS
<1>1. PICK K, x, KK, VV : /\ K = N[n].keys /\ x = N[n].next /\ KK = Append(K, key)
                          /\ VV = Append(N[n].vals, child)
  OBVIOUS
<1>2. K \in Seq(Key) /\ Len(K) = BranchFactor - 1
  BY <1>1, NodeFacts
<1>3. KK \in Seq(Key) /\ Len(KK) = BranchFactor
  <2>1. KK = Append(K, key)
    BY <1>1
  <2>2. KK \in Seq(Key) /\ Len(KK) = Len(K) + 1
    BY <1>2, <2>1, AppendProperties
  <2> QED BY <1>2, <2>2, KeyFacts
<1>4. H = Halved(N, n, new, q, KK, VV, x, mbptree_midpoint)
  BY <1>0, <1>1 DEF HalvedAt
<1>5. DOMAIN H = DOMAIN N \cup {new}
  BY <1>4 DEF Halved
<1>6. Fits(H)
  BY <1>3, <1>4, HalvedFits
<1>7. \A y \in DOMAIN N : y # n => H[y].keys = N[y].keys
  BY <1>3, <1>4, HalvedFits
<1>8. Keeps(H, N, n)
  BY <1>5, <1>7 DEF Keeps
<1> QED BY <1>0, <1>6, <1>8

LEMMA HalvedAtShape ==
  ASSUME NEW N, NEW r, NEW leaf, NEW n, NEW child, NEW key, NEW app, NEW lo, NEW hi, NEW h, NEW pos,
         Shape(N, r, leaf, n, child, key, app, lo, hi, h, pos), n # NULL,
         Len(N[n].keys) = BranchFactor - 1, N[n].parent # NULL,
         NEW new, new = Cardinality(DOMAIN N) + 1
  PROVE  \E lo2, hi2, h2, pos2 :
           Shape(HalvedAt(N, n, new, N[n].parent, key, child), r, leaf, N[n].parent, new,
                 N[n].keys[mbptree_midpoint + 1], app, lo2, hi2, h2, pos2)
<1>1. /\ IsNodes(N) /\ n \in DOMAIN N /\ ~ N[n].leaf /\ key \in Key /\ hi[n] = Above
  BY DEF Shape, Family, Ranges
<1>2. PICK K, q, a, KK, VV : /\ K = N[n].keys /\ q = N[n].parent /\ a = mbptree_midpoint
                             /\ KK = Append(K, key) /\ VV = Append(N[n].vals, child)
  OBVIOUS
<1>3. K \in Seq(Key) /\ Len(K) = BranchFactor - 1 /\ q # NULL
  BY <1>1, <1>2, NodeFacts
<1>4. new \notin DOMAIN N
  BY <1>1, NewNode
<1>5. PICK T : T = Attached(N, n, child, key)
  OBVIOUS
<1>6. Shape(T, r, leaf, NULL, NULL, 0, app, lo, hi, h, pos)
  BY <1>5, AttachShape
<1>7. DOMAIN T = DOMAIN N /\ T[n] = Rec(FALSE, q, KK, VV, N[n].next)
  <2>1. T = [N EXCEPT ![n] = Rec(FALSE, q, KK, VV, N[n].next)]
    BY <1>2, <1>5 DEF Attached
  <2> QED BY <1>1, <2>1
<1>8. ~ T[n].leaf /\ T[n].parent = q /\ T[n].keys = KK
  BY <1>7 DEF Rec
<1>9. a \in Nat /\ a + 1 <= BranchFactor - 1 /\ BranchFactor \in Nat
  BY <1>2, Midpoint, KeyFacts
<1>10. Len(KK) = Len(K) + 1 /\ \A i \in 1 .. Len(K) : KK[i] = K[i]
  <2>1. KK = Append(K, key)
    BY <1>2
  <2> QED BY <1>1, <1>3, <2>1, AppendProperties
<1>11. a < Len(KK) /\ KK[a + 1] = K[a + 1]
  <2>1. a + 1 \in 1 .. Len(K) /\ a < Len(K) + 1
    BY <1>3, <1>9
  <2> QED BY <1>10, <2>1
<1>12. PICK S, mid : S = Split(T, n, new, a) /\ mid = K[a + 1]
  OBVIOUS
<1>13. Shape(S, r, leaf, q, new, mid, app,
             With(lo, new, mid), With(With(hi, n, mid), new, Above), With(h, new, h[n]),
             With(pos, new, 0))
  <2>1. n \in DOMAIN T /\ new = Cardinality(DOMAIN T) + 1 /\ q = T[n].parent /\ ~ T[n].leaf
    BY <1>1, <1>7, <1>8
  <2>2. a \in Nat /\ a < Len(T[n].keys) /\ mid = T[n].keys[a + 1]
    BY <1>8, <1>9, <1>11, <1>12
  <2> QED BY <1>1, <1>3, <1>6, <1>12, <2>1, <2>2, SplitShape
<1>14. S = HalvedAt(N, n, new, q, key, child)
  <2>1. PICK V, x : V = N[n].vals /\ x = N[n].next
    OBVIOUS
  <2>2. N[n] = Rec(FALSE, q, K, V, x)
    <3>1. N[n] = Rec(N[n].leaf, N[n].parent, N[n].keys, N[n].vals, N[n].next) /\ N[n].leaf = FALSE
      BY <1>1, NodeFacts
    <3> QED BY <1>2, <2>1, <3>1
  <2>3. Split(Attached(N, n, child, key), n, new, mbptree_midpoint) = HalvedAt(N, n, new, q, key, child)
    BY <1>1, <1>4, <2>2, SplitIsHalved
  <2> QED BY <1>2, <1>5, <1>12, <2>3
<1>15. mid = N[n].keys[mbptree_midpoint + 1]
  BY <1>2, <1>12
<1> QED BY <1>2, <1>13, <1>14, <1>15

(* What a full node with a child to get is like. *)
LEMMA FullFacts ==
  ASSUME NEW N, NEW r, NEW leaf, NEW n, NEW child, NEW key, NEW app, NEW lo, NEW hi, NEW h, NEW pos,
         Shape(N, r, leaf, n, child, key, app, lo, hi, h, pos), n # NULL, Fits(N),
         ~ (Len(N[n].keys) < BranchFactor - 1)
  PROVE  /\ IsNodes(N) /\ n \in DOMAIN N /\ ~ N[n].leaf /\ key \in Key /\ child \in DOMAIN N
         /\ child \in Nat /\ child # n /\ leaf \in DOMAIN N /\ leaf # n
         /\ Len(N[n].keys) = BranchFactor - 1 /\ N[n].keys \in Seq(Key)
         /\ (N[n].parent = NULL => n = r)
<1>1. /\ IsNodes(N) /\ n \in DOMAIN N /\ ~ N[n].leaf /\ key \in Key /\ child \in DOMAIN N
      /\ N[child].parent = n /\ N[n].parent # n /\ leaf \in DOMAIN N /\ N[leaf].leaf
      /\ (N[n].parent = NULL => n = r)
  BY DEF Shape, Family, Ranges, Leaves
<1>2. Len(N[n].keys) \in Nat /\ child \in Nat /\ N[n].keys \in Seq(Key)
  BY <1>1, NodeFacts
<1>3. Len(N[n].keys) = BranchFactor - 1
  <2>1. Len(N[n].keys) <= BranchFactor - 1
    BY <1>1 DEF Fits
  <2> QED BY <1>2, <2>1, KeyFacts
<1> QED BY <1>1, <1>2, <1>3

(* mbptree_split_node. *)
LEMMA SplitNodeShape ==
  ASSUME NEW N, NEW r, NEW leaf, NEW n, NEW child, NEW key, NEW app, NEW lo, NEW hi, NEW h, NEW pos,
         Shape(N, r, leaf, n, child, key, app, lo, hi, h, pos), n # NULL, Fits(N),
         ~ (Len(N[n].keys) < BranchFactor - 1), N[n].parent # NULL,
         NEW new, new = Cardinality(DOMAIN N) + 1, NEW q, q = N[n].parent
  PROVE  /\ Fits(HalvedAt(N, n, new, q, key, child))
         /\ Keeps(HalvedAt(N, n, new, q, key, child), N, n)
         /\ \E lo2, hi2, h2, pos2 :
              Shape(HalvedAt(N, n, new, q, key, child), r, leaf, q, new,
                    N[n].keys[mbptree_midpoint + 1], app, lo2, hi2, h2, pos2)
<1>1. /\ IsNodes(N) /\ n \in DOMAIN N /\ ~ N[n].leaf /\ key \in Key
      /\ leaf \in DOMAIN N /\ leaf # n /\ Len(N[n].keys) = BranchFactor - 1
  BY FullFacts
<1>2. new \notin DOMAIN N
  BY <1>1, NewNode
<1>3. Fits(HalvedAt(N, n, new, q, key, child)) /\ Keeps(HalvedAt(N, n, new, q, key, child), N, n)
  BY <1>1, <1>2, HalvedAtFits
<1>4. \E lo2, hi2, h2, pos2 :
        Shape(HalvedAt(N, n, new, N[n].parent, key, child), r, leaf, N[n].parent, new,
              N[n].keys[mbptree_midpoint + 1], app, lo2, hi2, h2, pos2)
  BY <1>1, HalvedAtShape
<1> QED BY <1>1, <1>3, <1>4

LEMMA SplitNodePending ==
  ASSUME NEW r, NEW L, NEW app, NEW l, Pending(nodes, r, L, app, l), Fits(nodes),
         NEW n, n = l.node, ~ (Len(nodes[n].keys) < BranchFactor - 1), NEW q, q = nodes[n].parent, q # NULL,
         NEW new, new = Cardinality(DOMAIN nodes) + 1,
         NEW N2, N2 = mbptree_move_half_node(n, new, q, l.key, l.child),
         NEW l2, l2.leaf = l.leaf, l2.key = MidKey(n), l2.child = new, l2.node = q
  PROVE  Pending(N2, r, L, app, l2) /\ Fits(N2)
<1>1. PICK leaf, child, key, app2, mid :
        /\ leaf = l.leaf /\ child = l.child /\ key = l.key /\ app2 = Append(app, Head(nodes[leaf].keys))
        /\ mid = nodes[n].keys[mbptree_midpoint + 1]
  OBVIOUS
<1>2. PICK lo, hi, h, pos : Shape(nodes, r, leaf, n, child, key, app2, lo, hi, h, pos)
  BY <1>1 DEF Pending
<1>3. n # NULL /\ L \in DOMAIN nodes
  BY DEF Pending
<1>4. /\ IsNodes(nodes) /\ n \in DOMAIN nodes /\ ~ nodes[n].leaf /\ key \in Key /\ child \in DOMAIN nodes
      /\ child \in Nat /\ child # n /\ Len(nodes[n].keys) = BranchFactor - 1
      /\ leaf \in DOMAIN nodes /\ leaf # n
  BY <1>2, <1>3, FullFacts
<1>5. new \notin DOMAIN nodes /\ child # new
  BY <1>4, NewNode
<1>6. N2 = HalvedAt(nodes, n, new, q, key, child)
  BY <1>1, <1>4, <1>5, MoveIsHalved
<1>7. /\ Fits(N2) /\ Keeps(N2, nodes, n)
      /\ \E lo2, hi2, h2, pos2 : Shape(N2, r, leaf, q, new, nodes[n].keys[mbptree_midpoint + 1],
                                      app2, lo2, hi2, h2, pos2)
  BY <1>2, <1>3, <1>6, SplitNodeShape
<1>8. PICK lo2, hi2, h2, pos2 : Shape(N2, r, leaf, q, new, mid, app2, lo2, hi2, h2, pos2)
  BY <1>1, <1>7
<1>9. L \in DOMAIN N2 /\ l2.node # NULL
  BY <1>3, <1>7 DEF Keeps
<1>10. Append(app, Head(N2[l2.leaf].keys)) = app2
  <2>1. N2[leaf].keys = nodes[leaf].keys
    BY <1>4, <1>7 DEF Keeps
  <2> QED BY <1>1, <2>1
<1>11. Shape(N2, r, l2.leaf, l2.node, l2.child, l2.key, Append(app, Head(N2[l2.leaf].keys)),
             lo2, hi2, h2, pos2)
  BY <1>1, <1>8, <1>10 DEF MidKey
<1> QED BY <1>7, <1>9, <1>11 DEF Pending

(* mbptree_split_root. *)
LEMMA SplitRootReady ==
  ASSUME NEW r, NEW L, NEW app, NEW l, Pending(nodes, r, L, app, l), Fits(nodes),
         NEW n, n = l.node, ~ (Len(nodes[n].keys) < BranchFactor - 1), nodes[n].parent = NULL,
         NEW up, up = Cardinality(DOMAIN nodes) + 1, NEW new, new = Cardinality(DOMAIN nodes) + 2,
         NEW N2, N2 = With(mbptree_move_half_node(n, new, up, l.key, l.child), up,
                           Top(MidKey(n), n, new))
  PROVE  Ready(N2, up, l.leaf, Append(app, Head(nodes[l.leaf].keys))) /\ Fits(N2) /\ up # NULL
<1>1. PICK N, leaf, child, key, app2 :
        /\ N = nodes /\ leaf = l.leaf /\ child = l.child /\ key = l.key
        /\ app2 = Append(app, Head(nodes[leaf].keys))
  OBVIOUS
<1>2. PICK lo, hi, h, pos : Shape(N, r, leaf, n, child, key, app2, lo, hi, h, pos)
  BY <1>1 DEF Pending
<1>3. n # NULL
  BY DEF Pending
<1>4. /\ IsNodes(N) /\ n \in DOMAIN N /\ ~ N[n].leaf /\ key \in Key /\ child \in DOMAIN N
      /\ child \in Nat /\ child # n /\ leaf \in DOMAIN N /\ leaf # n
      /\ Len(N[n].keys) = BranchFactor - 1 /\ N[n].keys \in Seq(Key) /\ n = r
  BY <1>1, <1>2, <1>3, FullFacts
<1>5. /\ up \notin DOMAIN N /\ up # NULL /\ up \in Nat /\ Cardinality(DOMAIN N \cup {up}) = up
  BY <1>1, <1>4, NewNode
<1>6. PICK R : R = Raised(N, n, up)
  OBVIOUS
<1>7. PICK lo2, hi2, h2, pos2 : Shape(R, up, leaf, n, child, key, app2, lo2, hi2, h2, pos2)
  BY <1>1, <1>2, <1>3, <1>4, <1>6, RaiseShape
<1>8. PICK K, V, x, mid :
        /\ K = N[n].keys /\ V = N[n].vals /\ x = N[n].next /\ mid = K[mbptree_midpoint + 1]
  OBVIOUS
<1>9. DOMAIN R = DOMAIN N \cup {up} /\ R[n] = Rec(N[n].leaf, up, K, V, x)
  BY <1>4, <1>5, <1>6, <1>8 DEF Raised, With
<1>10. R[n].parent = up /\ R[n].keys = K /\ R[n].vals = V /\ R[n].next = x
  BY <1>9 DEF Rec
<1>11. new = Cardinality(DOMAIN R) + 1
  <2>1. PICK c \in Nat : DOMAIN N = 1 .. c
    BY <1>4 DEF IsNodes
  <2>2. Cardinality(1 .. c) = c
    BY FS_Interval
  <2>3. Cardinality(DOMAIN N) \in Nat
    BY <2>1, <2>2
  <2> QED BY <1>1, <1>5, <1>9, <2>3
<1>12. new \notin DOMAIN R
  <2>1. IsNodes(R)
    BY <1>7 DEF Shape
  <2> QED BY <1>11, <2>1, NewNode
<1>13. new \notin DOMAIN N /\ new # up /\ child # new
  BY <1>4, <1>9, <1>12
<1>14. PICK H, G : H = HalvedAt(N, n, new, up, key, child) /\ G = HalvedAt(R, n, new, up, key, child)
  OBVIOUS
<1>15. PICK lo3, hi3, h3, pos3 : Shape(G, up, leaf, up, new, mid, app2, lo3, hi3, h3, pos3)
  <2>1. Len(R[n].keys) = BranchFactor - 1 /\ R[n].parent # NULL
    BY <1>4, <1>5, <1>8, <1>10
  <2>2. PICK lo3, hi3, h3, pos3 :
           Shape(HalvedAt(R, n, new, R[n].parent, key, child), up, leaf, R[n].parent, new,
                 R[n].keys[mbptree_midpoint + 1], app2, lo3, hi3, h3, pos3)
    BY <1>3, <1>7, <1>11, <2>1, HalvedAtShape
  <2> QED BY <1>8, <1>10, <1>14, <2>2
<1>16. Shape(Attached(G, up, new, mid), up, leaf, NULL, NULL, 0, app2, lo3, hi3, h3, pos3)
  BY <1>5, <1>15, AttachShape
<1>17. mbptree_move_half_node(n, new, up, l.key, l.child) = H
  BY <1>1, <1>4, <1>13, <1>14, MoveIsHalved
<1>18. PICK top : N2 = With(H, up, top) /\ top = Top(mid, n, new)
  BY <1>1, <1>8, <1>17 DEF MidKey
<1>19. \A i \in 1 .. Len(N[n].vals) : N[n].vals[i] \in DOMAIN N
  BY <1>2, <1>4 DEF Shape, Family
<1>20. N2 = Attached(G, up, new, mid)
  <2>1. With(HalvedAt(N, n, new, up, key, child), up, Top(mid, n, new))
        = Attached(HalvedAt(Raised(N, n, up), n, new, up, key, child), up, new, mid)
    BY <1>4, <1>5, <1>13, <1>19, SplitRootNodesAt
  <2> QED BY <1>6, <1>14, <1>18, <2>1
<1>22. Fits(H)
  BY <1>1, <1>4, <1>13, <1>14, HalvedAtFits
<1>23. Fits(N2)
  <2>1. DOMAIN N2 = DOMAIN H \cup {up} /\ N2[up] = top /\ \A y \in DOMAIN H : y # up => N2[y] = H[y]
    BY <1>18 DEF With
  <2>2. top.keys = <<mid>>
    BY <1>18 DEF Rec, Top
  <2>3. Len(N2[up].keys) <= BranchFactor - 1
    BY <2>1, <2>2, OneKeyFits
  <2>4. ASSUME NEW y \in DOMAIN N2 PROVE Len(N2[y].keys) <= BranchFactor - 1
    <3>1. CASE y = up
      BY <2>3, <3>1
    <3>2. CASE y # up
      BY <1>22, <2>1, <3>2 DEF Fits
    <3> QED BY <3>1, <3>2
  <2> QED BY <2>4 DEF Fits
<1> QED BY <1>1, <1>5, <1>16, <1>20, <1>23 DEF Ready

-----------------------------------------------------------------------------
LEMMA LeastOf ==
  ASSUME NEW S, S \subseteq Nat, S # {}
  PROVE  \E n \in S : \A m \in S : n <= m
<1> DEFINE R == {ss \in Nat \X Nat : ss[1] < ss[2]}
<1>1. IsWellFoundedOn(R, Nat)
  BY NatLessThanWellFounded DEF OpToRel
<1>2. PICK n \in S : \A m \in S : ~ (<<m, n>> \in R)
  <2> HIDE DEF R
  <2> QED BY <1>1, WFMin
<1>3. \A m \in S : ~ (m < n)
  BY <1>2
<1> QED BY <1>3

LEMMA GreatestOf ==
  ASSUME NEW S, S \subseteq Nat, S # {}, NEW c \in Nat, \A m \in S : m <= c
  PROVE  \E n \in S : \A m \in S : m <= n
<1>1. PICK T : T = {c - m : m \in S}
  OBVIOUS
<1>2. T \subseteq Nat /\ T # {}
  <2>1. \A m \in S : c - m \in Nat
    OBVIOUS
  <2>2. PICK m \in S : TRUE
    OBVIOUS
  <2> QED BY <1>1, <2>1, <2>2
<1>3. PICK d \in T : \A e \in T : d <= e
  BY <1>2, LeastOf
<1>4. PICK n \in S : d = c - n
  BY <1>1, <1>3
<1>5. ASSUME NEW m \in S PROVE m <= n
  <2>1. d <= c - m /\ m \in Nat /\ n \in Nat
    BY <1>1, <1>3
  <2> QED BY <1>4, <2>1
<1> QED BY <1>5

LEMMA MinIs ==
  ASSUME NEW S, S \subseteq Int, NEW x \in S, \A y \in S : x <= y PROVE Min(S) = x
<1>1. PICK z : z = Min(S)
  OBVIOUS
<1>2. z \in S /\ \A y \in S : z <= y
  BY <1>1 DEF Min
<1>3. z <= x /\ x <= z /\ x \in Int /\ z \in Int
  BY <1>2
<1> QED BY <1>1, <1>3

LEMMA MaxIs ==
  ASSUME NEW S, S \subseteq Int, NEW x \in S, \A y \in S : x >= y PROVE Max(S) = x
<1>1. PICK z : z = Max(S)
  OBVIOUS
<1>2. z \in S /\ \A y \in S : z >= y
  BY <1>1 DEF Max
<1>3. z >= x /\ x >= z /\ x \in Int /\ z \in Int
  BY <1>2
<1> QED BY <1>1, <1>3

(* Where mbptree_find_leaf goes from a node whose keys are K. *)
Turn(K, key) == IF Greater(K, key) = {} THEN Len(K) + 1 ELSE Min(Greater(K, key))

LEMMA TurnFacts ==
  ASSUME NEW K \in Seq(Key), NEW key \in Key
  PROVE  /\ Turn(K, key) \in 1 .. Len(K) + 1
         /\ Turn(K, key) <= Len(K) => key < K[Turn(K, key)]
         /\ Turn(K, key) # 1 => K[Turn(K, key) - 1] <= key
<1>1. PICK m, G, i : m = Len(K) /\ G = Greater(K, key) /\ i = Turn(K, key)
  OBVIOUS
<1>2. m \in Nat /\ G = {j \in 1 .. m : key < K[j]} /\ \A j \in 1 .. m : K[j] \in Nat
  <2>1. \A j \in 1 .. m : K[j] \in Key
    BY <1>1
  <2>2. m \in Nat /\ DOMAIN K = 1 .. m
    BY <1>1
  <2>3. G = {j \in 1 .. m : key < K[j]}
    BY <1>1, <2>2 DEF Greater
  <2> QED BY <2>1, <2>2, <2>3, KeyFacts
<1>3. key \in Nat
  BY KeyFacts
<1>4. CASE G = {}
  <2>1. i = m + 1
    BY <1>1, <1>4 DEF Turn
  <2>2. \A j \in 1 .. m : K[j] <= key
    BY <1>2, <1>3, <1>4
  <2>3. i \in 1 .. m + 1 /\ ~ (i <= m) /\ (i # 1 => i - 1 \in 1 .. m)
    BY <1>2, <2>1
  <2> QED BY <1>1, <2>2, <2>3
<1>5. CASE G # {}
  <2>1. G \subseteq Nat /\ G \subseteq Int
    BY <1>2
  <2>2. PICK g \in G : \A j \in G : g <= j
    BY <1>5, <2>1, LeastOf
  <2>3. i = g
    BY <1>1, <1>5, <2>1, <2>2, MinIs DEF Turn
  <2>4. i \in 1 .. m /\ key < K[i]
    BY <1>2, <2>2, <2>3
  <2>5. i # 1 => K[i - 1] <= key
    <3> SUFFICES ASSUME i # 1 PROVE K[i - 1] <= key
      OBVIOUS
    <3>1. i - 1 \in 1 .. m /\ ~ (i <= i - 1)
      BY <1>2, <2>4
    <3>2. i - 1 \notin G
      BY <2>2, <2>3, <3>1
    <3>3. ~ (key < K[i - 1])
      BY <1>2, <3>1, <3>2
    <3> QED BY <1>2, <1>3, <3>1, <3>3
  <2>6. i \in 1 .. m + 1
    BY <1>2, <2>4
  <2> QED BY <1>1, <2>4, <2>5, <2>6
<1> QED BY <1>4, <1>5

(* mbptree_find_leaf goes to a child whose range has the key. *)
LEMMA DescendLocated ==
  ASSUME NEW N, NEW r, NEW L, NEW app, NEW l, Located(N, r, L, app, l), l.key \in Key, ~ N[l.node].leaf,
         NEW l2, l2.key = l.key, l2.node = N[l.node].vals[Turn(N[l.node].keys, l.key)]
  PROVE  Located(N, r, L, app, l2)
<1>1. PICK lo, hi, h, pos : /\ Shape(N, r, L, NULL, NULL, 0, app, lo, hi, h, pos)
                            /\ lo[l.node] <= l.key /\ l.key < hi[l.node]
  BY DEF Located
<1>2. PICK n, key, K, V : n = l.node /\ key = l.key /\ K = N[n].keys /\ V = N[n].vals
  OBVIOUS
<1>3. /\ IsNodes(N) /\ n \in DOMAIN N /\ ~ N[n].leaf /\ key \in Key
      /\ Family(N, r, NULL, NULL) /\ Ranges(N, r, NULL, NULL, 0, lo, hi)
      /\ lo[n] <= key /\ key < hi[n]
  BY <1>1, <1>2 DEF Located, Shape
<1>4. K \in Seq(Key) /\ Len(V) = Len(K) + 1 /\ n # NULL
  BY <1>2, <1>3, NodeFacts DEF IsNodes
<1>5. PICK i : i = Turn(K, key)
  OBVIOUS
<1>6. i \in 1 .. Len(K) + 1 /\ (i <= Len(K) => key < K[i]) /\ (i # 1 => K[i - 1] <= key)
  BY <1>3, <1>4, <1>5, TurnFacts
<1>7. i \in 1 .. Len(N[n].vals)
  BY <1>2, <1>4, <1>6
<1>8. PICK v : v = V[i]
  OBVIOUS
<1>9. /\ v \in DOMAIN N
      /\ lo[v] = IF i = 1 THEN lo[n] ELSE K[i - 1]
      /\ hi[v] = IF i <= Len(K) THEN K[i] ELSE hi[n]
  <2>1. N[n].vals[i] \in DOMAIN N
    BY <1>3, <1>7 DEF Family
  <2>2. /\ lo[N[n].vals[i]] = IF i = 1 THEN lo[n] ELSE N[n].keys[i - 1]
        /\ hi[N[n].vals[i]] = IF i <= Len(N[n].keys) THEN N[n].keys[i] ELSE hi[n]
    BY <1>3, <1>4, <1>7 DEF Ranges
  <2> QED BY <1>2, <1>8, <2>1, <2>2
<1>10. lo[v] <= key /\ key < hi[v]
  BY <1>3, <1>6, <1>9
<1>11. l2.node = v /\ l2.key = key
  BY <1>2, <1>5, <1>8
<1> QED BY <1>1, <1>9, <1>10, <1>11 DEF Located

LEMMA RootLocated ==
  ASSUME NEW N, NEW r, NEW L, NEW app, Ready(N, r, L, app), NEW l2, l2.key \in Key, l2.node = r
  PROVE  Located(N, r, L, app, l2)
<1>1. PICK lo, hi, h, pos : Shape(N, r, L, NULL, NULL, 0, app, lo, hi, h, pos)
  BY DEF Ready
<1>2. r \in DOMAIN N /\ lo[r] = -1 /\ hi[r] = Above
  BY <1>1 DEF Shape, Family, Ranges
<1>3. -1 <= l2.key /\ l2.key < Above
  <2>1. PICK k : k = l2.key
    OBVIOUS
  <2>2. k \in Nat /\ k < Above
    BY <2>1, KeyFacts
  <2> QED BY <2>1, <2>2
<1> QED BY <1>1, <1>2, <1>3 DEF Located

(* The scan of the leaf that the descent comes to. *)
Upto(K, key) == {i \in DOMAIN K : \A j \in 1 .. i : K[j] <= key}
Below(app, n, key) == {k \in {app[i] : i \in 1 .. n} : k <= key}

LEMMA ScanFinds ==
  ASSUME NEW N, NEW r, NEW L, NEW app, NEW l, Located(N, r, L, app, l), l.key \in Key, N[l.node].leaf
  PROVE  (IF Upto(N[l.node].keys, l.key) = {} THEN NULL ELSE N[l.node].vals[Max(Upto(N[l.node].keys, l.key))])
         = (IF Below(app, Len(app), l.key) = {} THEN NULL ELSE Max(Below(app, Len(app), l.key)))
<1>1. PICK lo, hi, h, pos : /\ Shape(N, r, L, NULL, NULL, 0, app, lo, hi, h, pos)
                            /\ lo[l.node] <= l.key /\ l.key < hi[l.node]
  BY DEF Located
<1>2. PICK n, key, K, U, B : /\ n = l.node /\ key = l.key /\ K = N[n].keys
                             /\ U = Upto(K, key) /\ B = Below(app, Len(app), key)
  OBVIOUS
<1>3. /\ IsNodes(N) /\ n \in DOMAIN N /\ N[n].leaf /\ key \in Key
      /\ Ranges(N, r, NULL, NULL, 0, lo, hi) /\ Leaves(N, L, app, lo, hi) /\ Links(N, L, app, pos)
      /\ lo[n] <= key /\ key < hi[n]
  BY <1>1, <1>2 DEF Located, Shape
<1>4. PICK m, a : m = Len(K) /\ a = Len(app)
  OBVIOUS
<1>5. /\ K \in Seq(Key) /\ m \in Nat /\ DOMAIN K = 1 .. m /\ N[n].vals = K
      /\ app \in Seq(Key) /\ a \in Nat /\ key \in Nat /\ lo[n] \in Int /\ hi[n] \in Int
  <2>1. K \in Seq(Key) /\ N[n].vals = K
    BY <1>2, <1>3, NodeFacts DEF IsNodes
  <2>2. m \in Nat /\ DOMAIN K = 1 .. m
    BY <1>4, <2>1
  <2>3. app \in Seq(Key)
    BY <1>3 DEF Leaves
  <2>4. a \in Nat
    BY <1>4, <2>3
  <2>5. lo[n] \in Int /\ hi[n] \in Int
    BY <1>3 DEF Ranges
  <2> QED BY <1>3, <2>1, <2>2, <2>3, <2>4, <2>5, KeyFacts
<1>6. (\A i \in 1 .. m : K[i] \in Nat) /\ (\A i \in 1 .. a : app[i] \in Nat)
  <2>1. (\A i \in 1 .. m : K[i] \in Key) /\ (\A i \in 1 .. a : app[i] \in Key)
    BY <1>4, <1>5
  <2> QED BY <2>1, KeyFacts
<1>7. /\ lo[n] = -1 \/ (m > 0 /\ K[1] = lo[n])
      /\ \A i, j \in 1 .. m : i < j => K[i] < K[j]
      /\ \A i \in 1 .. m : lo[n] <= K[i]
      /\ \A k \in 1 .. a : lo[n] <= app[k] /\ app[k] < hi[n] => \E i \in 1 .. m : K[i] = app[k]
  <2>1. /\ lo[n] = -1 \/ (Len(N[n].keys) > 0 /\ N[n].keys[1] = lo[n])
        /\ \A i, j \in 1 .. Len(N[n].keys) : i < j => N[n].keys[i] < N[n].keys[j]
        /\ \A i \in 1 .. Len(N[n].keys) : lo[n] <= N[n].keys[i]
        /\ \A k \in 1 .. Len(app) : lo[n] <= app[k] /\ app[k] < hi[n] =>
             \E i \in 1 .. Len(N[n].keys) : N[n].keys[i] = app[k]
    BY <1>3 DEF Leaves
  <2> QED BY <1>2, <1>4, <2>1
<1>8. \A i \in 1 .. m : \E k \in 1 .. a : app[k] = K[i]
  <2>1. /\ pos[n] \in Nat /\ pos[n] + m <= a /\ \A j \in 1 .. m : K[j] = app[pos[n] + j]
    BY <1>2, <1>3, <1>4 DEF Links
  <2>2. \A i \in 1 .. m : pos[n] + i \in 1 .. a
    BY <1>5, <2>1
  <2> QED BY <2>1, <2>2
<1>9. U = {i \in 1 .. m : \A j \in 1 .. i : K[j] <= key}
  BY <1>2, <1>5 DEF Upto
<1>10. B = {k \in {app[i] : i \in 1 .. a} : k <= key}
  BY <1>2, <1>4 DEF Below
<1>11. ASSUME NEW i \in 1 .. m, K[i] <= key PROVE i \in U
  <2>1. ASSUME NEW j \in 1 .. i PROVE K[j] <= key
    <3>1. j \in 1 .. m /\ (j = i \/ j < i)
      BY <1>5
    <3>2. K[j] \in Nat /\ K[i] \in Nat /\ K[j] <= K[i]
      BY <1>6, <1>7, <3>1
    <3> QED BY <1>5, <1>11, <3>2
  <2> QED BY <1>9, <2>1
<1>12. ASSUME NEW k \in 1 .. a, app[k] <= key PROVE app[k] < lo[n] \/ \E i \in U : K[i] = app[k]
  <2>1. CASE app[k] < lo[n]
    BY <2>1
  <2>2. CASE ~ (app[k] < lo[n])
    <3>1. lo[n] <= app[k] /\ app[k] < hi[n]
      BY <1>3, <1>5, <1>6, <1>12, <2>2
    <3>2. PICK i \in 1 .. m : K[i] = app[k]
      BY <1>7, <3>1
    <3>3. i \in U
      BY <1>11, <1>12, <3>2
    <3> QED BY <3>2, <3>3
  <2> QED BY <2>1, <2>2
<1>13. CASE U = {}
  <2>1. lo[n] = -1
    <3> SUFFICES ASSUME m > 0, K[1] = lo[n] PROVE FALSE
      BY <1>7
    <3>1. 1 \in 1 .. m /\ K[1] <= key
      BY <1>3, <1>5
    <3> QED BY <1>11, <1>13, <3>1
  <2>2. B = {}
    <3> SUFFICES ASSUME NEW k \in 1 .. a, app[k] <= key PROVE FALSE
      BY <1>10
    <3>1. app[k] < lo[n] /\ app[k] \in Nat
      BY <1>6, <1>12, <1>13
    <3> QED BY <2>1, <3>1
  <2> QED BY <1>2, <1>13, <2>2
<1>14. CASE U # {}
  <2>1. U \subseteq Nat /\ U \subseteq Int /\ \A i \in U : i <= m
    BY <1>5, <1>9
  <2>2. PICK x \in U : \A i \in U : i <= x
    BY <1>5, <1>14, <2>1, GreatestOf
  <2>3. Max(U) = x
    <3>1. \A i \in U : x >= i
      BY <2>1, <2>2
    <3> QED BY <2>1, <3>1, MaxIs
  <2>4. x \in 1 .. m /\ K[x] <= key /\ K[x] \in Nat
    BY <1>6, <1>9, <2>2
  <2>5. K[x] \in B /\ B \subseteq Int
    BY <1>6, <1>8, <1>10, <2>4
  <2>6. ASSUME NEW y \in B PROVE K[x] >= y
    <3>1. PICK k \in 1 .. a : app[k] = y /\ app[k] <= key
      BY <1>10
    <3>2. CASE app[k] < lo[n]
      <4>1. lo[n] <= K[x] /\ app[k] \in Nat
        BY <1>6, <1>7, <2>4
      <4> QED BY <1>5, <2>4, <3>1, <3>2, <4>1
    <3>3. CASE \E i \in U : K[i] = app[k]
      <4>1. PICK i \in U : K[i] = app[k]
        BY <3>3
      <4>2. i \in 1 .. m /\ i <= x
        BY <1>9, <2>2
      <4>3. K[i] \in Nat /\ K[i] <= K[x]
        BY <1>6, <1>7, <2>4, <4>2
      <4> QED BY <2>4, <3>1, <4>1, <4>3
    <3> QED BY <1>12, <3>1, <3>2, <3>3
  <2>7. Max(B) = K[x] /\ B # {}
    BY <2>5, <2>6, MaxIs
  <2>8. N[n].vals[Max(U)] = Max(B)
    BY <1>5, <2>3, <2>7
  <2> QED BY <1>2, <1>14, <2>7, <2>8
<1> QED BY <1>13, <1>14

-----------------------------------------------------------------------------
(* A function of numbered nodes has a bound. *)
LEMMA Bounded ==
  ASSUME NEW c \in Nat, NEW h \in [1 .. c -> Nat]
  PROVE  \E b \in Nat : \A n \in 1 .. c : h[n] <= b
<1> DEFINE Bad == {k \in 0 .. c : ~ \E b \in Nat : \A n \in 1 .. k : h[n] <= b}
<1>1. SUFFICES ASSUME Bad # {} PROVE FALSE
  <2>1. c \in 0 .. c
    OBVIOUS
  <2> QED BY <2>1
<1>2. Bad \subseteq Nat
  OBVIOUS
<1>3. PICK k \in Bad : \A j \in Bad : k <= j
  <2> HIDE DEF Bad
  <2> QED BY <1>1, <1>2, LeastOf
<1>4. k # 0
  <2>1. \A n \in 1 .. 0 : h[n] <= 0
    OBVIOUS
  <2> QED BY <2>1
<1>5. k - 1 \in 0 .. c /\ k - 1 \notin Bad /\ k \in 1 .. c
  <2>1. k - 1 \in 0 .. c /\ k \in 1 .. c /\ ~ (k <= k - 1)
    BY <1>4
  <2> QED BY <1>3, <2>1
<1>6. PICK b \in Nat : \A n \in 1 .. k - 1 : h[n] <= b
  BY <1>5
<1>7. PICK d : d = IF h[k] <= b THEN b ELSE h[k]
  OBVIOUS
<1>8. h[k] \in Nat
  BY <1>5
<1>9. d \in Nat /\ h[k] <= d /\ b <= d
  BY <1>7, <1>8
<1>10. ASSUME NEW n \in 1 .. k PROVE h[n] <= d
  <2>1. CASE n = k
    BY <1>9, <2>1
  <2>2. CASE n # k
    <3>1. n \in 1 .. k - 1 /\ h[n] \in Nat
      BY <1>5, <2>2
    <3> QED BY <1>6, <1>9, <3>1
  <2> QED BY <2>1, <2>2
<1>11. k \notin Bad
  BY <1>9, <1>10
<1> QED BY <1>3, <1>11

(* A node's depth and its height add up to the same for all. *)
LEMMA DepthIs ==
  ASSUME NEW r, NEW h, IsNodes(nodes), Family(nodes, r, NULL, NULL), Heights(nodes, h)
  PROVE  \A n \in DOMAIN nodes : Depth[n] = (h[r] + 1) - h[n]
<1>1. PICK N, D, H : N = nodes /\ D = DOMAIN nodes /\ H = h[r]
  OBVIOUS
<1>2. /\ IsNodes(N) /\ D = DOMAIN N /\ NULL \notin D /\ r \in D /\ N[r].parent = NULL
      /\ h \in [D -> Nat] /\ H \in Nat
  BY <1>1, NodeFacts DEF Family, Heights
<1>3. \A n \in D : N[n].parent = NULL \/ (N[n].parent \in D /\ h[N[n].parent] = h[n] + 1)
  BY <1>1 DEF Family, Heights
<1>4. \A n \in D : N[n].parent = NULL => n = r
  BY <1>1 DEF Family
<1>5. PICK f : f = [n \in D \cup {NULL} |-> IF n = NULL THEN 0 ELSE (H + 1) - h[n]]
  OBVIOUS
<1>6. f[NULL] = 0 /\ \A n \in D : f[n] = (H + 1) - h[n]
  BY <1>2, <1>5
<1>7. ASSUME NEW n \in D PROVE (H + 1) - h[n] = 1 + f[N[n].parent]
  <2>1. h[n] \in Nat
    BY <1>2
  <2>2. CASE N[n].parent = NULL
    <3>1. h[n] = H
      BY <1>1, <1>4, <2>2
    <3> QED BY <1>2, <1>6, <2>2, <3>1
  <2>3. CASE N[n].parent # NULL
    <3>1. N[n].parent \in D /\ h[N[n].parent] = h[n] + 1
      BY <1>3, <2>3
    <3>2. f[N[n].parent] = (H + 1) - (h[n] + 1)
      BY <1>6, <3>1
    <3> QED BY <1>2, <2>1, <3>2
  <2> QED BY <2>2, <2>3
<1>8. f = [n \in D \cup {NULL} |-> IF n = NULL THEN 0 ELSE 1 + f[N[n].parent]]
  BY <1>5, <1>7
<1>9. f = [n \in DOMAIN nodes \cup {NULL} |-> IF n = NULL THEN 0 ELSE 1 + f[nodes[n].parent]]
  BY <1>1, <1>8
<1>10. Depth = [n \in DOMAIN nodes \cup {NULL} |-> IF n = NULL THEN 0 ELSE 1 + Depth[nodes[n].parent]]
  BY <1>9, Zenon DEF Depth
<1>11. PICK g : g = Depth
  OBVIOUS
<1>12. g[NULL] = 0 /\ \A n \in D : g[n] = 1 + g[N[n].parent]
  BY <1>1, <1>2, <1>10, <1>11
<1>13. PICK c \in Nat : D = 1 .. c
  BY <1>2 DEF IsNodes
<1>14. PICK b \in Nat : \A n \in D : h[n] <= b
  BY <1>2, <1>13, Bounded
<1> DEFINE Bad == {n \in D : g[n] # (H + 1) - h[n]}
<1>15. Bad = {}
  <2> SUFFICES ASSUME Bad # {} PROVE FALSE
    OBVIOUS
  <2>1. PICK S : S = {h[n] : n \in Bad}
    OBVIOUS
  <2>2. S \subseteq Nat /\ S # {} /\ \A y \in S : y <= b
    BY <1>2, <1>14, <2>1
  <2>3. PICK y \in S : \A z \in S : z <= y
    BY <2>2, GreatestOf
  <2>4. PICK n \in Bad : y = h[n]
    BY <2>1, <2>3
  <2>5. n \in D /\ g[n] # (H + 1) - h[n] /\ h[n] \in Nat
    BY <1>2, <2>4
  <2>6. CASE N[n].parent = NULL
    <3>1. h[n] = H /\ g[n] = 1
      BY <1>1, <1>4, <1>12, <2>5, <2>6
    <3> QED BY <1>2, <2>5, <3>1
  <2>7. CASE N[n].parent # NULL
    <3>1. PICK p : p = N[n].parent
      OBVIOUS
    <3>2. p \in D /\ h[p] = h[n] + 1
      BY <1>3, <2>5, <2>7, <3>1
    <3>3. p \notin Bad
      <4>1. SUFFICES ASSUME p \in Bad PROVE FALSE
        OBVIOUS
      <4>2. h[p] \in S
        BY <2>1, <4>1
      <4> QED BY <2>3, <2>4, <2>5, <3>2, <4>2
    <3>4. g[p] = (H + 1) - (h[n] + 1)
      BY <3>2, <3>3
    <3>5. g[n] = 1 + g[p]
      BY <1>12, <2>5, <3>1
    <3> QED BY <1>2, <2>5, <3>4, <3>5
  <2> QED BY <2>6, <2>7
<1>16. \A n \in D : g[n] = (H + 1) - h[n]
  BY <1>15
<1> QED BY <1>1, <1>11, <1>16

LEMMA ReadyBalanced ==
  ASSUME Ready(nodes, root, last_leaf, appended)
  PROVE  /\ \A m, n \in DOMAIN nodes : nodes[m].leaf /\ nodes[n].leaf => Depth[m] = Depth[n]
         /\ \A m, n \in DOMAIN nodes :
              n \in Range(IF nodes[m].leaf THEN <<>> ELSE nodes[m].vals) <=> nodes[n].parent = m
<1>1. PICK lo, hi, h, pos : Shape(nodes, root, last_leaf, NULL, NULL, 0, appended, lo, hi, h, pos)
  BY DEF Ready
<1>2. IsNodes(nodes) /\ Family(nodes, root, NULL, NULL) /\ Heights(nodes, h)
  BY <1>1 DEF Shape
<1>3. \A n \in DOMAIN nodes : Depth[n] = (h[root] + 1) - h[n]
  BY <1>2, DepthIs
<1>4. \A n \in DOMAIN nodes : nodes[n].leaf => h[n] = 0
  BY <1>2 DEF Heights
<1>5. ASSUME NEW m \in DOMAIN nodes, NEW n \in DOMAIN nodes
      PROVE  n \in Range(IF nodes[m].leaf THEN <<>> ELSE nodes[m].vals) <=> nodes[n].parent = m
  <2>1. n # NULL /\ m # NULL /\ nodes[m].leaf \in BOOLEAN
    BY <1>2, NodeFacts
  <2>2. CASE nodes[m].leaf
    <3>1. nodes[n].parent # m
      BY <1>2, <2>1, <2>2 DEF Family
    <3>2. Range(<<>>) = {}
      BY DEF Range
    <3> QED BY <2>2, <3>1, <3>2
  <2>3. CASE ~ nodes[m].leaf
    <3>1. PICK V : V = nodes[m].vals
      OBVIOUS
    <3>2. V \in Seq(Nat)
      BY <1>2, <3>1, NodeFacts
    <3>3. Range(V) = {V[i] : i \in 1 .. Len(V)}
      BY <3>2 DEF Range
    <3>4. \A i \in 1 .. Len(V) : nodes[V[i]].parent = m
      BY <1>2, <2>3, <3>1 DEF Family
    <3>5. nodes[n].parent = m => \E i \in 1 .. Len(V) : V[i] = n
      BY <1>2, <2>1, <3>1 DEF Family
    <3> QED BY <2>3, <3>1, <3>3, <3>4, <3>5
  <2> QED BY <2>2, <2>3
<1> QED BY <1>3, <1>4, <1>5

-----------------------------------------------------------------------------
(* What follows the first p elements. *)
Rest(s, p) == SubSeq(s, p + 1, Len(s))

LEMMA RestFacts ==
  ASSUME NEW S, NEW s \in Seq(S), NEW p \in Nat, p <= Len(s)
  PROVE  /\ Rest(s, p) \in Seq(S) /\ Len(Rest(s, p)) = Len(s) - p
         /\ \A i \in 1 .. Len(s) - p : Rest(s, p)[i] = s[p + i]
BY Halves DEF Rest

LEMMA RestAll ==
  ASSUME NEW S, NEW s \in Seq(S) PROVE Rest(s, 0) = s
<1>1. PICK t, m : t = Rest(s, 0) /\ m = Len(s)
  OBVIOUS
<1>2. m \in Nat /\ t \in Seq(S) /\ Len(t) = m - 0 /\ \A i \in 1 .. m - 0 : t[i] = s[0 + i]
  <2>1. 0 \in Nat /\ 0 <= Len(s)
    OBVIOUS
  <2> QED BY <1>1, <2>1, RestFacts
<1>3. Len(t) = m /\ \A i \in 1 .. m : t[i] = s[i]
  BY <1>2
<1>4. t = s
  BY <1>1, <1>2, <1>3, SeqEqual
<1> QED BY <1>1, <1>4

LEMMA RestSplits ==
  ASSUME NEW S, NEW s \in Seq(S), NEW k \in Seq(S), NEW p \in Nat, p + Len(k) <= Len(s),
         \A j \in 1 .. Len(k) : k[j] = s[p + j]
  PROVE  k \o Rest(s, p + Len(k)) = Rest(s, p)
<1>1. PICK m, c, q : m = Len(s) /\ c = Len(k) /\ q = p + c
  OBVIOUS
<1>2. /\ m \in Nat /\ c \in Nat /\ q \in Nat /\ q <= m /\ p <= m /\ q = p + c
      /\ \A j \in 1 .. c : k[j] = s[p + j]
  BY <1>1
<1>3. PICK t, u : t = Rest(s, q) /\ u = Rest(s, p)
  OBVIOUS
<1>4. t \in Seq(S) /\ Len(t) = m - q /\ \A i \in 1 .. m - q : t[i] = s[q + i]
  <2>1. q \in Nat /\ q <= Len(s)
    BY <1>1, <1>2
  <2>2. t \in Seq(S) /\ Len(t) = Len(s) - q /\ \A i \in 1 .. Len(s) - q : t[i] = s[q + i]
    BY <1>3, <2>1, RestFacts
  <2> QED BY <1>1, <2>2
<1>5. u \in Seq(S) /\ Len(u) = m - p /\ \A i \in 1 .. m - p : u[i] = s[p + i]
  <2>1. p <= Len(s)
    BY <1>1, <1>2
  <2>2. u \in Seq(S) /\ Len(u) = Len(s) - p /\ \A i \in 1 .. Len(s) - p : u[i] = s[p + i]
    BY <1>3, <2>1, RestFacts
  <2> QED BY <1>1, <2>2
<1>6. PICK v : v = k \o t
  OBVIOUS
<1>7. /\ v \in Seq(S) /\ Len(v) = c + (m - q)
      /\ \A i \in 1 .. c + (m - q) : v[i] = IF i <= c THEN k[i] ELSE t[i - c]
  BY SMTT(30), <1>1, <1>4, <1>6, ConcatProperties
<1>8. Len(v) = Len(u)
  <2>1. c + (m - q) = m - p
    BY <1>2
  <2> QED BY <1>5, <1>7, <2>1
<1>9. ASSUME NEW i \in 1 .. Len(v) PROVE v[i] = u[i]
  <2>1. i \in 1 .. m - p /\ i \in 1 .. c + (m - q)
    BY <1>5, <1>7, <1>8
  <2>2. u[i] = s[p + i]
    BY <1>5, <2>1
  <2>3. CASE i <= c
    <3>1. i \in 1 .. c
      BY <1>2, <2>1, <2>3
    <3> QED BY <1>2, <1>7, <2>1, <2>2, <2>3, <3>1
  <2>4. CASE ~ (i <= c)
    <3>1. i - c \in 1 .. m - q /\ q + (i - c) = p + i
      BY <1>2, <2>1, <2>4
    <3>2. v[i] = t[i - c]
      BY <1>7, <2>1, <2>4
    <3> QED BY <1>4, <2>2, <3>1, <3>2
  <2> QED BY <2>3, <2>4
<1>10. v = u
  BY <1>5, <1>7, <1>8, <1>9, SeqEqual
<1> QED BY <1>1, <1>3, <1>6, <1>10

(* The iteration from a leaf gives the keys from its position on. *)
LEMMA IterationIs ==
  ASSUME NEW L, NEW app, NEW pos, IsNodes(nodes), app \in Seq(Key), Links(nodes, L, app, pos)
  PROVE  \A n \in DOMAIN nodes : nodes[n].leaf => KeysFrom[n] = Rest(app, pos[n])
<1>1. PICK N, D : N = nodes /\ D = DOMAIN nodes
  OBVIOUS
<1>2. /\ IsNodes(N) /\ D = DOMAIN N /\ NULL \notin D /\ pos \in [D -> Nat] /\ Len(app) \in Nat
  BY <1>1, NodeFacts DEF Links
<1>3. \A n \in D : N[n].keys \in Seq(Key) /\ N[n].leaf \in BOOLEAN
  BY <1>2, NodeFacts
<1>4. \A n \in D : ~ N[n].leaf => N[n].next = NULL
  BY <1>1 DEF Links
<1>5. ASSUME NEW n \in D, N[n].leaf
      PROVE  /\ pos[n] \in Nat /\ pos[n] + Len(N[n].keys) <= Len(app) /\ Len(N[n].keys) \in Nat
             /\ N[n].keys \o Rest(app, pos[n] + Len(N[n].keys)) = Rest(app, pos[n])
  <2>1. PICK k, p : k = N[n].keys /\ p = pos[n]
    OBVIOUS
  <2>2. k \in Seq(Key) /\ p \in Nat
    BY <1>2, <1>3, <2>1
  <2>3. p + Len(k) <= Len(app) /\ \A j \in 1 .. Len(k) : k[j] = app[p + j]
    BY <1>1, <1>5, <2>1 DEF Links
  <2>4. k \o Rest(app, p + Len(k)) = Rest(app, p)
    BY <2>2, <2>3, RestSplits
  <2>5. Len(k) \in Nat
    BY <2>2
  <2> QED BY <2>1, <2>2, <2>3, <2>4, <2>5
<1>6. ASSUME NEW n \in D, N[n].leaf
      PROVE  \/ N[n].next = NULL /\ Rest(app, pos[n] + Len(N[n].keys)) = <<>>
             \/ /\ N[n].next \in D /\ N[N[n].next].leaf /\ Len(N[n].keys) > 0
                /\ pos[N[n].next] = pos[n] + Len(N[n].keys)
  <2>1. CASE n = L
    <3>1. N[n].next = NULL /\ pos[n] + Len(N[n].keys) = Len(app)
      BY <1>1, <1>6, <2>1 DEF Links
    <3>2. Rest(app, Len(app)) = <<>>
      <4>1. PICK t : t = Rest(app, Len(app))
        OBVIOUS
      <4>2. t \in Seq(Key) /\ Len(t) = Len(app) - Len(app)
        <5>1. Len(app) <= Len(app)
          BY <1>2
        <5> QED BY <1>2, <4>1, <5>1, RestFacts
      <4>3. Len(t) = 0
        BY <1>2, <4>2
      <4> QED BY <4>1, <4>2, <4>3, EmptySeq
    <3> QED BY <3>1, <3>2
  <2>2. CASE n # L
    BY <1>1, <1>6, <2>2 DEF Links
  <2> QED BY <2>1, <2>2
<1>7. PICK f : f = [n \in D \cup {NULL} |-> IF n = NULL THEN <<>>
                                            ELSE IF N[n].leaf THEN Rest(app, pos[n]) ELSE N[n].keys]
  OBVIOUS
<1>8. f[NULL] = <<>> /\ \A n \in D : f[n] = IF N[n].leaf THEN Rest(app, pos[n]) ELSE N[n].keys
  BY <1>2, <1>7
<1>9. ASSUME NEW n \in D
      PROVE  (IF N[n].leaf THEN Rest(app, pos[n]) ELSE N[n].keys) = N[n].keys \o f[N[n].next]
  <2>1. CASE ~ N[n].leaf
    <3>1. PICK k : k = N[n].keys
      OBVIOUS
    <3>2. k \in Seq(Key) /\ k \o <<>> = k
      BY <1>3, <3>1, ConcatEmptySeq
    <3> QED BY <1>4, <1>8, <2>1, <3>1, <3>2
  <2>2. CASE N[n].leaf
    <3>1. f[N[n].next] = Rest(app, pos[n] + Len(N[n].keys))
      BY <1>6, <1>8, <2>2
    <3> QED BY <1>5, <2>2, <3>1
  <2> QED BY <2>1, <2>2
<1>10. f = [n \in D \cup {NULL} |-> IF n = NULL THEN <<>> ELSE N[n].keys \o f[N[n].next]]
  BY <1>7, <1>9
<1>11. f = [n \in DOMAIN nodes \cup {NULL} |-> IF n = NULL THEN <<>> ELSE nodes[n].keys \o f[nodes[n].next]]
  BY <1>1, <1>10
<1>12. KeysFrom = [n \in DOMAIN nodes \cup {NULL} |->
                     IF n = NULL THEN <<>> ELSE nodes[n].keys \o KeysFrom[nodes[n].next]]
  BY <1>11, Zenon DEF KeysFrom
<1>13. PICK g : g = KeysFrom
  OBVIOUS
<1>14. g[NULL] = <<>> /\ \A n \in D : g[n] = N[n].keys \o g[N[n].next]
  BY <1>1, <1>2, <1>12, <1>13
<1> DEFINE Bad == {n \in D : N[n].leaf /\ g[n] # Rest(app, pos[n])}
<1>15. Bad = {}
  <2> SUFFICES ASSUME Bad # {} PROVE FALSE
    OBVIOUS
  <2>1. PICK S : S = {pos[n] : n \in Bad}
    OBVIOUS
  <2>2. S \subseteq Nat /\ S # {} /\ \A y \in S : y <= Len(app)
    <3>1. \A n \in Bad : pos[n] \in Nat /\ pos[n] <= Len(app)
      <4>1. \A n \in Bad : pos[n] \in Nat /\ Len(N[n].keys) \in Nat /\ pos[n] + Len(N[n].keys) <= Len(app)
        BY <1>5
      <4> HIDE DEF Bad
      <4> QED BY <1>2, <4>1
    <3> QED BY <2>1, <3>1
  <2>3. PICK y \in S : \A z \in S : z <= y
    BY <1>2, <2>2, GreatestOf
  <2>4. PICK n \in Bad : y = pos[n]
    BY <2>1, <2>3
  <2>5. n \in D /\ N[n].leaf /\ g[n] # Rest(app, pos[n]) /\ pos[n] \in Nat /\ Len(N[n].keys) \in Nat
    BY <1>5, <2>4
  <2>6. CASE N[n].next = NULL /\ Rest(app, pos[n] + Len(N[n].keys)) = <<>>
    BY <1>5, <1>14, <2>5, <2>6
  <2>7. CASE /\ N[n].next \in D /\ N[N[n].next].leaf /\ Len(N[n].keys) > 0
             /\ pos[N[n].next] = pos[n] + Len(N[n].keys)
    <3>1. PICK x : x = N[n].next
      OBVIOUS
    <3>2. x \notin Bad
      <4>1. SUFFICES ASSUME x \in Bad PROVE FALSE
        OBVIOUS
      <4>2. pos[x] \in S
        BY <2>1, <4>1
      <4>3. pos[x] <= pos[n]
        BY <2>3, <2>4, <4>2
      <4> QED BY <2>5, <2>7, <3>1, <4>3
    <3>3. g[x] = Rest(app, pos[n] + Len(N[n].keys))
      BY <2>7, <3>1, <3>2
    <3> QED BY <1>5, <1>14, <2>5, <3>1, <3>3
  <2> QED BY <1>6, <2>5, <2>6, <2>7
<1>16. \A n \in D : N[n].leaf => g[n] = Rest(app, pos[n])
  BY <1>15
<1> QED BY <1>1, <1>13, <1>16

LEMMA ReadyIteration ==
  ASSUME Ready(nodes, root, last_leaf, appended)
  PROVE  LeafIteration(1) = appended
<1>1. PICK lo, hi, h, pos : Shape(nodes, root, last_leaf, NULL, NULL, 0, appended, lo, hi, h, pos)
  BY DEF Ready
<1>2. IsNodes(nodes) /\ appended \in Seq(Key) /\ Links(nodes, last_leaf, appended, pos)
  BY <1>1 DEF Shape, Leaves
<1>3. 1 \in DOMAIN nodes /\ nodes[1].leaf /\ pos[1] = 0
  BY <1>2 DEF Links
<1>4. KeysFrom[1] = Rest(appended, 0)
  BY <1>2, <1>3, IterationIs
<1> QED BY <1>2, <1>4, RestAll DEF LeafIteration

-----------------------------------------------------------------------------
(* The inductive invariant. *)
Fields == {"key", "old", "node", "child", "leaf", "seen", "rc"}

FloorIn(app, n, key) == IF Below(app, n, key) = {} THEN NULL ELSE Max(Below(app, n, key))

(* The result that the locals l hold is right. *)
FloorAt(app, l) == l.seen \in Nat /\ \E n \in l.seen .. Len(app) : l.child = FloorIn(app, n, l.key)

(* In the order: what every thread's locals are, that the results of the   *)
(* searches are right, and what the one thread in the tree relies on.      *)
IndexInv ==
  /\ DOMAIN loc = Threads /\ (\A t \in Threads : DOMAIN loc[t] = Fields)
  /\ appended \in Seq(Key)
  /\ \A t \in Finders : pc[t] = "idle" /\ loc[t].rc >= 0 => FloorAt(appended, loc[t])
  /\ root = NULL => \A t \in Threads : pc[t] = "idle"
  /\ root # NULL =>
       /\ fault = FALSE /\ Fits(nodes)
       /\ \A t \in Threads : pc[t] # "idle" =>
            InTree(nodes, root, last_leaf, appended, pc[t], loc[t])
       /\ (\A t \in Threads : pc[t] = "idle") => Ready(nodes, root, last_leaf, appended)

LEMMA FloorGrows ==
  ASSUME NEW app \in Seq(Key), NEW l, FloorAt(app, l), NEW k \in Key
  PROVE  FloorAt(Append(app, k), l)
<1>1. PICK n \in l.seen .. Len(app) : l.child = FloorIn(app, n, l.key)
  BY DEF FloorAt
<1>2. PICK m, s, app2 : m = Len(app) /\ s = l.seen /\ app2 = Append(app, k)
  OBVIOUS
<1>3. m \in Nat /\ s \in Nat /\ n \in s .. m
  BY <1>1, <1>2 DEF FloorAt
<1>4. Len(app2) = m + 1 /\ \A i \in 1 .. m : app2[i] = app[i]
  BY <1>2, AppendProperties
<1>5. {app2[i] : i \in 1 .. n} = {app[i] : i \in 1 .. n}
  <2>1. \A i \in 1 .. n : app2[i] = app[i]
    BY <1>3, <1>4
  <2> QED BY <2>1
<1>6. FloorIn(app2, n, l.key) = FloorIn(app, n, l.key)
  BY <1>5 DEF FloorIn, Below
<1>7. n \in s .. m + 1
  BY <1>3
<1> QED BY <1>1, <1>2, <1>3, <1>4, <1>6, <1>7 DEF FloorAt

(* A step of a thread t that is alone in the tree, to a label l. *)
LEMMA IndexStep ==
  ASSUME IndexInv, NEW t \in Threads, Only(t), root # NULL, NEW l,
         pc'[t] = l, \A u \in Threads : u # t => pc'[u] = pc[u],
         root' # NULL, fault' = fault, Fits(nodes'),
         DOMAIN loc' = Threads, DOMAIN loc'[t] = Fields, \A u \in Threads : u # t => loc'[u] = loc[u],
         appended' = appended \/ \E k \in Key : appended' = Append(appended, k),
         InTree(nodes', root', last_leaf', appended', l, loc'[t]),
         t \in Finders /\ l = "idle" => FloorAt(appended', loc'[t])
  PROVE  IndexInv'
<1>1. appended' \in Seq(Key)
  <2>1. appended \in Seq(Key)
    BY DEF IndexInv
  <2>2. CASE appended' = appended
    BY <2>1, <2>2
  <2>3. ASSUME NEW k \in Key, appended' = Append(appended, k) PROVE appended' \in Seq(Key)
    BY <2>1, <2>3, AppendProperties
  <2> QED BY <2>2, <2>3
<1>2. ASSUME NEW u \in Finders, u # t, pc'[u] = "idle", loc'[u].rc >= 0 PROVE FloorAt(appended', loc'[u])
  <2>1. u \in Threads
    BY DEF Threads
  <2>2. FloorAt(appended, loc[u]) /\ loc'[u] = loc[u]
    BY <1>2, <2>1 DEF IndexInv
  <2>3. CASE appended' = appended
    BY <2>2, <2>3
  <2>4. ASSUME NEW k \in Key, appended' = Append(appended, k) PROVE FloorAt(appended', loc'[u])
    BY <2>2, <2>4, FloorGrows DEF IndexInv
  <2> QED BY <2>3, <2>4
<1>3. \A u \in Finders : pc'[u] = "idle" /\ loc'[u].rc >= 0 => FloorAt(appended', loc'[u])
  BY <1>2
<1>4. \A u \in Threads : u # t => pc'[u] = "idle"
  BY DEF Only
<1>5. \A u \in Threads : DOMAIN loc'[u] = Fields
  BY DEF IndexInv
<1>6. fault' = FALSE
  BY DEF IndexInv
<1>7. (\A u \in Threads : pc'[u] = "idle") => Ready(nodes', root', last_leaf', appended')
  BY DEF InTree
<1>8. \A u \in Threads : pc'[u] # "idle" =>
        InTree(nodes', root', last_leaf', appended', pc'[u], loc'[u])
  BY <1>4
<1> QED BY <1>1, <1>3, <1>5, <1>6, <1>7, <1>8 DEF IndexInv

(* The same for a step that leaves the tree alone. *)
LEMMA QuietStep ==
  ASSUME IndexInv, NEW t \in Threads, Only(t), root # NULL, NEW l,
         pc'[t] = l, \A u \in Threads : u # t => pc'[u] = pc[u],
         UNCHANGED <<nodes, root, last_leaf, appended, fault>>,
         DOMAIN loc' = Threads, DOMAIN loc'[t] = Fields, \A u \in Threads : u # t => loc'[u] = loc[u],
         InTree(nodes, root, last_leaf, appended, l, loc'[t]),
         t \in Finders /\ l = "idle" => FloorAt(appended, loc'[t])
  PROVE  IndexInv'
<1>1. Fits(nodes') /\ root' # NULL /\ fault' = fault /\ appended' = appended
  BY DEF IndexInv
<1>2. InTree(nodes', root', last_leaf', appended', l, loc'[t])
  OBVIOUS
<1> QED BY <1>1, <1>2, IndexStep

LEMMA InitIndex == Init => IndexInv
<1> SUFFICES ASSUME Init PROVE IndexInv
  OBVIOUS
<1>1. DOMAIN loc = Threads /\ \A t \in Threads : loc[t] = Idle(0) /\ pc[t] = "idle"
  BY DEF Init
<1>2. /\ DOMAIN Idle(0) = Fields /\ Idle(0).seen = 0 /\ Idle(0).child = NULL /\ Idle(0).key = 0
  BY DEF Idle, Fields
<1>3. appended = <<>> /\ Len(appended) = 0 /\ appended \in Seq(Key)
  BY DEF Init
<1>4. FloorAt(appended, Idle(0))
  <2>1. 0 \in 0 .. Len(appended)
    BY <1>3
  <2>2. Below(appended, 0, 0) = {}
    BY DEF Below
  <2>3. FloorIn(appended, 0, 0) = NULL
    BY <2>2 DEF FloorIn
  <2> QED BY <1>2, <2>1, <2>3 DEF FloorAt
<1>5. PICK e : e = <<>>
  OBVIOUS
<1>6. Len(e) = 0 /\ e \in Seq(Key) /\ e \in Seq(Nat) /\ appended = e
  BY <1>3, <1>5
<1>7. DOMAIN nodes = {1} /\ nodes[1] = Rec(TRUE, NULL, e, e, NULL) /\ nodes = [n \in {1} |-> nodes[1]]
  BY <1>5 DEF Init, create_leaf, create_node, Rec
<1>8. /\ nodes[1].leaf = TRUE /\ nodes[1].parent = NULL /\ nodes[1].keys = e
      /\ nodes[1].vals = e /\ nodes[1].next = NULL
  BY <1>7 DEF Rec
<1>9. root = 1 /\ last_leaf = 1 /\ root # NULL /\ fault = FALSE
  BY DEF Init, NULL
<1>10. IsNodes(nodes)
  <2>1. Rec(TRUE, NULL, e, e, NULL) \in NodeRec
    <3>1. NULL \in Nat /\ TRUE \in BOOLEAN
      BY DEF NULL
    <3> QED BY <1>6, <3>1, RecType
  <2>2. nodes \in [DOMAIN nodes -> NodeRec]
    BY <1>7, <2>1
  <2>3. DOMAIN nodes = 1 .. 1 /\ 1 \in Nat
    BY <1>7
  <2> QED BY <1>7, <1>8, <2>2, <2>3 DEF IsNodes
<1>11. PICK lo, hi, h, pos : /\ lo = [n \in {1} |-> -1] /\ hi = [n \in {1} |-> Above]
                             /\ h = [n \in {1} |-> 0] /\ pos = [n \in {1} |-> 0]
  OBVIOUS
<1>12. /\ lo[1] = -1 /\ hi[1] = Above /\ h[1] = 0 /\ pos[1] = 0
       /\ lo \in [DOMAIN nodes -> Int] /\ hi \in [DOMAIN nodes -> Int]
       /\ h \in [DOMAIN nodes -> Nat] /\ pos \in [DOMAIN nodes -> Nat]
  <2>1. Above \in Int
    BY KeyFacts
  <2> QED BY <1>7, <1>11, <2>1
<1>13. Family(nodes, root, NULL, NULL)
  BY <1>7, <1>8, <1>9 DEF Family, NULL
<1>14. Ranges(nodes, root, NULL, NULL, 0, lo, hi)
  BY <1>7, <1>8, <1>9, <1>12 DEF Ranges
<1>15. Heights(nodes, h)
  BY <1>7, <1>8, <1>12 DEF Heights
<1>16. Leaves(nodes, last_leaf, appended, lo, hi)
  <2>1. 1 .. Len(nodes[1].keys) = {} /\ 1 .. Len(appended) = {}
    BY <1>6, <1>8
  <2> QED BY <1>3, <1>7, <1>8, <1>9, <1>12, <2>1 DEF Leaves
<1>17. Links(nodes, last_leaf, appended, pos)
  <2>1. 1 .. Len(nodes[1].keys) = {} /\ pos[1] + Len(nodes[1].keys) = Len(appended)
    BY <1>6, <1>8, <1>12
  <2>2. Len(appended) <= Len(appended)
    BY <1>3
  <2> QED BY <1>7, <1>8, <1>9, <1>12, <2>1, <2>2 DEF Links
<1>18. Ready(nodes, root, last_leaf, appended)
  BY <1>10, <1>13, <1>14, <1>15, <1>16, <1>17 DEF Ready, Shape
<1>19. Fits(nodes)
  <2>1. Len(nodes[1].keys) <= BranchFactor - 1
    BY <1>6, <1>8, KeyFacts
  <2> QED BY <1>7, <2>1 DEF Fits
<1> QED BY <1>1, <1>2, <1>3, <1>4, <1>9, <1>18, <1>19 DEF IndexInv, Threads

-----------------------------------------------------------------------------
(* A thread in the tree is alone, and can rely on its part of the          *)
(* invariant.                                                              *)
LEMMA InFacts ==
  ASSUME SerialInv, IndexInv, Serialized, NEW t \in Threads, pc[t] # "idle"
  PROVE  /\ Only(t) /\ root # NULL /\ Fits(nodes) /\ fault = FALSE
         /\ InTree(nodes, root, last_leaf, appended, pc[t], loc[t])
         /\ DOMAIN loc = Threads /\ DOMAIN loc[t] = Fields /\ DOMAIN pc = Threads
<1>1. Only(t)
  BY StepsAlone
<1>2. DOMAIN pc = Threads
  BY DEF SerialInv, LockTypes
<1> QED BY <1>1, <1>2 DEF IndexInv

LEMMA GoesTo ==
  ASSUME NEW t \in Threads, DOMAIN pc = Threads, NEW l, Goto(t, l)
  PROVE  pc'[t] = l /\ \A u \in Threads : u # t => pc'[u] = pc[u]
BY DEF Goto

LEMMA ReturnsRc ==
  ASSUME NEW t \in Threads, DOMAIN loc = Threads, DOMAIN loc[t] = Fields, NEW rc, Returns(t, rc)
  PROVE  /\ DOMAIN loc' = Threads /\ DOMAIN loc'[t] = Fields /\ (\A u \in Threads : u # t => loc'[u] = loc[u])
BY DEF Returns

LEMMA TryAppendIndex ==
  ASSUME SerialInv, IndexInv, Serialized, NEW t \in Appenders, mbptree_tryappend(t)
  PROVE  IndexInv'
<1>1. t \in Threads /\ t \notin Finders /\ pc[t] = "tryappend" /\ pc[t] # "idle"
  BY TreeAssumption DEF Threads, mbptree_tryappend, At
<1>2. /\ Only(t) /\ root # NULL /\ Fits(nodes) /\ fault = FALSE
      /\ InTree(nodes, root, last_leaf, appended, "tryappend", loc[t])
      /\ DOMAIN loc = Threads /\ DOMAIN loc[t] = Fields /\ DOMAIN pc = Threads
  BY <1>1, InFacts
<1>3. Ready(nodes, root, last_leaf, appended) /\ loc[t].key \in Key
  BY <1>2 DEF InTree
<1>4. UNCHANGED <<root, last_leaf, appended, fault>>
  BY DEF mbptree_tryappend
<1>5. CASE Refused(t) /\ UNCHANGED nodes
  <2>1. Returns(t, ELIDXNM) /\ Goto(t, "unlock")
    BY <1>5 DEF Refused
  <2>2. InTree(nodes, root, last_leaf, appended, "unlock", loc'[t])
    BY <1>3 DEF InTree
  <2> QED BY <1>1, <1>2, <1>4, <1>5, <2>1, <2>2, GoesTo, ReturnsRc, QuietStep
<1>6. CASE /\ loc[t].key > LastKey(nodes[last_leaf].keys) /\ mbptree_node_full(last_leaf)
           /\ Goto(t, "new_leaf") /\ UNCHANGED <<nodes, loc>>
  <2>1. Beyond(nodes, last_leaf, loc[t].key)
    <3>1. nodes[last_leaf].keys \in Seq(Key)
      BY <1>3, ReadyFacts, NodeFacts
    <3>2. \A i, j \in 1 .. Len(nodes[last_leaf].keys) :
            i < j => nodes[last_leaf].keys[i] < nodes[last_leaf].keys[j]
      BY <1>3, ReadyFacts
    <3> QED BY <1>3, <1>6, <3>1, <3>2, LastIsGreatest DEF Beyond
  <2>2. ~ (Len(nodes[last_leaf].keys) < BranchFactor - 1)
    <3>1. Len(nodes[last_leaf].keys) \in Nat
      BY <1>3, ReadyFacts, NodeFacts
    <3> QED BY <1>6, <3>1, KeyFacts DEF mbptree_node_full
  <2>3. InTree(nodes, root, last_leaf, appended, "new_leaf", loc[t])
    BY <1>3, <2>1, <2>2 DEF InTree
  <2> QED BY <1>1, <1>2, <1>4, <1>6, <2>3, GoesTo, QuietStep
<1>7. CASE /\ loc[t].key > LastKey(nodes[last_leaf].keys) /\ ~ mbptree_node_full(last_leaf)
           /\ nodes' = Lengthened(nodes, last_leaf, 0, NULL)
           /\ Goto(t, "store_data") /\ UNCHANGED loc
  <2>1. Len(nodes[last_leaf].keys) < BranchFactor - 1
    <3>1. Len(nodes[last_leaf].keys) \in Nat
      BY <1>3, ReadyFacts, NodeFacts
    <3> QED BY <1>7, <3>1, KeyFacts DEF mbptree_node_full
  <2>2. Storing(nodes', root, last_leaf, appended, loc[t].key) /\ Fits(nodes')
    BY <1>2, <1>3, <1>7, <2>1, TryAppendStores
  <2>3. InTree(nodes', root', last_leaf', appended', "store_data", loc'[t])
    BY <1>4, <1>7, <2>2 DEF InTree
  <2> QED BY <1>1, <1>2, <1>4, <1>7, <2>2, <2>3, GoesTo, IndexStep
<1> QED BY <1>5, <1>6, <1>7, Zenon DEF mbptree_tryappend, Lengthened

LEMMA StoreDataIndex ==
  ASSUME SerialInv, IndexInv, Serialized, NEW t \in Appenders, StoreData(t)
  PROVE  IndexInv'
<1>1. t \in Threads /\ t \notin Finders /\ pc[t] = "store_data" /\ pc[t] # "idle"
  BY TreeAssumption DEF Threads, StoreData, At
<1>2. /\ Only(t) /\ root # NULL /\ Fits(nodes) /\ fault = FALSE
      /\ InTree(nodes, root, last_leaf, appended, "store_data", loc[t])
      /\ DOMAIN loc = Threads /\ DOMAIN loc[t] = Fields /\ DOMAIN pc = Threads
  BY <1>1, InFacts
<1>3. Storing(nodes, root, last_leaf, appended, loc[t].key)
  BY <1>2 DEF InTree
<1>4. /\ nodes' = Stored(nodes, last_leaf, Len(nodes[last_leaf].keys), loc[t].key)
      /\ appended' = Append(appended, loc[t].key) /\ Goto(t, "unlock") /\ UNCHANGED <<root, last_leaf, loc, fault>>
  BY Zenon DEF StoreData, Stored
<1>5. /\ loc[t].key \in Key /\ Ready(nodes', root, last_leaf, appended') /\ Fits(nodes')
  BY <1>3, <1>4, StoreDataReady
<1>6. InTree(nodes', root', last_leaf', appended', "unlock", loc'[t])
  BY <1>4, <1>5 DEF InTree
<1> QED BY <1>1, <1>2, <1>4, <1>5, <1>6, GoesTo, IndexStep

LEMMA UnlockIndex ==
  ASSUME SerialInv, IndexInv, Serialized, NEW t \in Appenders, AppendUnlock(t)
  PROVE  IndexInv'
<1>1. t \in Threads /\ t \notin Finders /\ pc[t] = "unlock" /\ pc[t] # "idle"
  BY TreeAssumption DEF Threads, AppendUnlock, At
<1>2. /\ Only(t) /\ root # NULL /\ InTree(nodes, root, last_leaf, appended, "unlock", loc[t])
      /\ DOMAIN loc = Threads /\ DOMAIN loc[t] = Fields /\ DOMAIN pc = Threads
  BY <1>1, InFacts
<1>3. InTree(nodes, root, last_leaf, appended, "idle", loc[t])
  BY <1>2 DEF InTree
<1>4. Goto(t, "idle") /\ UNCHANGED <<nodes, root, last_leaf, appended, fault, loc>>
  BY DEF AppendUnlock, tree
<1> QED BY <1>1, <1>2, <1>3, <1>4, GoesTo, QuietStep

LEMMA NewRootIndex ==
  ASSUME SerialInv, IndexInv, Serialized, NEW t \in Appenders, mbptree_new_root(t)
  PROVE  IndexInv'
<1>1. t \in Threads /\ t \notin Finders /\ pc[t] = "new_leaf" /\ pc[t] # "idle"
  BY TreeAssumption DEF Threads, mbptree_new_root, At
<1>2. /\ Only(t) /\ root # NULL /\ Fits(nodes) /\ fault = FALSE
      /\ InTree(nodes, root, last_leaf, appended, "new_leaf", loc[t])
      /\ DOMAIN loc = Threads /\ DOMAIN loc[t] = Fields /\ DOMAIN pc = Threads
  BY <1>1, InFacts
<1>3. PICK key, up, new, L : /\ key = loc[t].key /\ up = Cardinality(DOMAIN nodes) + 1
                             /\ new = Cardinality(DOMAIN nodes) + 2 /\ L = last_leaf
  OBVIOUS
<1>4. /\ Ready(nodes, root, L, appended) /\ Beyond(nodes, L, key)
      /\ ~ (Len(nodes[L].keys) < BranchFactor - 1)
  BY <1>2, <1>3 DEF InTree
<1>5. /\ IsNodes(nodes) /\ L \in DOMAIN nodes /\ nodes[L].parent = NULL /\ L = root
  BY <1>3, <1>4, ReadyFacts DEF mbptree_new_root, mbptree_is_root
<1>6. PICK top, leaf : /\ top = [create_node(NULL) EXCEPT !.keys = <<key>>, !.vals = <<L, new>>]
                       /\ leaf = LeafWith(up, key)
  OBVIOUS
<1>7. top = Top(key, L, new) /\ leaf = OneKey(up, key)
  BY <1>6, MadeNode, MadeLeaf DEF Top, OneKey
<1>8. PICK lhs : lhs = Relinked(nodes, L, up, new)
  OBVIOUS
<1>9. /\ nodes' = With(With(lhs, up, top), new, leaf)
      /\ last_leaf' = new /\ root' = up /\ appended' = Append(appended, key)
      /\ Goto(t, "unlock") /\ UNCHANGED <<loc, fault>>
  BY <1>3, <1>6, <1>8, Zenon DEF mbptree_new_root, New, Relinked
<1>10. up \notin DOMAIN nodes /\ new \notin DOMAIN nodes /\ up # new
  <2>1. PICK c \in Nat : DOMAIN nodes = 1 .. c
    BY <1>5 DEF IsNodes
  <2>2. Cardinality(1 .. c) = c
    BY FS_Interval
  <2>3. up = c + 1 /\ new = c + 2
    BY <1>3, <2>1, <2>2
  <2> QED BY <2>1, <2>3
<1>11. nodes' = Attached(NextLeaf(Raised(nodes, L, up), L, new, key), up, new, key)
  <2>1. /\ nodes[L] = Rec(nodes[L].leaf, nodes[L].parent, nodes[L].keys, nodes[L].vals, nodes[L].next)
        /\ nodes = [x \in DOMAIN nodes |-> nodes[x]]
    BY <1>5, NodeFacts, AsFunction
  <2>2. With(With(Relinked(nodes, L, up, new), up, Top(key, L, new)), new, OneKey(up, key))
        = Attached(NextLeaf(Raised(nodes, L, up), L, new, key), up, new, key)
    BY <1>5, <1>10, <2>1, NewRootNodes
  <2> QED BY <1>7, <1>8, <1>9, <2>2
<1>12. Ready(nodes', up, new, Append(appended, key)) /\ Fits(nodes') /\ up # NULL
  BY <1>2, <1>3, <1>4, <1>5, <1>11, NewRootReady
<1>13. key \in Key
  BY <1>4 DEF Beyond
<1>14. InTree(nodes', root', last_leaf', appended', "unlock", loc'[t])
  BY <1>9, <1>12 DEF InTree
<1> QED BY <1>1, <1>2, <1>9, <1>12, <1>13, <1>14, GoesTo, IndexStep

LEMMA NewLeafIndex ==
  ASSUME SerialInv, IndexInv, Serialized, NEW t \in Appenders, mbptree_new_leaf(t)
  PROVE  IndexInv'
<1>1. t \in Threads /\ t \notin Finders /\ pc[t] = "new_leaf" /\ pc[t] # "idle"
  BY TreeAssumption DEF Threads, mbptree_new_leaf, At
<1>2. /\ Only(t) /\ root # NULL /\ Fits(nodes) /\ fault = FALSE
      /\ InTree(nodes, root, last_leaf, appended, "new_leaf", loc[t])
      /\ DOMAIN loc = Threads /\ DOMAIN loc[t] = Fields /\ DOMAIN pc = Threads
  BY <1>1, InFacts
<1>3. PICK key, new, L, p : /\ key = loc[t].key /\ new = Cardinality(DOMAIN nodes) + 1 /\ L = last_leaf
                            /\ p = nodes[L].parent
  OBVIOUS
<1>4. /\ Ready(nodes, root, L, appended) /\ Beyond(nodes, L, key)
      /\ ~ (Len(nodes[L].keys) < BranchFactor - 1)
  BY <1>2, <1>3 DEF InTree
<1>5. /\ IsNodes(nodes) /\ L \in DOMAIN nodes /\ p # NULL
  BY <1>3, <1>4, ReadyFacts DEF mbptree_new_leaf, mbptree_is_root
<1>6. PICK leaf, lhs : leaf = LeafWith(p, key) /\ lhs = LinkedTo(nodes, L, new)
  OBVIOUS
<1>7. leaf = OneKey(nodes[L].parent, key)
  BY <1>3, <1>6, MadeLeaf DEF OneKey
<1>8. /\ nodes' = With(lhs, new, leaf)
      /\ loc' = [loc EXCEPT ![t].leaf = new, ![t].child = new, ![t].node = p]
      /\ Goto(t, "append_node") /\ UNCHANGED <<root, last_leaf, appended, fault>>
  BY <1>3, <1>6, Zenon DEF mbptree_new_leaf, New, Linked, LinkedTo
<1>9. new \notin DOMAIN nodes
  BY <1>3, <1>5, NewNode
<1>10. nodes' = NextLeaf(nodes, L, new, key)
  <2>1. /\ nodes[L] = Rec(nodes[L].leaf, nodes[L].parent, nodes[L].keys, nodes[L].vals, nodes[L].next)
        /\ nodes = [x \in DOMAIN nodes |-> nodes[x]]
    BY <1>5, NodeFacts, AsFunction
  <2>2. With(LinkedTo(nodes, L, new), new, OneKey(nodes[L].parent, key)) = NextLeaf(nodes, L, new, key)
    BY <1>5, <1>9, <2>1, NewLeafNodes
  <2> QED BY <1>6, <1>7, <1>8, <2>2
<1>11. /\ DOMAIN loc' = Threads /\ DOMAIN loc'[t] = Fields /\ (\A u \in Threads : u # t => loc'[u] = loc[u])
       /\ loc'[t].key = key /\ loc'[t].leaf = new /\ loc'[t].child = new /\ loc'[t].node = p
  BY <1>1, <1>2, <1>3, <1>8 DEF Fields
<1>12. PICK l : l = loc'[t]
  OBVIOUS
<1>13. Pending(nodes', root, L, appended, l) /\ Fits(nodes')
  <2>1. l.key = key /\ l.leaf = new /\ l.child = new /\ l.node = nodes[L].parent
    BY <1>3, <1>11, <1>12
  <2> QED BY <1>2, <1>3, <1>4, <1>5, <1>10, <2>1, NewLeafPending
<1>14. InTree(nodes', root', last_leaf', appended', "append_node", loc'[t])
  BY <1>3, <1>8, <1>12, <1>13 DEF InTree
<1> QED BY <1>1, <1>2, <1>8, <1>11, <1>13, <1>14, GoesTo, IndexStep

(* The key that is added to the last leaf is a key. *)
LEMMA PendingKey ==
  ASSUME NEW N, NEW r, NEW L, NEW app, NEW l, Pending(N, r, L, app, l), app \in Seq(Key)
  PROVE  Head(N[l.leaf].keys) \in Key
<1>1. PICK k : k = Head(N[l.leaf].keys)
  OBVIOUS
<1>2. Append(app, k) \in Seq(Key)
  BY <1>1 DEF Pending, Shape, Leaves
<1>3. PICK s : s = Append(app, k)
  OBVIOUS
<1>4. PICK m : m = Len(app)
  OBVIOUS
<1>5. m \in Nat /\ Len(s) = m + 1 /\ s[m + 1] = k
  BY <1>3, <1>4
<1>6. m + 1 \in 1 .. Len(s)
  BY <1>5
<1>7. s[m + 1] \in Key
  BY <1>2, <1>3, <1>6
<1> QED BY <1>1, <1>5, <1>7

LEMMA AppendNodeIndex ==
  ASSUME SerialInv, IndexInv, Serialized, NEW t \in Appenders, mbptree_append_node(t)
  PROVE  IndexInv'
<1>1. t \in Threads /\ t \notin Finders /\ pc[t] = "append_node" /\ pc[t] # "idle"
  BY TreeAssumption DEF Threads, mbptree_append_node, At
<1>2. /\ Only(t) /\ root # NULL /\ Fits(nodes) /\ fault = FALSE
      /\ InTree(nodes, root, last_leaf, appended, "append_node", loc[t])
      /\ DOMAIN loc = Threads /\ DOMAIN loc[t] = Fields /\ DOMAIN pc = Threads
  BY <1>1, InFacts
<1>3. PICK l : l = loc[t]
  OBVIOUS
<1>4. Pending(nodes, root, last_leaf, appended, l)
  BY <1>2, <1>3 DEF InTree
<1>5. /\ nodes' = Lengthened(nodes, l.node, l.key, l.child) /\ last_leaf' = l.leaf
      /\ appended' = Append(appended, Head(nodes[l.leaf].keys)) /\ Goto(t, "unlock")
      /\ ~ mbptree_node_full(l.node) /\ UNCHANGED <<root, loc, fault>>
  BY <1>3, Zenon DEF mbptree_append_node, Appended, Lengthened
<1>6. Len(nodes[l.node].keys) < BranchFactor - 1
  <2>1. IsNodes(nodes) /\ l.node \in DOMAIN nodes
    BY <1>4 DEF Pending, Shape, Family
  <2>2. Len(nodes[l.node].keys) \in Nat
    BY <2>1, NodeFacts
  <2> QED BY <1>5, <2>2, KeyFacts DEF mbptree_node_full
<1>7. Ready(nodes', root, l.leaf, appended') /\ Fits(nodes')
  BY <1>2, <1>4, <1>5, <1>6, AppendNodeReady
<1>8. Head(nodes[l.leaf].keys) \in Key
  BY <1>4, PendingKey DEF IndexInv
<1>9. InTree(nodes', root', last_leaf', appended', "unlock", loc'[t])
  BY <1>5, <1>7 DEF InTree
<1> QED BY <1>1, <1>2, <1>5, <1>7, <1>8, <1>9, GoesTo, IndexStep

LEMMA SplitRootIndex ==
  ASSUME SerialInv, IndexInv, Serialized, NEW t \in Appenders, mbptree_split_root(t)
  PROVE  IndexInv'
<1>1. t \in Threads /\ t \notin Finders /\ pc[t] = "append_node" /\ pc[t] # "idle"
  BY TreeAssumption DEF Threads, mbptree_split_root, At
<1>2. /\ Only(t) /\ root # NULL /\ Fits(nodes) /\ fault = FALSE
      /\ InTree(nodes, root, last_leaf, appended, "append_node", loc[t])
      /\ DOMAIN loc = Threads /\ DOMAIN loc[t] = Fields /\ DOMAIN pc = Threads
  BY <1>1, InFacts
<1>3. PICK l, n, up, new : /\ l = loc[t] /\ n = l.node /\ up = Cardinality(DOMAIN nodes) + 1
                           /\ new = Cardinality(DOMAIN nodes) + 2
  OBVIOUS
<1>4. Pending(nodes, root, last_leaf, appended, l)
  BY <1>2, <1>3 DEF InTree
<1>5. PICK top : top = [create_node(NULL) EXCEPT !.keys = <<MidKey(n)>>, !.vals = <<n, new>>]
  OBVIOUS
<1>6. top = Top(MidKey(n), n, new)
  BY <1>5, MadeNode DEF Top
<1>7. /\ nodes' = With(mbptree_move_half_node(n, new, up, l.key, l.child), up, top)
      /\ root' = up /\ last_leaf' = l.leaf
      /\ appended' = Append(appended, Head(nodes[l.leaf].keys)) /\ Goto(t, "unlock")
      /\ mbptree_node_full(n) /\ nodes[n].parent = NULL /\ UNCHANGED <<loc, fault>>
  BY <1>3, <1>5, Zenon DEF mbptree_split_root, Appended, New, mbptree_is_root
<1>8. ~ (Len(nodes[n].keys) < BranchFactor - 1)
  <2>1. IsNodes(nodes) /\ n \in DOMAIN nodes
    BY <1>3, <1>4 DEF Pending, Shape, Family
  <2>2. Len(nodes[n].keys) \in Nat
    BY <2>1, NodeFacts
  <2> QED BY <1>7, <2>2, KeyFacts DEF mbptree_node_full
<1>9. nodes' = With(mbptree_move_half_node(n, new, up, l.key, l.child), up, Top(MidKey(n), n, new))
  BY <1>6, <1>7
<1>10. Ready(nodes', up, l.leaf, appended') /\ Fits(nodes') /\ up # NULL
  BY <1>2, <1>3, <1>4, <1>7, <1>8, <1>9, SplitRootReady
<1>11. Head(nodes[l.leaf].keys) \in Key
  BY <1>4, PendingKey DEF IndexInv
<1>12. InTree(nodes', root', last_leaf', appended', "unlock", loc'[t])
  BY <1>7, <1>10 DEF InTree
<1> QED BY <1>1, <1>2, <1>7, <1>10, <1>11, <1>12, GoesTo, IndexStep

LEMMA SplitNodeIndex ==
  ASSUME SerialInv, IndexInv, Serialized, NEW t \in Appenders, mbptree_split_node(t)
  PROVE  IndexInv'
<1>1. t \in Threads /\ t \notin Finders /\ pc[t] = "append_node" /\ pc[t] # "idle"
  BY TreeAssumption DEF Threads, mbptree_split_node, At
<1>2. /\ Only(t) /\ root # NULL /\ Fits(nodes) /\ fault = FALSE
      /\ InTree(nodes, root, last_leaf, appended, "append_node", loc[t])
      /\ DOMAIN loc = Threads /\ DOMAIN loc[t] = Fields /\ DOMAIN pc = Threads
  BY <1>1, InFacts
<1>3. PICK l, n, q, new : /\ l = loc[t] /\ n = l.node /\ q = nodes[n].parent
                          /\ new = Cardinality(DOMAIN nodes) + 1
  OBVIOUS
<1>4. Pending(nodes, root, last_leaf, appended, l)
  BY <1>2, <1>3 DEF InTree
<1>5. /\ nodes' = mbptree_move_half_node(n, new, q, l.key, l.child)
      /\ loc' = [loc EXCEPT ![t].key = MidKey(n), ![t].child = new, ![t].node = q]
      /\ mbptree_node_full(n) /\ q # NULL /\ UNCHANGED <<root, last_leaf, pc, appended, fault>>
  BY <1>3, Zenon DEF mbptree_split_node, New, mbptree_is_root
<1>6. ~ (Len(nodes[n].keys) < BranchFactor - 1)
  <2>1. IsNodes(nodes) /\ n \in DOMAIN nodes
    BY <1>3, <1>4 DEF Pending, Shape, Family
  <2>2. Len(nodes[n].keys) \in Nat
    BY <2>1, NodeFacts
  <2> QED BY <1>5, <2>2, KeyFacts DEF mbptree_node_full
<1>7. PICK mid : mid = MidKey(n)
  OBVIOUS
<1>8. /\ DOMAIN loc' = Threads /\ DOMAIN loc'[t] = Fields /\ (\A u \in Threads : u # t => loc'[u] = loc[u])
      /\ loc'[t].key = mid /\ loc'[t].leaf = l.leaf /\ loc'[t].child = new /\ loc'[t].node = q
  BY <1>1, <1>2, <1>3, <1>5, <1>7 DEF Fields
<1>9. PICK l2 : l2 = loc'[t]
  OBVIOUS
<1>10. l2.leaf = l.leaf /\ l2.key = MidKey(n) /\ l2.child = new /\ l2.node = q
  BY <1>7, <1>8, <1>9
<1>11. Pending(nodes', root, last_leaf, appended, l2) /\ Fits(nodes')
  BY <1>2, <1>3, <1>4, <1>5, <1>6, <1>10, SplitNodePending
<1>12. InTree(nodes', root', last_leaf', appended', "append_node", loc'[t])
  BY <1>5, <1>9, <1>11 DEF InTree
<1>13. pc'[t] = "append_node" /\ \A u \in Threads : u # t => pc'[u] = pc[u]
  BY <1>1, <1>5
<1> QED BY <1>1, <1>2, <1>5, <1>8, <1>11, <1>12, <1>13, IndexStep

LEMMA AppenderIndex ==
  ASSUME SerialInv, IndexInv, Serialized, ~ AllocFails, NEW t \in Appenders, AppenderStep(t)
  PROVE  IndexInv'
<1>1. ~ NewLeafFails(t) /\ ~ SplitFails(t)
  BY DEF NewLeafFails, SplitFails
<1> QED BY <1>1, TryAppendIndex, StoreDataIndex, NewRootIndex, NewLeafIndex, AppendNodeIndex,
           SplitRootIndex, SplitNodeIndex, UnlockIndex DEF AppenderStep

-----------------------------------------------------------------------------
(* A call begins when nobody is in the tree. *)
LEMMA CallFacts ==
  ASSUME SerialInv, IndexInv, Serialized, NEW t \in Threads, MayCall(t)
  PROVE  /\ Only(t) /\ root # NULL /\ lock = Free /\ Ready(nodes, root, last_leaf, appended)
         /\ DOMAIN loc = Threads /\ DOMAIN loc[t] = Fields /\ DOMAIN pc = Threads
<1>1. root # NULL /\ \A u \in Threads : pc[u] = "idle"
  BY DEF MayCall
<1>2. DOMAIN pc = Threads /\ lock = Free
  BY <1>1 DEF SerialInv, LockTypes
<1> QED BY <1>1, <1>2 DEF IndexInv, Only

LEMMA AppendIndex ==
  ASSUME SerialInv, IndexInv, Serialized, NEW t \in Appenders, NEW key \in Key, mbptree_append(t, key)
  PROVE  IndexInv'
<1>1. t \in Threads /\ t \notin Finders /\ MayCall(t)
  BY TreeAssumption DEF Threads, mbptree_append
<1>2. /\ Only(t) /\ root # NULL /\ lock = Free /\ Ready(nodes, root, last_leaf, appended)
      /\ DOMAIN loc = Threads /\ DOMAIN loc[t] = Fields /\ DOMAIN pc = Threads
  BY <1>1, CallFacts
<1>3. /\ loc' = [loc EXCEPT ![t] = [Idle(0) EXCEPT !.key = key]] /\ Goto(t, "tryappend")
      /\ UNCHANGED <<nodes, root, last_leaf, appended, fault>>
  BY <1>2 DEF mbptree_append, Unlocked, tree
<1>4. PICK l : l = [Idle(0) EXCEPT !.key = key]
  OBVIOUS
<1>5. DOMAIN l = Fields /\ l.key = key
  BY <1>4 DEF Idle, Fields
<1>6. /\ DOMAIN loc' = Threads /\ loc'[t] = l /\ (\A u \in Threads : u # t => loc'[u] = loc[u])
  BY <1>1, <1>2, <1>3, <1>4
<1>7. InTree(nodes, root, last_leaf, appended, "tryappend", loc'[t])
  BY <1>2, <1>5, <1>6 DEF InTree
<1> QED BY <1>1, <1>2, <1>3, <1>5, <1>6, <1>7, GoesTo, QuietStep

LEMMA LeafFloorIndex ==
  ASSUME SerialInv, IndexInv, Serialized, ~ AllocFails, NEW t \in Finders, NEW key \in Key,
         mbptree_leaf_floor(t, key)
  PROVE  IndexInv'
<1>1. t \in Threads /\ MayCall(t)
  BY DEF Threads, mbptree_leaf_floor
<1>2. /\ Only(t) /\ root # NULL /\ lock = Free /\ Ready(nodes, root, last_leaf, appended)
      /\ DOMAIN loc = Threads /\ DOMAIN loc[t] = Fields /\ DOMAIN pc = Threads
  BY <1>1, CallFacts
<1>3. /\ loc' = [loc EXCEPT ![t] = [Idle(0) EXCEPT !.key = key, !.old = lock, !.seen = Len(appended)]]
      /\ Goto(t, "lock") /\ UNCHANGED <<nodes, root, last_leaf, appended, fault>>
  BY DEF mbptree_leaf_floor, tree
<1>4. PICK l : l = [Idle(0) EXCEPT !.key = key, !.old = lock, !.seen = Len(appended)]
  OBVIOUS
<1>5. DOMAIN l = Fields /\ l.key = key /\ l.seen = Len(appended)
  BY <1>4 DEF Idle, Fields
<1>6. /\ DOMAIN loc' = Threads /\ loc'[t] = l /\ (\A u \in Threads : u # t => loc'[u] = loc[u])
  BY <1>1, <1>2, <1>3, <1>4
<1>7. InTree(nodes, root, last_leaf, appended, "lock", loc'[t])
  BY <1>2, <1>5, <1>6 DEF InTree
<1> QED BY <1>1, <1>2, <1>3, <1>5, <1>6, <1>7, GoesTo, QuietStep

LEMMA FloorLockIndex ==
  ASSUME SerialInv, IndexInv, Serialized, NEW t \in Finders, FloorLock(t)
  PROVE  IndexInv'
<1>1. t \in Threads /\ pc[t] = "lock" /\ pc[t] # "idle"
  BY DEF Threads, FloorLock, At
<1>2. /\ Only(t) /\ root # NULL /\ InTree(nodes, root, last_leaf, appended, "lock", loc[t])
      /\ DOMAIN loc = Threads /\ DOMAIN loc[t] = Fields /\ DOMAIN pc = Threads
  BY <1>1, InFacts
<1>3. lock = [loc[t].old EXCEPT !.exclusive = 0]
  <2>1. loc[t].old = Free /\ lock = Word("lock")
    BY <1>1 DEF SerialInv
  <2>2. lock = Free
    BY <2>1 DEF Word, HoldingLabels, InsideLabels
  <2>3. [Free EXCEPT !.exclusive = 0] = Free
    BY DEF Free
  <2> QED BY <2>1, <2>2, <2>3
<1>4. Goto(t, "root") /\ UNCHANGED <<nodes, root, last_leaf, appended, fault, loc>>
  BY <1>3, Zenon DEF FloorLock, tree
<1>5. InTree(nodes, root, last_leaf, appended, "root", loc[t])
  BY <1>2 DEF InTree
<1> QED BY <1>1, <1>2, <1>4, <1>5, GoesTo, QuietStep

LEMMA FindRootIndex ==
  ASSUME SerialInv, IndexInv, Serialized, NEW t \in Finders, FindRoot(t)
  PROVE  IndexInv'
<1>1. t \in Threads /\ pc[t] = "root" /\ pc[t] # "idle"
  BY DEF Threads, FindRoot, At
<1>2. /\ Only(t) /\ root # NULL /\ InTree(nodes, root, last_leaf, appended, "root", loc[t])
      /\ DOMAIN loc = Threads /\ DOMAIN loc[t] = Fields /\ DOMAIN pc = Threads
  BY <1>1, InFacts
<1>3. loc' = [loc EXCEPT ![t].node = root] /\ Goto(t, "find_leaf")
      /\ UNCHANGED <<nodes, root, last_leaf, appended, fault>>
  BY DEF FindRoot, tree
<1>4. /\ DOMAIN loc' = Threads /\ DOMAIN loc'[t] = Fields /\ (\A u \in Threads : u # t => loc'[u] = loc[u])
      /\ loc'[t].node = root /\ loc'[t].key = loc[t].key /\ loc'[t].seen = loc[t].seen
  BY <1>1, <1>2, <1>3 DEF Fields
<1>5. PICK l : l = loc'[t]
  OBVIOUS
<1>6. /\ Ready(nodes, root, last_leaf, appended) /\ l.key \in Key /\ l.seen = Len(appended)
      /\ l.node = root
  BY <1>2, <1>4, <1>5 DEF InTree
<1>7. Located(nodes, root, last_leaf, appended, l)
  BY <1>6, RootLocated
<1>8. InTree(nodes, root, last_leaf, appended, "find_leaf", loc'[t])
  BY <1>5, <1>6, <1>7 DEF InTree
<1> QED BY <1>1, <1>2, <1>3, <1>4, <1>8, GoesTo, QuietStep

LEMMA FindLeafIndex ==
  ASSUME SerialInv, IndexInv, Serialized, NEW t \in Finders, mbptree_find_leaf(t)
  PROVE  IndexInv'
<1>1. t \in Threads /\ pc[t] = "find_leaf" /\ pc[t] # "idle"
  BY DEF Threads, mbptree_find_leaf, At
<1>2. /\ Only(t) /\ root # NULL /\ InTree(nodes, root, last_leaf, appended, "find_leaf", loc[t])
      /\ DOMAIN loc = Threads /\ DOMAIN loc[t] = Fields /\ DOMAIN pc = Threads
  BY <1>1, InFacts
<1>3. UNCHANGED <<nodes, root, last_leaf, appended, fault>>
  BY DEF mbptree_find_leaf, tree
<1>4. PICK l, n, i : l = loc[t] /\ n = l.node /\ i = Turn(nodes[n].keys, l.key)
  OBVIOUS
<1>5. /\ Ready(nodes, root, last_leaf, appended) /\ Located(nodes, root, last_leaf, appended, l)
      /\ l.key \in Key /\ l.seen = Len(appended)
  BY <1>2, <1>4 DEF InTree
<1>6. \/ nodes[n].leaf /\ Goto(t, "load_shared") /\ UNCHANGED loc
      \/ ~ nodes[n].leaf /\ loc' = [loc EXCEPT ![t].node = nodes[n].vals[i]] /\ UNCHANGED pc
  BY <1>4, Zenon DEF mbptree_find_leaf, Turn
<1>7. CASE nodes[n].leaf /\ Goto(t, "load_shared") /\ UNCHANGED loc
  <2>1. InTree(nodes, root, last_leaf, appended, "load_shared", loc[t])
    BY <1>4, <1>5, <1>7 DEF InTree
  <2> QED BY <1>1, <1>2, <1>3, <1>7, <2>1, GoesTo, QuietStep
<1>8. CASE ~ nodes[n].leaf /\ loc' = [loc EXCEPT ![t].node = nodes[n].vals[i]] /\ UNCHANGED pc
  <2>1. PICK v : v = nodes[n].vals[i]
    OBVIOUS
  <2>2. /\ DOMAIN loc' = Threads /\ DOMAIN loc'[t] = Fields /\ (\A u \in Threads : u # t => loc'[u] = loc[u])
        /\ loc'[t].node = v /\ loc'[t].key = l.key /\ loc'[t].seen = l.seen
    BY <1>1, <1>2, <1>4, <1>8, <2>1 DEF Fields
  <2>3. PICK l2 : l2 = loc'[t]
    OBVIOUS
  <2>4. l2.key = l.key /\ l2.node = nodes[l.node].vals[Turn(nodes[l.node].keys, l.key)] /\ l2.seen = l.seen
    BY <1>4, <2>1, <2>2, <2>3
  <2>5. Located(nodes, root, last_leaf, appended, l2)
    BY <1>4, <1>5, <1>8, <2>4, DescendLocated
  <2>6. InTree(nodes, root, last_leaf, appended, "find_leaf", loc'[t])
    BY <1>5, <2>3, <2>4, <2>5 DEF InTree
  <2>7. pc'[t] = "find_leaf" /\ \A u \in Threads : u # t => pc'[u] = pc[u]
    BY <1>1, <1>8
  <2> QED BY <1>1, <1>2, <1>3, <2>2, <2>6, <2>7, QuietStep
<1> QED BY <1>6, <1>7, <1>8

LEMMA LoadSharedIndex ==
  ASSUME SerialInv, IndexInv, Serialized, NEW t \in Finders, LoadShared(t)
  PROVE  IndexInv'
<1>1. t \in Threads /\ pc[t] = "load_shared" /\ pc[t] # "idle"
  BY DEF Threads, LoadShared, At
<1>2. /\ Only(t) /\ root # NULL /\ InTree(nodes, root, last_leaf, appended, "load_shared", loc[t])
      /\ DOMAIN loc = Threads /\ DOMAIN loc[t] = Fields /\ DOMAIN pc = Threads
  BY <1>1, InFacts
<1>3. loc' = [loc EXCEPT ![t].old = lock] /\ Goto(t, "store_shared")
      /\ UNCHANGED <<nodes, root, last_leaf, appended, fault>>
  BY DEF LoadShared, tree
<1>4. /\ DOMAIN loc' = Threads /\ DOMAIN loc'[t] = Fields /\ (\A u \in Threads : u # t => loc'[u] = loc[u])
      /\ loc'[t].node = loc[t].node /\ loc'[t].key = loc[t].key /\ loc'[t].seen = loc[t].seen
  BY <1>1, <1>2, <1>3 DEF Fields
<1>5. Located(nodes, root, last_leaf, appended, loc'[t])
  <2>1. Located(nodes, root, last_leaf, appended, loc[t])
    BY <1>2 DEF InTree
  <2> QED BY <1>4, <2>1 DEF Located
<1>6. InTree(nodes, root, last_leaf, appended, "store_shared", loc'[t])
  BY <1>2, <1>4, <1>5 DEF InTree
<1> QED BY <1>1, <1>2, <1>3, <1>4, <1>6, GoesTo, QuietStep

LEMMA StoreSharedIndex ==
  ASSUME SerialInv, IndexInv, Serialized, NEW t \in Finders, StoreShared(t)
  PROVE  IndexInv'
<1>1. t \in Threads /\ pc[t] = "store_shared" /\ pc[t] # "idle"
  BY DEF Threads, StoreShared, At
<1>2. /\ Only(t) /\ root # NULL /\ InTree(nodes, root, last_leaf, appended, "store_shared", loc[t])
      /\ DOMAIN loc = Threads /\ DOMAIN loc[t] = Fields /\ DOMAIN pc = Threads
  BY <1>1, InFacts
<1>3. Goto(t, "scan") /\ UNCHANGED <<nodes, root, last_leaf, appended, fault, loc>>
  BY DEF StoreShared, tree
<1>4. InTree(nodes, root, last_leaf, appended, "scan", loc[t])
  BY <1>2 DEF InTree
<1> QED BY <1>1, <1>2, <1>3, <1>4, GoesTo, QuietStep

LEMMA ScanLeafIndex ==
  ASSUME SerialInv, IndexInv, Serialized, NEW t \in Finders, ScanLeaf(t)
  PROVE  IndexInv'
<1>1. t \in Threads /\ pc[t] = "scan" /\ pc[t] # "idle"
  BY DEF Threads, ScanLeaf, At
<1>2. /\ Only(t) /\ root # NULL /\ InTree(nodes, root, last_leaf, appended, "scan", loc[t])
      /\ DOMAIN loc = Threads /\ DOMAIN loc[t] = Fields /\ DOMAIN pc = Threads
  BY <1>1, InFacts
<1>3. PICK l, U, v, c : /\ l = loc[t] /\ U = Upto(nodes[l.node].keys, l.key) /\ c = Cardinality(U)
                        /\ v = IF U = {} THEN NULL ELSE nodes[l.node].vals[Max(U)]
  OBVIOUS
<1>4. /\ Ready(nodes, root, last_leaf, appended) /\ Located(nodes, root, last_leaf, appended, l)
      /\ l.key \in Key /\ l.seen = Len(appended) /\ nodes[l.node].leaf
  BY <1>2, <1>3 DEF InTree
<1>5. /\ loc' = [loc EXCEPT ![t].child = v, ![t].rc = c] /\ Goto(t, "idle")
      /\ UNCHANGED <<nodes, root, last_leaf, appended, fault>>
  BY <1>3, Zenon DEF ScanLeaf, Upto, tree
<1>6. /\ DOMAIN loc' = Threads /\ DOMAIN loc'[t] = Fields /\ (\A u \in Threads : u # t => loc'[u] = loc[u])
      /\ loc'[t].child = v /\ loc'[t].key = l.key /\ loc'[t].seen = l.seen
  BY <1>1, <1>2, <1>3, <1>5 DEF Fields
<1>7. v = FloorIn(appended, Len(appended), l.key)
  <2>1. (IF Upto(nodes[l.node].keys, l.key) = {} THEN NULL
         ELSE nodes[l.node].vals[Max(Upto(nodes[l.node].keys, l.key))])
        = (IF Below(appended, Len(appended), l.key) = {} THEN NULL
           ELSE Max(Below(appended, Len(appended), l.key)))
    BY <1>4, ScanFinds, Zenon
  <2> QED BY <1>3, <2>1, Zenon DEF FloorIn
<1>8. FloorAt(appended, loc'[t])
  <2>1. Len(appended) \in Nat
    BY DEF IndexInv
  <2>2. Len(appended) \in Len(appended) .. Len(appended)
    BY <2>1
  <2> QED BY <1>4, <1>6, <1>7, <2>1, <2>2 DEF FloorAt
<1>9. InTree(nodes, root, last_leaf, appended, "idle", loc'[t])
  BY <1>4 DEF InTree
<1> QED BY <1>1, <1>2, <1>5, <1>6, <1>8, <1>9, GoesTo, QuietStep

LEMMA FinderIndex ==
  ASSUME SerialInv, IndexInv, Serialized, NEW t \in Finders, FinderStep(t)
  PROVE  IndexInv'
BY FloorLockIndex, FindRootIndex, FindLeafIndex, LoadSharedIndex, StoreSharedIndex, ScanLeafIndex
   DEF FinderStep

LEMMA FreeIndex ==
  ASSUME IndexInv, mbptree_free
  PROVE  IndexInv'
<1>1. root' = NULL /\ UNCHANGED <<pc, loc, appended>> /\ \A t \in Threads : pc[t] = "idle"
  BY DEF mbptree_free, At
<1> QED BY <1>1 DEF IndexInv

LEMMA KeptIndex ==
  ASSUME IndexInv, UNCHANGED vars
  PROVE  IndexInv'
BY DEF IndexInv, vars, tree

(* The keys that are offered. *)
LEMMA OfferedKey ==
  ASSUME appended \in Seq(Key)
  PROVE  /\ Len(appended) < MaxKeys => 2 * (Len(appended) + 1) \in Key
         /\ appended # <<>> => LastKey(appended) \in Key
<1>1. PICK m : m = Len(appended)
  OBVIOUS
<1>2. m \in Nat /\ MaxKeys \in Nat
  BY <1>1, TreeAssumption
<1>3. m < MaxKeys => 2 * (m + 1) \in Key
  BY <1>2 DEF Key
<1>4. appended # <<>> => LastKey(appended) \in Key
  <2>1. ASSUME appended # <<>> PROVE LastKey(appended) \in Key
    <3>1. m \in 1 .. m
      BY <1>1, <1>2, <2>1
    <3>2. appended[m] \in Key
      BY <1>1, <3>1
    <3> QED BY <1>1, <2>1, <3>2 DEF LastKey, Last
  <2> QED BY <2>1
<1> QED BY <1>1, <1>3, <1>4

LEMMA NextIndex ==
  ASSUME SerialInv, IndexInv, Serialized, ~ AllocFails, [Next]_vars
  PROVE  IndexInv'
<1>1. appended \in Seq(Key)
  BY DEF IndexInv
<1>2. ASSUME NEW t \in Appenders, Len(appended) < MaxKeys, mbptree_append(t, 2 * (Len(appended) + 1))
      PROVE  IndexInv'
  <2>1. PICK k : k = 2 * (Len(appended) + 1)
    OBVIOUS
  <2>2. k \in Key /\ mbptree_append(t, k)
    BY <1>1, <1>2, <2>1, OfferedKey
  <2> QED BY <2>2, AppendIndex
<1>3. ASSUME NEW t \in Appenders, appended # <<>>, mbptree_append(t, LastKey(appended))
      PROVE  IndexInv'
  BY <1>1, <1>3, OfferedKey, AppendIndex
<1>4. ASSUME NEW t \in Finders, NEW key \in 0 .. 2 * MaxKeys + 1, mbptree_leaf_floor(t, key)
      PROVE  IndexInv'
  <2>1. key \in Key
    BY DEF Key
  <2> QED BY <1>4, <2>1, LeafFloorIndex
<1> QED BY <1>2, <1>3, <1>4, AppenderIndex, FinderIndex, FreeIndex, KeptIndex DEF Next

-----------------------------------------------------------------------------
(* What follows from the invariant. *)
LEMMA IndexSpec ==
  ASSUME Serialized, ~ AllocFails, IsFiniteSet(Finders) PROVE Spec => [](SerialInv /\ IndexInv)
<1>1. Init => SerialInv /\ IndexInv
  BY InitSerial, InitIndex
<1>2. SerialInv /\ IndexInv /\ [Next]_vars => SerialInv' /\ IndexInv'
  BY NextSerial, NextIndex
<1> QED BY <1>1, <1>2, PTL DEF Spec

(* mbptree_leaf_floor, called under a mutex, returns the greatest of the   *)
(* appended keys that is at most the one it is given, whatever splits of   *)
(* leaves, nodes and root made the tree.                                   *)
THEOREM FloorFound ==
  ASSUME Serialized, ~ AllocFails, IsFiniteSet(Finders) PROVE Spec => []FloorCorrect
<1>1. IndexInv => FloorCorrect
  <2> SUFFICES ASSUME IndexInv, NEW t \in Finders, pc[t] = "idle", loc[t].rc >= 0
               PROVE  \E n \in loc[t].seen .. Len(appended) : loc[t].child = FloorOf(n, loc[t].key)
    BY DEF FloorCorrect
  <2>1. FloorAt(appended, loc[t])
    BY DEF IndexInv
  <2>2. \A n : FloorIn(appended, n, loc[t].key) = FloorOf(n, loc[t].key)
    BY Zenon DEF FloorIn, FloorOf, Below
  <2> QED BY <2>1, <2>2 DEF FloorAt
<1> QED BY <1>1, IndexSpec, PTL

(* Between calls every leaf is equally far from the root, and the parent   *)
(* pointers that the next split will follow lead to the nodes that have    *)
(* the children.                                                           *)
THEOREM TreeBalanced ==
  ASSUME Serialized, ~ AllocFails, IsFiniteSet(Finders) PROVE Spec => []Balanced
<1>1. IndexInv => Balanced
  BY ReadyBalanced DEF IndexInv, Quiescent, Balanced
<1> QED BY <1>1, IndexSpec, PTL

(* Between calls the links from the first leaf lead through all the keys,  *)
(* in the order in which they were appended: mqlog_close closes every      *)
(* segment.                                                                *)
THEOREM LinksComplete ==
  ASSUME Serialized, ~ AllocFails, IsFiniteSet(Finders) PROVE Spec => []IterationComplete
<1>1. IndexInv => IterationComplete
  BY ReadyIteration DEF IndexInv, Quiescent, IterationComplete
<1> QED BY <1>1, IndexSpec, PTL

-----------------------------------------------------------------------------
(* The freeing of the tree.  mbptree_free_node is recursive: freed[n] is   *)
(* what the children's freed[] make, one after the other, and n.  In a     *)
(* Tree (every node but the root is the child of one node, and each path   *)
(* up has one node of each height) the recursion has one solution, by      *)
(* height, and the solution for the root has every node once.              *)
(* FlattenSeq appends the sequences one after the other: F[i] is what the  *)
(* first i of them give.                                                   *)
LEMMA FlattenIs ==
  ASSUME NEW S, NEW ss \in Seq(Seq(S)), Len(ss) # 0
  PROVE  \E F \in [1 .. Len(ss) -> Seq(S)] :
           /\ F[1] = ss[1] /\ FlattenSeq(ss) = F[Len(ss)]
           /\ \A i \in 1 .. Len(ss) : i # 1 => F[i] = F[i - 1] \o ss[i]
<1>1. PICK c : c = Len(ss)
  OBVIOUS
<1>2. c \in Nat /\ c >= 1 /\ \A i \in 1 .. c : ss[i] \in Seq(S)
  BY <1>1
<1> DEFINE Is(F, k) == /\ F[1] = ss[1]
                       /\ \A i \in 1 .. k : i # 1 => F[i] = F[i - 1] \o ss[i]
           Bad == {k \in 1 .. c : ~ \E F \in [1 .. c -> Seq(S)] : Is(F, k)}
<1>3. Bad = {}
  <2> SUFFICES ASSUME Bad # {} PROVE FALSE
    OBVIOUS
  <2>1. Bad \subseteq Nat
    <3>1. Bad \subseteq 1 .. c
      BY Zenon
    <3> HIDE DEF Bad
    <3> QED BY <1>2, <3>1
  <2>2. PICK k \in Bad : \A j \in Bad : k <= j
    <3> HIDE DEF Bad
    <3> QED BY <2>1, LeastOf
  <2>3. k \in 1 .. c /\ ~ \E F \in [1 .. c -> Seq(S)] : Is(F, k)
    OBVIOUS
  <2>4. CASE k = 1
    <3>1. [i \in 1 .. c |-> ss[i]] \in [1 .. c -> Seq(S)]
      BY <1>2
    <3>2. Is([i \in 1 .. c |-> ss[i]], 1)
      BY <1>2
    <3> QED BY <2>3, <2>4, <3>1, <3>2
  <2>5. CASE k # 1
    <3>1. k - 1 \in 1 .. c /\ k - 1 \notin Bad
      <4>1. k - 1 \in 1 .. c /\ ~ (k <= k - 1)
        BY <1>2, <2>3, <2>5
      <4> HIDE DEF Bad
      <4> QED BY <2>2, <4>1
    <3>2. PICK F \in [1 .. c -> Seq(S)] : Is(F, k - 1)
      BY <3>1
    <3>3. PICK v : v = F[k - 1] \o ss[k]
      OBVIOUS
    <3>4. v \in Seq(S)
      <4>1. F[k - 1] \in Seq(S) /\ ss[k] \in Seq(S)
        BY <1>2, <2>3, <3>1, <3>2
      <4> QED BY <3>3, <4>1, ConcatProperties
    <3>5. PICK G : G = [F EXCEPT ![k] = v]
      OBVIOUS
    <3>6. G \in [1 .. c -> Seq(S)] /\ G[k] = v /\ \A i \in 1 .. c : i # k => G[i] = F[i]
      BY <2>3, <3>2, <3>4, <3>5
    <3>7. ASSUME NEW i \in 1 .. k, i # 1 PROVE G[i] = G[i - 1] \o ss[i]
      <4>1. k \in Nat /\ k <= c /\ i - 1 \in 1 .. c /\ i - 1 # k /\ G[i - 1] = F[i - 1]
        BY <1>2, <2>3, <3>6, <3>7
      <4>2. CASE i = k
        BY <3>3, <3>6, <4>1, <4>2
      <4>3. CASE i # k
        <5>1. i \in 1 .. k - 1 /\ i \in 1 .. c
          BY <1>2, <4>1, <4>3
        <5> QED BY <3>2, <3>6, <3>7, <4>1, <4>3, <5>1
      <4> QED BY <4>2, <4>3
    <3>8. G[1] = ss[1]
      BY <1>2, <2>5, <3>2, <3>6
    <3> QED BY <2>3, <3>6, <3>7, <3>8
  <2> QED BY <2>4, <2>5
<1>4. PICK F \in [1 .. c -> Seq(S)] : Is(F, c)
  <2>1. c \in 1 .. c
    BY <1>2
  <2> QED BY <1>3, <2>1
<1>5. ASSUME NEW G, G = [i \in 1 .. c |-> IF i = 1 THEN ss[i] ELSE G[i - 1] \o ss[i]]
      PROVE  G = F
  <2>1. DOMAIN G = 1 .. c /\ (\A i \in 1 .. c : G[i] = IF i = 1 THEN ss[i] ELSE G[i - 1] \o ss[i])
    BY <1>5
  <2> DEFINE Differ == {i \in 1 .. c : G[i] # F[i]}
  <2>2. Differ = {}
    <3> SUFFICES ASSUME Differ # {} PROVE FALSE
      OBVIOUS
    <3>1. Differ \subseteq Nat
      OBVIOUS
    <3>2. PICK i \in Differ : \A j \in Differ : i <= j
      <4> HIDE DEF Differ
      <4> QED BY <3>1, LeastOf
    <3>3. i \in 1 .. c /\ G[i] # F[i]
      OBVIOUS
    <3>4. CASE i = 1
      BY <1>4, <2>1, <3>3, <3>4
    <3>5. CASE i # 1
      <4>1. i - 1 \in 1 .. c /\ ~ (i <= i - 1)
        BY <1>2, <3>3, <3>5
      <4>2. i - 1 \notin Differ
        <5> HIDE DEF Differ
        <5> QED BY <3>2, <4>1
      <4>3. G[i - 1] = F[i - 1]
        BY <4>1, <4>2
      <4>4. G[i] = G[i - 1] \o ss[i] /\ F[i] = F[i - 1] \o ss[i]
        BY <1>4, <2>1, <3>3, <3>5
      <4> QED BY <3>3, <4>3, <4>4
    <3> QED BY <3>4, <3>5
  <2>3. \A i \in 1 .. c : G[i] = F[i]
    BY <2>2
  <2> HIDE DEF Differ
  <2>4. F = [i \in 1 .. c |-> F[i]] /\ G = [i \in 1 .. c |-> G[i]]
    BY <1>4, <1>5
  <2> QED BY <2>3, <2>4
<1>6. F = [i \in 1 .. c |-> IF i = 1 THEN ss[i] ELSE F[i - 1] \o ss[i]]
  <2>1. PICK E : E = [i \in 1 .. c |-> IF i = 1 THEN ss[i] ELSE F[i - 1] \o ss[i]]
    OBVIOUS
  <2>2. \A i \in 1 .. c : E[i] = F[i]
    BY <1>2, <1>4, <2>1
  <2>3. DOMAIN E = 1 .. c
    BY <2>1
  <2> QED BY <1>4, <2>1, <2>2, <2>3
<1>7. FlattenSeq(ss) = F[c]
  <2>1. PICK E : E = CHOOSE G : G = [i \in 1 .. c |-> IF i = 1 THEN ss[i] ELSE G[i - 1] \o ss[i]]
    OBVIOUS
  <2>2. E = [i \in 1 .. c |-> IF i = 1 THEN ss[i] ELSE E[i - 1] \o ss[i]]
    BY <1>6, <2>1, Zenon
  <2>3. E = F
    BY <1>5, <2>2
  <2>4. FlattenSeq(ss) = E[c]
    BY <1>1, <2>1 DEF FlattenSeq
  <2> QED BY <2>3, <2>4
<1> QED BY <1>1, <1>4, <1>7

Once(s) == \A i, j \in 1 .. Len(s) : s[i] = s[j] => i = j

LEMMA Joined ==
  ASSUME NEW S, NEW a \in Seq(S), NEW b \in Seq(S)
  PROVE  /\ a \o b \in Seq(S)
         /\ ToSet(a \o b) = ToSet(a) \cup ToSet(b)
         /\ Once(a) /\ Once(b) /\ ToSet(a) \cap ToSet(b) = {} => Once(a \o b)
<1>1. PICK v, m, n : v = a \o b /\ m = Len(a) /\ n = Len(b)
  OBVIOUS
<1>2. m \in Nat /\ n \in Nat /\ v \in Seq(S) /\ Len(v) = m + n
  BY <1>1, ConcatProperties
<1>3. \A i \in 1 .. m + n : v[i] = IF i <= m THEN a[i] ELSE b[i - m]
  BY <1>1, ConcatProperties
<1>4. DOMAIN v = 1 .. m + n /\ DOMAIN a = 1 .. m /\ DOMAIN b = 1 .. n
  BY <1>1, <1>2
<1>5. \A i \in 1 .. m : i \in 1 .. m + n /\ v[i] = a[i]
  BY <1>2, <1>3
<1>6. \A i \in 1 .. n : m + i \in 1 .. m + n /\ v[m + i] = b[i]
  <2>1. \A i \in 1 .. n : m + i \in 1 .. m + n /\ ~ (m + i <= m) /\ (m + i) - m = i
    BY <1>2
  <2> QED BY <1>3, <2>1
<1>7. \A i \in 1 .. m + n : i \in 1 .. m \/ (i - m \in 1 .. n /\ v[i] = b[i - m] /\ ~ (i <= m))
  <2>1. \A i \in 1 .. m + n : i \in 1 .. m \/ (i - m \in 1 .. n /\ ~ (i <= m))
    BY <1>2
  <2> QED BY <1>3, <2>1
<1>8. \A x : x \in ToSet(v) <=> x \in ToSet(a) \/ x \in ToSet(b)
  <2>1. ASSUME NEW x, x \in ToSet(v) PROVE x \in ToSet(a) \/ x \in ToSet(b)
    <3>1. PICK i \in 1 .. m + n : x = v[i]
      BY <1>4, <2>1 DEF ToSet
    <3>2. CASE i \in 1 .. m
      BY <1>4, <1>5, <3>1, <3>2 DEF ToSet
    <3>3. CASE i - m \in 1 .. n /\ v[i] = b[i - m]
      BY <1>4, <3>1, <3>3 DEF ToSet
    <3> QED BY <1>7, <3>2, <3>3
  <2>2. ASSUME NEW x, x \in ToSet(a) PROVE x \in ToSet(v)
    <3>1. PICK i \in 1 .. m : x = a[i]
      BY <1>4, <2>2 DEF ToSet
    <3> QED BY <1>4, <1>5, <3>1 DEF ToSet
  <2>3. ASSUME NEW x, x \in ToSet(b) PROVE x \in ToSet(v)
    <3>1. PICK i \in 1 .. n : x = b[i]
      BY <1>4, <2>3 DEF ToSet
    <3> QED BY <1>4, <1>6, <3>1 DEF ToSet
  <2> QED BY <2>1, <2>2, <2>3
<1>9. ASSUME Once(a), Once(b), ToSet(a) \cap ToSet(b) = {} PROVE Once(v)
  <2> SUFFICES ASSUME NEW i \in 1 .. m + n, NEW j \in 1 .. m + n, v[i] = v[j] PROVE i = j
    BY <1>2 DEF Once
  <2>1. \A k \in 1 .. m, l \in 1 .. n : a[k] # b[l]
    BY <1>4, <1>9 DEF ToSet
  <2>2. /\ \A k, l \in 1 .. m : a[k] = a[l] => k = l
        /\ \A k, l \in 1 .. n : b[k] = b[l] => k = l
    BY <1>1, <1>9 DEF Once
  <2>3. CASE i \in 1 .. m /\ j \in 1 .. m
    BY <1>5, <2>2, <2>3
  <2>4. CASE ~ (i \in 1 .. m) /\ ~ (j \in 1 .. m)
    <3>1. i - m = j - m
      BY <1>7, <2>2, <2>4
    <3> QED BY <1>2, <3>1
  <2>5. CASE i \in 1 .. m /\ ~ (j \in 1 .. m)
    <3>1. j - m \in 1 .. n /\ v[j] = b[j - m] /\ v[i] = a[i]
      BY <1>5, <1>7, <2>5
    <3> QED BY <2>1, <2>5, <3>1
  <2>6. CASE ~ (i \in 1 .. m) /\ j \in 1 .. m
    <3>1. i - m \in 1 .. n /\ v[i] = b[i - m] /\ v[j] = a[j]
      BY <1>5, <1>7, <2>6
    <3> QED BY <2>1, <2>6, <3>1
  <2> QED BY <2>3, <2>4, <2>5, <2>6
<1> QED BY <1>1, <1>2, <1>8, <1>9

LEMMA FlattenFacts ==
  ASSUME NEW S, NEW ss \in Seq(Seq(S))
  PROVE  /\ FlattenSeq(ss) \in Seq(S)
         /\ \A x : x \in ToSet(FlattenSeq(ss)) <=> \E i \in 1 .. Len(ss) : x \in ToSet(ss[i])
         /\ /\ \A i \in 1 .. Len(ss) : Once(ss[i])
            /\ \A i, j \in 1 .. Len(ss) : i # j => ToSet(ss[i]) \cap ToSet(ss[j]) = {}
            => Once(FlattenSeq(ss))
<1>1. CASE Len(ss) = 0
  <2>1. FlattenSeq(ss) = ss /\ ss = <<>>
    BY <1>1, EmptySeq DEF FlattenSeq
  <2>2. <<>> \in Seq(S) /\ ToSet(<<>>) = {} /\ Once(<<>>)
    BY DEF ToSet, Once
  <2> QED BY <1>1, <2>1, <2>2
<1>2. CASE Len(ss) # 0
  <2>1. PICK c : c = Len(ss)
    OBVIOUS
  <2>2. c \in Nat /\ c >= 1 /\ \A i \in 1 .. c : ss[i] \in Seq(S)
    BY <1>2, <2>1
  <2>3. PICK F \in [1 .. c -> Seq(S)] :
           /\ F[1] = ss[1] /\ FlattenSeq(ss) = F[c]
           /\ \A i \in 1 .. c : i # 1 => F[i] = F[i - 1] \o ss[i]
    BY <1>2, <2>1, FlattenIs
  <2> DEFINE Apart == /\ \A i \in 1 .. c : Once(ss[i])
                      /\ \A i, j \in 1 .. c : i # j => ToSet(ss[i]) \cap ToSet(ss[j]) = {}
             Good(k) == /\ \A x : x \in ToSet(F[k]) <=> \E i \in 1 .. k : x \in ToSet(ss[i])
                        /\ Apart => Once(F[k])
             Bad == {k \in 1 .. c : ~ Good(k)}
  <2>4. Good(1)
    <3>1. \A i : i \in 1 .. 1 <=> i = 1
      OBVIOUS
    <3>2. 1 \in 1 .. c
      BY <2>2
    <3> QED BY <2>3, <3>1, <3>2
  <2>5. ASSUME NEW k \in 2 .. c, Good(k - 1) PROVE Good(k)
    <3>1. k \in Nat /\ k - 1 \in 1 .. c /\ k \in 1 .. c /\ k # 1
      BY <2>2
    <3>2. PICK a, b, v : a = F[k - 1] /\ b = ss[k] /\ v = F[k]
      OBVIOUS
    <3>3. a \in Seq(S) /\ b \in Seq(S) /\ v = a \o b
      BY <2>2, <2>3, <3>1, <3>2
    <3>4. ToSet(v) = ToSet(a) \cup ToSet(b)
      BY <3>3, Joined
    <3>5. \A i : i \in 1 .. k <=> i = k \/ i \in 1 .. k - 1
      BY <3>1
    <3>6. \A x : x \in ToSet(a) <=> \E i \in 1 .. k - 1 : x \in ToSet(ss[i])
      BY <2>5, <3>2
    <3>7. \A x : x \in ToSet(v) <=> \E i \in 1 .. k : x \in ToSet(ss[i])
      <4>1. ASSUME NEW x, x \in ToSet(v) PROVE \E i \in 1 .. k : x \in ToSet(ss[i])
        <5>1. CASE x \in ToSet(a)
          BY <3>5, <3>6, <5>1
        <5>2. CASE x \in ToSet(b)
          BY <3>2, <3>5, <5>2
        <5> QED BY <3>4, <4>1, <5>1, <5>2
      <4>2. ASSUME NEW x, NEW i \in 1 .. k, x \in ToSet(ss[i]) PROVE x \in ToSet(v)
        <5>1. CASE i = k
          BY <3>2, <3>4, <4>2, <5>1
        <5>2. CASE i \in 1 .. k - 1
          BY <3>4, <3>6, <4>2, <5>2
        <5> QED BY <3>5, <5>1, <5>2
      <4> QED BY <4>1, <4>2
    <3>8. ASSUME Apart PROVE Once(v)
      <4>1. Once(a) /\ Once(b)
        BY <2>5, <3>1, <3>2, <3>8
      <4>2. ASSUME NEW x, x \in ToSet(a), x \in ToSet(b) PROVE FALSE
        <5>1. PICK i \in 1 .. k - 1 : x \in ToSet(ss[i])
          BY <3>6, <4>2
        <5>2. i \in 1 .. c /\ i # k
          BY <2>2, <3>1
        <5>3. ToSet(ss[i]) \cap ToSet(ss[k]) = {}
          BY <3>1, <3>8, <5>2
        <5> QED BY <3>2, <4>2, <5>1, <5>3
      <4> QED BY <3>3, <4>1, <4>2, Joined
    <3> QED BY <3>2, <3>7, <3>8
  <2> HIDE DEF Good
  <2>6. Bad = {}
    <3> SUFFICES ASSUME Bad # {} PROVE FALSE
      OBVIOUS
    <3>1. Bad \subseteq Nat
      BY <2>2
    <3>2. PICK k \in Bad : \A j \in Bad : k <= j
      <4> HIDE DEF Bad
      <4> QED BY <3>1, LeastOf
    <3>3. k \in 2 .. c /\ k - 1 \in 1 .. c /\ ~ (k <= k - 1) /\ ~ Good(k)
      <4>1. k \in 1 .. c /\ ~ Good(k)
        OBVIOUS
      <4>2. k # 1
        BY <2>4, <4>1
      <4> QED BY <2>2, <4>1, <4>2
    <3>4. k - 1 \notin Bad
      <4> HIDE DEF Bad
      <4> QED BY <3>2, <3>3
    <3> QED BY <2>5, <3>3, <3>4
  <2>7. Good(c)
    <3>1. c \in 1 .. c
      BY <2>2
    <3> QED BY <2>6, <3>1
  <2>8. F[c] \in Seq(S)
    BY <2>2, <2>3
  <2> USE DEF Good
  <2>9. \A x : x \in ToSet(F[c]) <=> \E i \in 1 .. c : x \in ToSet(ss[i])
    BY <2>7
  <2>10. Apart => Once(F[c])
    BY <2>7
  <2> QED BY <2>1, <2>3, <2>8, <2>9, <2>10
<1> QED BY <1>1, <1>2

(* The nodes D as a tree: K[n] are the children of n, h[n] is its height.  *)
Tree(D, r, K, h) ==
  /\ r \in D /\ K \in [D -> Seq(D)] /\ h \in [D -> Nat]
  /\ \A n \in D : \A i \in 1 .. Len(K[n]) : h[n] = h[K[n][i]] + 1 /\ K[n][i] # r
  /\ \A m, n \in D : \A i \in 1 .. Len(K[m]), j \in 1 .. Len(K[n]) : K[m][i] = K[n][j] => m = n /\ i = j
  /\ \A n \in D : n # r => \E m \in D : \E i \in 1 .. Len(K[m]) : K[m][i] = n

(* What is freed below the nodes s, and with a node n. *)
Parts(f, s) == [i \in DOMAIN s |-> f[s[i]]]
Post(f, s, n) == FlattenSeq(Parts(f, s)) \o <<n>>

LEMMA AsSeq ==
  ASSUME NEW S, NEW c \in Nat, NEW t \in [1 .. c -> S]
  PROVE  t \in Seq(S) /\ Len(t) = c
BY SeqDef, LenProperties

Typed(f, D, S) == f \in [D -> S]

LEMMA PartsAre ==
  ASSUME NEW D, NEW f, NEW s \in Seq(D), NEW t, t = Parts(f, s)
  PROVE  Len(t) = Len(s) /\ \A i \in 1 .. Len(s) : t[i] = f[s[i]]
<1>1. PICK c : c = Len(s)
  OBVIOUS
<1>2. c \in Nat /\ DOMAIN s = 1 .. c
  BY <1>1
<1>3. t = [i \in 1 .. c |-> f[s[i]]]
  BY <1>2 DEF Parts
<1>4. Len(t) = c
  BY <1>2, <1>3
<1> QED BY <1>1, <1>3, <1>4

LEMMA PartsType ==
  ASSUME NEW D, NEW S, NEW f, NEW s \in Seq(D), NEW t, t = Parts(f, s), Typed(f, D, S)
  PROVE  t \in Seq(S)
<1>1. PICK c : c = Len(s)
  OBVIOUS
<1>2. c \in Nat /\ DOMAIN s = 1 .. c /\ (\A i \in 1 .. c : s[i] \in D) /\ f \in [D -> S]
  BY <1>1 DEF Typed
<1>3. t = [i \in 1 .. c |-> f[s[i]]]
  BY <1>2 DEF Parts
<1>4. \A i \in 1 .. c : f[s[i]] \in S
  BY <1>2
<1>5. t \in [1 .. c -> S]
  BY <1>3, <1>4
<1> QED BY <1>2, <1>5, AsSeq

LEMMA PostType ==
  ASSUME NEW D, NEW f, Typed(f, D, Seq(D)), NEW s \in Seq(D), NEW n \in D
  PROVE  Post(f, s, n) \in Seq(D)
<1>1. Parts(f, s) \in Seq(Seq(D))
  BY PartsType
<1>2. FlattenSeq(Parts(f, s)) \in Seq(D)
  BY <1>1, FlattenFacts
<1>3. <<n>> \in Seq(D)
  OBVIOUS
<1> QED BY <1>2, <1>3, Joined DEF Post

LEMMA PostSame ==
  ASSUME NEW D, NEW s \in Seq(D), NEW f, NEW g, NEW n, \A i \in 1 .. Len(s) : f[s[i]] = g[s[i]]
  PROVE  Post(f, s, n) = Post(g, s, n)
<1>1. DOMAIN s = 1 .. Len(s)
  OBVIOUS
<1>2. Parts(f, s) = Parts(g, s)
  BY <1>1 DEF Parts
<1> QED BY <1>2 DEF Post

(* The recursion has a solution. *)
LEMMA PostExists ==
  ASSUME NEW D, NEW r, NEW K, NEW h, Tree(D, r, K, h), NEW b \in Nat, \A n \in D : h[n] <= b
  PROVE  \E f \in [D -> Seq(D)] : \A n \in D : f[n] = Post(f, K[n], n)
<1>1. K \in [D -> Seq(D)] /\ h \in [D -> Nat]
  BY DEF Tree
<1>2. \A n \in D : \A i \in 1 .. Len(K[n]) : K[n][i] \in D /\ h[n] = h[K[n][i]] + 1
  BY DEF Tree
<1> DEFINE Solved(k) == \E f \in [D -> Seq(D)] : \A n \in D : h[n] < k => f[n] = Post(f, K[n], n)
           Bad == {k \in Nat : ~ Solved(k)}
<1>3. Solved(0)
  <2>1. [n \in D |-> <<>>] \in [D -> Seq(D)]
    OBVIOUS
  <2>2. \A n \in D : ~ (h[n] < 0)
    BY <1>1
  <2> QED BY <2>1, <2>2
<1>4. ASSUME NEW k \in Nat, Solved(k) PROVE Solved(k + 1)
  <2>1. PICK f \in [D -> Seq(D)] : \A n \in D : h[n] < k => f[n] = Post(f, K[n], n)
    BY <1>4
  <2>2. PICK g : g = [n \in D |-> IF h[n] = k THEN Post(f, K[n], n) ELSE f[n]]
    OBVIOUS
  <2>3. g \in [D -> Seq(D)] /\ \A n \in D : g[n] = IF h[n] = k THEN Post(f, K[n], n) ELSE f[n]
    <3>1. ASSUME NEW n \in D PROVE Post(f, K[n], n) \in Seq(D) /\ f[n] \in Seq(D)
      <4>1. K[n] \in Seq(D) /\ Typed(f, D, Seq(D))
        BY <1>1 DEF Typed
      <4> QED BY <4>1, PostType
    <3> QED BY <2>2, <3>1
  <2>4. ASSUME NEW n \in D, h[n] < k + 1 PROVE g[n] = Post(g, K[n], n)
    <3>1. h[n] \in Nat
      BY <1>1
    <3>2. ASSUME NEW i \in 1 .. Len(K[n]) PROVE f[K[n][i]] = g[K[n][i]]
      <4>1. K[n][i] \in D /\ h[K[n][i]] \in Nat /\ h[n] = h[K[n][i]] + 1
        BY <1>1, <1>2
      <4>2. h[K[n][i]] # k
        BY <2>4, <4>1
      <4> QED BY <2>3, <4>1, <4>2
    <3>3. Post(f, K[n], n) = Post(g, K[n], n)
      <4>1. PICK s : s = K[n]
        OBVIOUS
      <4>2. s \in Seq(D) /\ \A i \in 1 .. Len(s) : f[s[i]] = g[s[i]]
        BY <1>1, <3>2, <4>1
      <4>3. Post(f, s, n) = Post(g, s, n)
        BY SMTT(30), <4>2, PostSame
      <4> QED BY <4>1, <4>3
    <3>4. CASE h[n] = k
      BY <2>3, <3>3, <3>4
    <3>5. CASE h[n] # k
      <4>1. h[n] < k
        BY <2>4, <3>1, <3>5
      <4> QED BY <2>1, <2>3, <3>3, <3>5, <4>1
    <3> QED BY <3>4, <3>5
  <2> QED BY <2>3, <2>4
<1> HIDE DEF Solved
<1>5. Bad = {}
  <2> SUFFICES ASSUME Bad # {} PROVE FALSE
    OBVIOUS
  <2>1. Bad \subseteq Nat
    OBVIOUS
  <2>2. PICK k \in Bad : \A j \in Bad : k <= j
    <3> HIDE DEF Bad
    <3> QED BY <2>1, LeastOf
  <2>3. k \in Nat /\ ~ Solved(k) /\ k # 0
    BY <1>3
  <2>4. k - 1 \in Nat /\ ~ (k <= k - 1) /\ (k - 1) + 1 = k
    BY <2>3
  <2>5. k - 1 \notin Bad
    <3> HIDE DEF Bad
    <3> QED BY <2>2, <2>4
  <2>6. Solved((k - 1) + 1)
    BY <1>4, <2>4, <2>5
  <2> QED BY <2>3, <2>4, <2>6
<1>6. Solved(b + 1)
  <2>1. b + 1 \in Nat
    OBVIOUS
  <2> QED BY <1>5, <2>1
<1>7. \A n \in D : h[n] < b + 1
  <2>1. \A n \in D : h[n] \in Nat
    BY <1>1
  <2> QED BY <2>1
<1> QED BY <1>6, <1>7 DEF Solved

(* What is freed below the nodes s is apart, and apart from n. *)
Apart(f, s, n) ==
  /\ \A i \in 1 .. Len(s) : Once(f[s[i]]) /\ n \notin ToSet(f[s[i]])
  /\ \A i, j \in 1 .. Len(s) : i # j => ToSet(f[s[i]]) \cap ToSet(f[s[j]]) = {}

(* What the recursion gives for one node. *)
LEMMA PostOf ==
  ASSUME NEW D, NEW f, Typed(f, D, Seq(D)), NEW n \in D, NEW k \in Seq(D),
         NEW v, v = Post(f, k, n)
  PROVE  /\ \A x : x \in ToSet(v) <=> x = n \/ \E i \in 1 .. Len(k) : x \in ToSet(f[k[i]])
         /\ Apart(f, k, n) => Once(v)
<1>1. PICK ss, s, c, e : ss = Parts(f, k) /\ s = FlattenSeq(ss) /\ c = Len(k) /\ e = <<n>>
  OBVIOUS
<1>2. ss = Parts(f, k)
  BY <1>1
<1>3. ss \in Seq(Seq(D)) /\ Len(ss) = c /\ \A i \in 1 .. c : ss[i] = f[k[i]]
  <2>1. Len(ss) = Len(k) /\ \A i \in 1 .. Len(k) : ss[i] = f[k[i]]
    BY <1>2, PartsAre
  <2>2. ss \in Seq(Seq(D))
    BY <1>2, PartsType
  <2> QED BY <1>1, <2>1, <2>2
<1>4. s \in Seq(D) /\ \A x : x \in ToSet(s) <=> \E i \in 1 .. c : x \in ToSet(ss[i])
  BY <1>1, <1>3, FlattenFacts
<1>5. ASSUME \A i \in 1 .. c : Once(ss[i]),
             \A i, j \in 1 .. c : i # j => ToSet(ss[i]) \cap ToSet(ss[j]) = {}
      PROVE  Once(s)
  <2>1. c = Len(ss) /\ ss \in Seq(Seq(D)) /\ s = FlattenSeq(ss)
    BY <1>1, <1>3
  <2> QED BY <1>5, <2>1, FlattenFacts
<1>6. v = s \o e
  BY <1>1 DEF Post
<1>7. e \in Seq(D) /\ ToSet(e) = {n} /\ Once(e)
  BY <1>1 DEF ToSet, Once
<1>8. ToSet(v) = ToSet(s) \cup {n} /\ (Once(s) /\ n \notin ToSet(s) => Once(v))
  <2>1. s \in Seq(D) /\ e \in Seq(D)
    BY <1>4, <1>7
  <2>2. /\ ToSet(s \o e) = ToSet(s) \cup ToSet(e)
        /\ Once(s) /\ Once(e) /\ ToSet(s) \cap ToSet(e) = {} => Once(s \o e)
    BY <2>1, Joined
  <2> QED BY <1>6, <1>7, <2>2
<1>9. \A x : x \in ToSet(s) <=> \E i \in 1 .. c : x \in ToSet(f[k[i]])
  BY <1>3, <1>4
<1>10. \A x : x \in ToSet(v) <=> x = n \/ \E i \in 1 .. c : x \in ToSet(f[k[i]])
  BY <1>8, <1>9
<1>11. ASSUME Apart(f, k, n) PROVE Once(v)
  <2>1. Once(s)
    BY ZenonT(60), <1>1, <1>3, <1>5, <1>11 DEF Apart
  <2>2. n \notin ToSet(s)
    BY <1>1, <1>9, <1>11 DEF Apart
  <2> QED BY <1>8, <2>1, <2>2
<1> QED BY <1>1, <1>10, <1>11

(* A solution of the recursion. *)
Solves(f, D, K) == f \in [D -> Seq(D)] /\ \A n \in D : f[n] = Post(f, K[n], n)

LEMMA SolvesAt ==
  ASSUME NEW D, NEW f, NEW K, Solves(f, D, K), NEW n \in D, NEW k, k = K[n]
  PROVE  f[n] = Post(f, k, n) /\ Typed(f, D, Seq(D))
BY DEF Solves, Typed

(* A node is freed after all that are below it, and none twice: the root's *)
(* sequence has every node once.                                           *)
LEMMA PostComplete ==
  ASSUME NEW D, NEW r, NEW K, NEW h, Tree(D, r, K, h), NEW b \in Nat, \A n \in D : h[n] <= b,
         NEW f, Solves(f, D, K)
  PROVE  Once(f[r]) /\ ToSet(f[r]) = D
<1> DEFINE T(n) == ToSet(f[n])
<1>1. /\ r \in D /\ K \in [D -> Seq(D)] /\ h \in [D -> Nat]
      /\ \A n \in D : \A i \in 1 .. Len(K[n]) : K[n][i] \in D
  BY DEF Tree
<1>2. \A n \in D : \A i \in 1 .. Len(K[n]) : h[n] = h[K[n][i]] + 1 /\ h[K[n][i]] < h[n]
  BY <1>1 DEF Tree
<1>3. \A m, n \in D : \A i \in 1 .. Len(K[m]), j \in 1 .. Len(K[n]) : K[m][i] = K[n][j] => m = n /\ i = j
  BY DEF Tree
<1>4. ASSUME NEW n \in D
      PROVE  \A x : x \in T(n) <=> x = n \/ \E i \in 1 .. Len(K[n]) : x \in T(K[n][i])
  <2>1. PICK k, v : k = K[n] /\ v = f[n]
    OBVIOUS
  <2>2. k \in Seq(D) /\ v = Post(f, k, n) /\ Typed(f, D, Seq(D))
    <3>1. k \in Seq(D)
      BY <1>1, <2>1
    <3>2. f[n] = Post(f, k, n) /\ Typed(f, D, Seq(D))
      BY <2>1, SolvesAt
    <3> QED BY <2>1, <3>1, <3>2
  <2>3. \A x : x \in ToSet(v) <=> x = n \/ \E i \in 1 .. Len(k) : x \in ToSet(f[k[i]])
    BY <2>2, PostOf
  <2> QED BY <2>1, <2>3
<1>5. ASSUME NEW n \in D,
             \A i \in 1 .. Len(K[n]) : Once(f[K[n][i]]) /\ n \notin T(K[n][i]),
             \A i, j \in 1 .. Len(K[n]) : i # j => T(K[n][i]) \cap T(K[n][j]) = {}
      PROVE  Once(f[n])
  <2>1. PICK k, v : k = K[n] /\ v = f[n]
    OBVIOUS
  <2>2. k \in Seq(D) /\ v = Post(f, k, n) /\ Typed(f, D, Seq(D))
    <3>1. k \in Seq(D)
      BY <1>1, <2>1
    <3>2. f[n] = Post(f, k, n) /\ Typed(f, D, Seq(D))
      BY <2>1, SolvesAt
    <3> QED BY <2>1, <3>1, <3>2
  <2>3. Apart(f, k, n)
    BY <1>5, <2>1 DEF Apart
  <2>4. Once(v)
    BY <2>2, <2>3, PostOf
  <2> QED BY <2>1, <2>4
<1> HIDE DEF T
(* Facts that hold of a node once they hold of the lower ones. *)
<1> DEFINE Lower(n)  == \A x : x \in T(n) => x \in D /\ (x = n \/ h[x] < h[n])
           Alone(n)  == \A m \in D : m # n /\ h[m] = h[n] => T(m) \cap T(n) = {}
           Closed(n) == \A x \in D : x \in T(n) => \A i \in 1 .. Len(K[x]) : K[x][i] \in T(n)
           Good(n)   == Lower(n) /\ Alone(n) /\ Closed(n) /\ Once(f[n])
<1>6. ASSUME NEW n \in D, \A m \in D : h[m] < h[n] => Good(m) PROVE Good(n)
  <2>6. \A m \in D : h[m] < h[n] => \A x : x \in T(m) => x \in D /\ (x = m \/ h[x] < h[m])
    BY <1>6
  <2>7. \A m \in D : h[m] < h[n] => \A y \in D : y # m /\ h[y] = h[m] => T(y) \cap T(m) = {}
    BY <1>6
  <2>8. \A m \in D : h[m] < h[n] => \A x \in D : x \in T(m) => \A i \in 1 .. Len(K[x]) : K[x][i] \in T(m)
    BY <1>6
  <2>9. \A m \in D : h[m] < h[n] => Once(f[m])
    BY <1>6
  <2>1. ASSUME NEW m \in D, h[m] = h[n] PROVE Lower(m)
    <3> SUFFICES ASSUME NEW x, x \in T(m), x # m PROVE x \in D /\ h[x] < h[m]
      OBVIOUS
    <3>1. PICK i \in 1 .. Len(K[m]) : x \in T(K[m][i])
      BY <1>4
    <3>2. K[m][i] \in D /\ h[K[m][i]] < h[m]
      BY <1>1, <1>2
    <3>3. PICK y : y = K[m][i]
      OBVIOUS
    <3>4. y \in D /\ h[y] < h[m] /\ h[y] < h[n] /\ x \in T(y)
      BY <2>1, <3>1, <3>2, <3>3
    <3>5. x \in D /\ (x = y \/ h[x] < h[y])
      BY <2>6, <3>4
    <3>6. h[x] \in Nat /\ h[y] \in Nat /\ h[m] \in Nat
      BY <1>1, <3>4, <3>5
    <3> QED BY <3>4, <3>5, <3>6
  <2>2. ASSUME NEW m \in D, m # n, h[m] = h[n], NEW x, x \in T(m), x \in T(n) PROVE FALSE
    <3>1. x # m /\ x # n
      <4>1. Lower(m) /\ Lower(n) /\ h[n] \in Nat
        BY <1>1, <2>1, <2>2
      <4>2. (x = m \/ h[x] < h[m]) /\ (x = n \/ h[x] < h[n])
        BY <2>2, <4>1
      <4>3. ~ (h[n] < h[n]) /\ ~ (h[m] < h[m])
        BY <2>2, <4>1
      <4> QED BY <2>2, <4>2, <4>3
    <3>2. PICK i \in 1 .. Len(K[m]), j \in 1 .. Len(K[n]) : x \in T(K[m][i]) /\ x \in T(K[n][j])
      BY <1>4, <2>2, <3>1
    <3>3. PICK y, z : y = K[m][i] /\ z = K[n][j]
      OBVIOUS
    <3>4. /\ y \in D /\ z \in D /\ y # z
          /\ h[y] \in Nat /\ h[z] \in Nat /\ h[m] = h[y] + 1 /\ h[n] = h[z] + 1 /\ h[z] < h[n]
      BY <1>1, <1>2, <1>3, <2>2, <3>3
    <3>5. h[y] = h[z]
      <4>1. PICK u, v : u = h[y] /\ v = h[z]
        OBVIOUS
      <4>2. u \in Nat /\ v \in Nat /\ u + 1 = v + 1
        BY <2>2, <3>4, <4>1
      <4>3. u = v
        BY <4>2
      <4> QED BY <4>1, <4>3
    <3>6. T(y) \cap T(z) = {}
      BY <2>7, <3>4, <3>5
    <3> QED BY <3>2, <3>3, <3>6
  <2>3. ASSUME NEW x \in D, x \in T(n), NEW i \in 1 .. Len(K[x]) PROVE K[x][i] \in T(n)
    <3>1. K[x][i] \in D
      BY <1>1
    <3>2. CASE x = n
      <4>1. K[x][i] \in T(K[x][i])
        BY <1>4, <3>1
      <4> QED BY <1>4, <3>2, <4>1
    <3>3. CASE x # n
      <4>1. PICK j \in 1 .. Len(K[n]) : x \in T(K[n][j])
        BY <1>4, <2>3, <3>3
      <4>2. K[n][j] \in D /\ h[K[n][j]] < h[n]
        BY <1>1, <1>2
      <4>3. K[x][i] \in T(K[n][j])
        <5>1. PICK y : y = K[n][j]
          OBVIOUS
        <5>2. y \in D /\ h[y] < h[n] /\ x \in T(y)
          BY <4>1, <4>2, <5>1
        <5> QED BY <2>8, <5>1, <5>2
      <4> QED BY <1>4, <4>3
    <3> QED BY <3>2, <3>3
  <2>4. Once(f[n])
    <3>1. ASSUME NEW i \in 1 .. Len(K[n]) PROVE Once(f[K[n][i]]) /\ n \notin T(K[n][i])
      <4>1. PICK y : y = K[n][i]
        OBVIOUS
      <4>2. y \in D /\ h[y] < h[n] /\ h[y] \in Nat /\ h[n] \in Nat
        BY <1>1, <1>2, <4>1
      <4>3. Once(f[y]) /\ n # y /\ ~ (h[n] < h[y])
        BY <2>9, <4>2
      <4>4. n \notin T(y)
        BY <2>6, <4>2, <4>3
      <4> QED BY <4>1, <4>3, <4>4
    <3>2. ASSUME NEW i \in 1 .. Len(K[n]), NEW j \in 1 .. Len(K[n]), i # j
          PROVE  T(K[n][i]) \cap T(K[n][j]) = {}
      <4>1. PICK y, z : y = K[n][i] /\ z = K[n][j]
        OBVIOUS
      <4>2. y \in D /\ z \in D
        BY <1>1, <4>1
      <4>3. h[y] \in Nat /\ h[z] \in Nat /\ h[n] = h[y] + 1 /\ h[n] = h[z] + 1 /\ h[z] < h[n]
        BY <1>1, <1>2, <4>1, <4>2
      <4>4. y # z
        BY <1>3, <3>2, <4>1
      <4>5. h[y] = h[z]
        BY <4>3
      <4> QED BY <2>7, <4>1, <4>2, <4>3, <4>4, <4>5
    <3> QED BY <1>5, <3>1, <3>2
  <2>5. Lower(n) /\ Alone(n) /\ Closed(n)
    BY <2>1, <2>2, <2>3
  <2> QED BY <2>4, <2>5
<1> HIDE DEF Good
<1>7. \A n \in D : Good(n)
  <2> DEFINE Bad == {h[n] : n \in {m \in D : ~ Good(m)}}
  <2> SUFFICES ASSUME Bad # {} PROVE FALSE
    OBVIOUS
  <2>1. Bad \subseteq Nat
    BY <1>1
  <2>2. PICK y \in Bad : \A z \in Bad : y <= z
    <3> HIDE DEF Bad
    <3> QED BY <2>1, LeastOf
  <2>3. PICK n \in D : y = h[n] /\ ~ Good(n)
    OBVIOUS
  <2>4. ASSUME NEW m \in D, h[m] < h[n] PROVE Good(m)
    <3>1. h[m] \in Nat /\ h[n] \in Nat
      BY <1>1
    <3>2. h[m] \notin Bad
      <4> HIDE DEF Bad
      <4> QED BY <2>2, <2>3, <2>4, <3>1
    <3> QED BY <3>2
  <2> QED BY <1>6, <2>3, <2>4
<1> USE DEF Good
<1>8. ASSUME NEW x \in D PROVE x \in T(r)
  <2> DEFINE Bad == {h[n] : n \in {m \in D : m \notin T(r)}}
  <2> SUFFICES ASSUME Bad # {} PROVE FALSE
    OBVIOUS
  <2>1. Bad \subseteq Nat /\ \A z \in Bad : z <= b
    BY <1>1
  <2>2. PICK y \in Bad : \A z \in Bad : z <= y
    <3> HIDE DEF Bad
    <3> QED BY <2>1, GreatestOf
  <2>3. PICK n \in D : y = h[n] /\ n \notin T(r)
    OBVIOUS
  <2>4. n # r
    BY <1>1, <1>4, <2>3
  <2>5. PICK p \in D : \E i \in 1 .. Len(K[p]) : K[p][i] = n
    BY <2>4 DEF Tree
  <2>6. p \in T(r)
    <3>1. h[n] \in Nat /\ h[p] \in Nat /\ h[n] < h[p]
      BY <1>1, <1>2, <2>5
    <3>2. h[p] \notin Bad
      <4> HIDE DEF Bad
      <4> QED BY <2>2, <2>3, <3>1
    <3> QED BY <3>2
  <2>7. Closed(r)
    BY <1>1, <1>7
  <2> QED BY <2>3, <2>5, <2>6, <2>7
<1>9. Once(f[r]) /\ Lower(r)
  BY <1>1, <1>7
<1> QED BY <1>8, <1>9 DEF T

Kids == [n \in DOMAIN nodes |-> Children(n)]

(* Between calls the nodes are a tree. *)
LEMMA NodesTree ==
  ASSUME NEW r, NEW h, IsNodes(nodes), Family(nodes, r, NULL, NULL), Heights(nodes, h)
  PROVE  Tree(DOMAIN nodes, r, Kids, h) /\ \E b \in Nat : \A n \in DOMAIN nodes : h[n] <= b
<1>1. PICK N, D, K : N = nodes /\ D = DOMAIN nodes /\ K = Kids
  OBVIOUS
<1>2. IsNodes(N) /\ D = DOMAIN N /\ Family(N, r, NULL, NULL) /\ Heights(N, h)
  BY <1>1
<1>3. NULL \notin D /\ r \in D /\ N[r].parent = NULL /\ h \in [D -> Nat]
  BY <1>2, NodeFacts DEF Family, Heights
<1>4. \A n \in D : K[n] = IF N[n].leaf THEN <<>> ELSE N[n].vals
  BY <1>1 DEF Kids, Children
<1>5. \A n \in D : K[n] \in Seq(D)
  <2> SUFFICES ASSUME NEW n \in D PROVE K[n] \in Seq(D)
    OBVIOUS
  <2>1. CASE N[n].leaf
    <3>1. K[n] = <<>> /\ <<>> \in Seq(D)
      BY <1>4, <2>1
    <3> QED BY <3>1
  <2>2. CASE ~ N[n].leaf
    <3>1. PICK v : v = N[n].vals
      OBVIOUS
    <3>2. v \in Seq(Nat) /\ \A i \in 1 .. Len(v) : v[i] \in D
      BY <1>2, <2>2, <3>1, NodeFacts DEF Family
    <3>3. v \in [1 .. Len(v) -> D] /\ Len(v) \in Nat
      BY <3>2
    <3>4. v \in Seq(D)
      BY <3>3, AsSeq
    <3> QED BY <1>4, <2>2, <3>1, <3>4
  <2> QED BY <2>1, <2>2
<1>6. K \in [D -> Seq(D)]
  <2>1. DOMAIN K = D /\ K = [n \in D |-> K[n]]
    BY <1>1 DEF Kids
  <2> QED BY <1>5, <2>1
<1>7. ASSUME NEW n \in D, NEW i \in 1 .. Len(K[n])
      PROVE  /\ ~ N[n].leaf /\ K[n] = N[n].vals /\ K[n][i] \in D
             /\ N[K[n][i]].parent = n /\ \A j \in 1 .. Len(K[n]) : i # j => K[n][i] # K[n][j]
  <2>1. ~ N[n].leaf
    <3>1. ASSUME N[n].leaf PROVE FALSE
      <4>1. Len(K[n]) = 0
        BY <1>4, <3>1
      <4> QED BY <4>1
    <3> QED BY <3>1
  <2>2. PICK v : v = N[n].vals /\ K[n] = v
    BY <1>4, <2>1
  <2>3. /\ v[i] \in D /\ N[v[i]].parent = n
        /\ \A j \in 1 .. Len(v) : i # j => v[i] # v[j]
    BY <1>2, <2>1, <2>2 DEF Family
  <2> QED BY <2>1, <2>2, <2>3
<1>8. ASSUME NEW n \in D, NEW i \in 1 .. Len(K[n]) PROVE h[n] = h[K[n][i]] + 1 /\ K[n][i] # r
  <2>1. PICK x : x = K[n][i]
    OBVIOUS
  <2>2. x \in D /\ N[x].parent = n
    BY <1>7, <2>1
  <2>3. n # NULL
    BY <1>3
  <2>4. h[N[x].parent] = h[x] + 1
    BY <1>2, <2>2, <2>3 DEF Heights
  <2> QED BY <1>3, <2>1, <2>2, <2>3, <2>4
<1>9. ASSUME NEW m \in D, NEW n \in D, NEW i \in 1 .. Len(K[m]), NEW j \in 1 .. Len(K[n]), K[m][i] = K[n][j]
      PROVE  m = n /\ i = j
  <2>1. N[K[m][i]].parent = m /\ N[K[n][j]].parent = n
    BY <1>7
  <2>2. m = n
    BY <1>9, <2>1
  <2> QED BY <1>7, <1>9, <2>2
<1>10. ASSUME NEW n \in D, n # r PROVE \E m \in D : \E i \in 1 .. Len(K[m]) : K[m][i] = n
  <2>1. N[n].parent # NULL /\ n # NULL
    BY <1>2, <1>3, <1>10 DEF Family
  <2>2. PICK m : m = N[n].parent
    OBVIOUS
  <2>3. m \in D /\ ~ N[m].leaf /\ \E i \in 1 .. Len(N[m].vals) : N[m].vals[i] = n
    BY <1>2, <2>1, <2>2 DEF Family
  <2> QED BY <1>4, <2>3
<1>11. Tree(D, r, K, h)
  BY <1>3, <1>6, <1>8, <1>9, <1>10 DEF Tree
<1>12. \E b \in Nat : \A n \in D : h[n] <= b
  BY <1>2, <1>3, Bounded DEF IsNodes
<1> QED BY <1>1, <1>11, <1>12

(* The recursion has no other solution. *)
LEMMA OneSolution ==
  ASSUME NEW D, NEW r, NEW K, NEW h, Tree(D, r, K, h), NEW g, Solves(g, D, K),
         NEW f, \A n \in D : f[n] = Post(f, K[n], n)
  PROVE  \A n \in D : f[n] = g[n]
<1>1. /\ K \in [D -> Seq(D)] /\ h \in [D -> Nat]
      /\ \A n \in D : \A i \in 1 .. Len(K[n]) : K[n][i] \in D /\ h[n] = h[K[n][i]] + 1
  BY DEF Tree
<1> DEFINE Bad == {h[n] : n \in {m \in D : f[m] # g[m]}}
<1> SUFFICES ASSUME Bad # {} PROVE FALSE
  OBVIOUS
<1>2. Bad \subseteq Nat
  BY <1>1
<1>3. PICK y \in Bad : \A z \in Bad : y <= z
  <2> HIDE DEF Bad
  <2> QED BY <1>2, LeastOf
<1>4. PICK n \in D : y = h[n] /\ f[n] # g[n]
  OBVIOUS
<1>5. PICK k : k = K[n]
  OBVIOUS
<1>6. k \in Seq(D) /\ \A i \in 1 .. Len(k) : k[i] \in D /\ h[n] = h[k[i]] + 1
  BY <1>1, <1>5
<1>7. ASSUME NEW i \in 1 .. Len(k) PROVE f[k[i]] = g[k[i]]
  <2>1. h[k[i]] \in Nat /\ h[n] = h[k[i]] + 1 /\ k[i] \in D
    BY <1>1, <1>6
  <2>2. h[k[i]] \notin Bad
    <3>1. ~ (h[n] <= h[k[i]])
      BY <2>1
    <3> HIDE DEF Bad
    <3> QED BY <1>3, <1>4, <3>1
  <2> QED BY <2>1, <2>2
<1>8. Post(f, k, n) = Post(g, k, n)
  <2> HIDE DEF Bad
  <2> QED BY <1>6, <1>7, PostSame
<1>9. g[n] = Post(g, k, n)
  BY <1>5, SolvesAt
<1>10. f[n] = Post(f, k, n)
  BY <1>5
<1> QED BY <1>4, <1>8, <1>9, <1>10

(* What mbptree_free_node frees is a solution of its recursion. *)
LEMMA FreedIs ==
  ASSUME NEW r, NEW h, Tree(DOMAIN nodes, r, Kids, h), NEW g, Solves(g, DOMAIN nodes, Kids)
  PROVE  mbptree_free_node(r) = g[r]
<1> DEFINE Eq(f) == f = [n \in DOMAIN nodes |->
                           FlattenSeq([i \in DOMAIN Children(n) |-> f[Children(n)[i]]]) \o <<n>>]
<1>1. g = [n \in DOMAIN nodes |-> Post(g, Kids[n], n)]
  <2>1. g = [n \in DOMAIN nodes |-> g[n]] /\ \A n \in DOMAIN nodes : g[n] = Post(g, Kids[n], n)
    BY DEF Solves
  <2> QED BY <2>1
<1>2. \A n \in DOMAIN nodes : Kids[n] = Children(n)
  BY DEF Kids
<1>3. Eq(g)
  <2>1. \A n \in DOMAIN nodes : Post(g, Kids[n], n) =
          FlattenSeq([i \in DOMAIN Children(n) |-> g[Children(n)[i]]]) \o <<n>>
    BY <1>2 DEF Post, Parts
  <2> QED BY <1>1, <2>1
<1>4. PICK f : f = CHOOSE e : Eq(e)
  OBVIOUS
<1>5. Eq(f)
  BY <1>3, <1>4, Zenon
<1>6. mbptree_free_node(r) = f[r]
  BY <1>4, Zenon DEF mbptree_free_node
<1>7. \A n \in DOMAIN nodes : f[n] = Post(f, Kids[n], n)
  BY <1>2, <1>5 DEF Post, Parts
<1> HIDE DEF Eq
<1>8. \A n \in DOMAIN nodes : f[n] = g[n]
  BY <1>7, OneSolution
<1>9. r \in DOMAIN nodes
  BY DEF Tree
<1> QED BY <1>6, <1>8, <1>9

(* mbptree_free gives every node back, and none twice. *)
LEMMA ReadyFreed ==
  ASSUME NEW app, Ready(nodes, root, last_leaf, app)
  PROVE  /\ ToSet(mbptree_free_node(root)) = DOMAIN nodes
         /\ IsInjective(mbptree_free_node(root))
<1>1. PICK lo, hi, h, pos : Shape(nodes, root, last_leaf, NULL, NULL, 0, app, lo, hi, h, pos)
  BY DEF Ready
<1>2. IsNodes(nodes) /\ Family(nodes, root, NULL, NULL) /\ Heights(nodes, h)
  BY <1>1 DEF Shape
<1>3. Tree(DOMAIN nodes, root, Kids, h) /\ \E b \in Nat : \A n \in DOMAIN nodes : h[n] <= b
  BY <1>2, NodesTree
<1>4. PICK b \in Nat : \A n \in DOMAIN nodes : h[n] <= b
  BY <1>3
<1>5. PICK g : Solves(g, DOMAIN nodes, Kids)
  BY <1>3, <1>4, PostExists DEF Solves
<1>6. mbptree_free_node(root) = g[root]
  BY <1>3, <1>5, FreedIs
<1>7. Once(g[root]) /\ ToSet(g[root]) = DOMAIN nodes
  BY <1>3, <1>4, <1>5, PostComplete
<1>8. IsInjective(g[root])
  <2>1. g[root] \in Seq(DOMAIN nodes)
    BY <1>3, <1>5 DEF Solves, Tree
  <2> QED BY <1>7, <2>1 DEF Once, IsInjective
<1> QED BY <1>6, <1>7, <1>8

(* Once the tree is freed no node is left, and none was freed twice. *)
Emptied == root = NULL => DOMAIN nodes = {} /\ last_leaf = NULL /\ fault = FALSE

LEMMA NewNotNull ==
  ASSUME IsNodes(nodes) PROVE New(1) # NULL
<1>1. PICK c \in Nat : DOMAIN nodes = 1 .. c
  BY DEF IsNodes
<1>2. Cardinality(1 .. c) = c
  BY FS_Interval
<1> QED BY <1>1, <1>2 DEF New, NULL

LEMMA NextEmptied ==
  ASSUME IndexInv, Emptied, [Next]_vars
  PROVE  Emptied'
<1>1. CASE mbptree_free
  <2>1. PICK s : s = mbptree_free_node(root)
    OBVIOUS
  <2>2. root # NULL /\ \A t \in Threads : pc[t] = "idle"
    BY <1>1 DEF mbptree_free, At
  <2>3. Ready(nodes, root, last_leaf, appended)
    BY <2>2 DEF IndexInv
  <2>4. ToSet(s) = DOMAIN nodes /\ IsInjective(s)
    BY <2>1, <2>3, ReadyFreed
  <2>5. /\ nodes' = [n \in DOMAIN nodes \ ToSet(s) |-> nodes[n]]
        /\ last_leaf' = NULL /\ fault' = ~ IsInjective(s)
    BY <1>1, <2>1 DEF mbptree_free
  <2>6. DOMAIN nodes' = {}
    BY <2>4, <2>5
  <2>7. fault' = FALSE
    BY <2>4, <2>5
  <2> QED BY <2>5, <2>6, <2>7 DEF Emptied
<1>2. CASE root = NULL /\ ~ mbptree_free
  <2>1. \A t \in Threads : pc[t] = "idle"
    BY <1>2 DEF IndexInv
  <2>2. UNCHANGED vars
    <3>1. ASSUME NEW t \in Appenders PROVE ~ AppenderStep(t)
      <4>1. t \in Threads
        BY DEF Threads
      <4> QED BY <2>1, <4>1
            DEF AppenderStep, mbptree_tryappend, StoreData, mbptree_new_root, mbptree_new_leaf,
                NewLeafFails, mbptree_append_node, mbptree_split_root, mbptree_split_node,
                SplitFails, AppendUnlock, At
    <3>2. ASSUME NEW t \in Finders PROVE ~ FinderStep(t)
      <4>1. t \in Threads
        BY DEF Threads
      <4> QED BY <2>1, <4>1
            DEF FinderStep, FloorLock, FindRoot, mbptree_find_leaf, LoadShared, StoreShared, ScanLeaf, At
    <3>3. \A t, key : ~ mbptree_append(t, key) /\ ~ mbptree_leaf_floor(t, key)
      BY <1>2 DEF mbptree_append, mbptree_leaf_floor, MayCall
    <3> QED BY <1>2, <3>1, <3>2, <3>3 DEF Next
  <2> QED BY <2>2 DEF vars, tree, Emptied
<1>3. CASE root # NULL /\ ~ mbptree_free
  <2>1. root' # NULL
    <3>1. ASSUME NEW t \in Appenders, mbptree_new_root(t) PROVE root' # NULL
      <4>1. t \in Threads /\ pc[t] = "new_leaf" /\ root' = New(1)
        BY <3>1 DEF Threads, mbptree_new_root, At
      <4>2. InTree(nodes, root, last_leaf, appended, "new_leaf", loc[t])
        BY <1>3, <4>1 DEF IndexInv
      <4>3. IsNodes(nodes)
        BY <4>2, ReadyFacts DEF InTree
      <4> QED BY <4>1, <4>3, NewNotNull
    <3>2. ASSUME NEW t \in Appenders, mbptree_split_root(t) PROVE root' # NULL
      <4>1. t \in Threads /\ pc[t] = "append_node" /\ root' = New(1)
        BY <3>2 DEF Threads, mbptree_split_root, At
      <4>2. InTree(nodes, root, last_leaf, appended, "append_node", loc[t])
        BY <1>3, <4>1 DEF IndexInv
      <4>3. IsNodes(nodes)
        BY <4>2 DEF InTree, Pending, Shape
      <4> QED BY <4>1, <4>3, NewNotNull
    <3>3. ASSUME NEW t \in Appenders, AppenderStep(t), ~ mbptree_new_root(t), ~ mbptree_split_root(t)
          PROVE  root' = root
      BY <3>3 DEF AppenderStep, mbptree_tryappend, StoreData, mbptree_new_leaf, NewLeafFails,
                  mbptree_append_node, mbptree_split_node, SplitFails, AppendUnlock, tree
    <3>4. ASSUME NEW t \in Finders, FinderStep(t) PROVE root' = root
      BY <3>4 DEF FinderStep, FloorLock, FindRoot, mbptree_find_leaf, LoadShared, StoreShared, ScanLeaf, tree
    <3>5. \A t, key : mbptree_append(t, key) \/ mbptree_leaf_floor(t, key) => root' = root
      BY DEF mbptree_append, mbptree_leaf_floor, tree
    <3>6. UNCHANGED vars => root' = root
      BY DEF vars, tree
    <3> QED BY <1>3, <3>1, <3>2, <3>3, <3>4, <3>5, <3>6 DEF Next
  <2> QED BY <2>1 DEF Emptied
<1> QED BY <1>1, <1>2, <1>3

LEMMA EmptiedSpec ==
  ASSUME Serialized, ~ AllocFails, IsFiniteSet(Finders) PROVE Spec => []Emptied
<1>1. Init => Emptied
  BY DEF Init, Emptied, NULL
<1>2. IndexInv /\ Emptied /\ [Next]_vars => Emptied'
  BY NextEmptied
<1> QED BY <1>1, <1>2, IndexSpec, PTL DEF Spec

(* After mbptree_free no node is left and none was freed twice, whatever   *)
(* splits of leaves, nodes and root made the tree that mqlog_close gives   *)
(* back.                                                                   *)
THEOREM AllFreed ==
  ASSUME Serialized, ~ AllocFails, IsFiniteSet(Finders) PROVE Spec => []FreesAll
<1>1. Emptied => FreesAll
  BY DEF Emptied, FreesAll
<1> QED BY <1>1, EmptiedSpec, PTL

-----------------------------------------------------------------------------
(* The breadth-first iterator.  Its queue is in order of height and, for   *)
(* nodes of one height, of the ranges of keys below them, so that no node  *)
(* comes twice; a node not in it would have a parent not in it, up to the  *)
(* root.  The leaves are its last part, in order of their ranges, and as   *)
(* keys are appended in order that is also the order of the links.         *)
(* A step of the breadth-first iterator: the children of the i-th node     *)
(* join the queue s.                                                       *)
Joins(K, s, i) == IF i > Len(s) THEN s ELSE s \o K[s[i]]

IsQueue(q, c, r, K) == /\ DOMAIN q = 0 .. c /\ q[0] = <<r>>
                       /\ \A i \in 1 .. c : q[i] = Joins(K, q[i - 1], i)

LEMMA JoinsType ==
  ASSUME NEW D, NEW K \in [D -> Seq(D)], NEW s \in Seq(D), NEW i \in Nat, i >= 1
  PROVE  Joins(K, s, i) \in Seq(D)
<1>1. CASE i > Len(s)
  BY <1>1 DEF Joins
<1>2. CASE ~ (i > Len(s))
  <2>1. i \in 1 .. Len(s)
    BY <1>2
  <2>2. PICK k : k = K[s[i]]
    OBVIOUS
  <2>3. k \in Seq(D)
    BY <2>1, <2>2
  <2>4. s \o k \in Seq(D)
    BY <2>3, ConcatProperties
  <2> QED BY <1>2, <2>2, <2>4 DEF Joins
<1> QED BY <1>1, <1>2

LEMMA QueueExists ==
  ASSUME NEW D, NEW r \in D, NEW K \in [D -> Seq(D)], NEW c \in Nat
  PROVE  \E q \in [0 .. c -> Seq(D)] : IsQueue(q, c, r, K)
<1> DEFINE Is(q, k) == q[0] = <<r>> /\ \A i \in 1 .. k : q[i] = Joins(K, q[i - 1], i)
           Good(k) == \E q \in [0 .. c -> Seq(D)] : Is(q, k)
           Bad == {k \in 0 .. c : ~ Good(k)}
<1>1. Good(0)
  <2>1. <<r>> \in Seq(D)
    OBVIOUS
  <2>2. PICK q : q = [i \in 0 .. c |-> <<r>>]
    OBVIOUS
  <2>3. q \in [0 .. c -> Seq(D)] /\ q[0] = <<r>>
    BY <2>1, <2>2
  <2>4. \A i \in 1 .. 0 : FALSE
    OBVIOUS
  <2> QED BY <2>3, <2>4
<1>2. ASSUME NEW k \in 1 .. c, Good(k - 1) PROVE Good(k)
  <2>1. PICK q \in [0 .. c -> Seq(D)] : Is(q, k - 1)
    BY <1>2
  <2>2. k \in Nat /\ k >= 1 /\ k - 1 \in 0 .. c /\ k \in 0 .. c
    OBVIOUS
  <2>3. PICK v : v = Joins(K, q[k - 1], k)
    OBVIOUS
  <2>4. v \in Seq(D)
    <3>1. q[k - 1] \in Seq(D)
      BY <2>2
    <3> QED BY <2>2, <2>3, <3>1, JoinsType
  <2>5. PICK p : p = [q EXCEPT ![k] = v]
    OBVIOUS
  <2>6. p \in [0 .. c -> Seq(D)] /\ p[k] = v /\ \A i \in 0 .. c : i # k => p[i] = q[i]
    BY <2>2, <2>4, <2>5
  <2>7. ASSUME NEW i \in 1 .. k PROVE p[i] = Joins(K, p[i - 1], i)
    <3>1. i - 1 \in 0 .. c /\ i - 1 # k /\ p[i - 1] = q[i - 1]
      BY <2>6
    <3>2. CASE i = k
      BY <2>3, <2>6, <3>1, <3>2
    <3>3. CASE i # k
      <4>1. i \in 1 .. k - 1 /\ i \in 0 .. c
        BY <3>3
      <4> QED BY <2>1, <2>6, <3>1, <3>3, <4>1
    <3> QED BY <3>2, <3>3
  <2>8. p[0] = <<r>>
    <3>1. 0 \in 0 .. c /\ 0 # k
      BY <2>2
    <3> QED BY <2>1, <2>6, <3>1
  <2> QED BY <2>6, <2>7, <2>8
<1> HIDE DEF Good
<1>3. Bad = {}
  <2> SUFFICES ASSUME Bad # {} PROVE FALSE
    OBVIOUS
  <2>1. Bad \subseteq Nat
    OBVIOUS
  <2>2. PICK k \in Bad : \A j \in Bad : k <= j
    <3> HIDE DEF Bad
    <3> QED BY <2>1, LeastOf
  <2>3. k \in 0 .. c /\ ~ Good(k) /\ k # 0
    BY <1>1
  <2>4. k \in 1 .. c /\ k - 1 \in 0 .. c /\ ~ (k <= k - 1)
    BY <2>3
  <2>5. k - 1 \notin Bad
    <3> HIDE DEF Bad
    <3> QED BY <2>2, <2>4
  <2> QED BY <1>2, <2>3, <2>4, <2>5
<1>4. Good(c)
  <2>1. c \in 0 .. c
    OBVIOUS
  <2> QED BY <1>3, <2>1
<1> QED BY <1>4 DEF Good, IsQueue

(* The queue of mbptree_bfs_iteration. *)
LEMMA IterationQueue ==
  ASSUME NEW c \in Nat, c = Cardinality(DOMAIN nodes),
         NEW q \in [0 .. c -> Seq(DOMAIN nodes)], IsQueue(q, c, root, Kids)
  PROVE  mbptree_bfs_iteration = q[c]
<1> DEFINE Eq(f) == f = [head \in 0 .. Cardinality(DOMAIN nodes) |->
                           IF head = 0 THEN <<root>>
                           ELSE IF head > Len(f[head - 1]) THEN f[head - 1]
                                ELSE f[head - 1] \o Children(f[head - 1][head])]
<1>1. ASSUME NEW s \in Seq(DOMAIN nodes), NEW i \in 1 .. c
      PROVE  Joins(Kids, s, i) = IF i > Len(s) THEN s ELSE s \o Children(s[i])
  <2>1. CASE i > Len(s)
    BY <2>1 DEF Joins
  <2>2. CASE ~ (i > Len(s))
    <3>1. i \in 1 .. Len(s)
      BY <2>2
    <3>2. Kids[s[i]] = Children(s[i])
      BY <3>1 DEF Kids
    <3> QED BY <2>2, <3>2 DEF Joins
  <2> QED BY <2>1, <2>2
<1>2. ASSUME NEW i \in 1 .. c
      PROVE  q[i] = IF i > Len(q[i - 1]) THEN q[i - 1] ELSE q[i - 1] \o Children(q[i - 1][i])
  <2>1. q[i - 1] \in Seq(DOMAIN nodes)
    BY i - 1 \in 0 .. c
  <2>2. q[i] = Joins(Kids, q[i - 1], i)
    BY DEF IsQueue
  <2> QED BY <1>1, <2>1, <2>2
<1>3. Eq(q)
  <2>1. PICK e : e = [head \in 0 .. c |->
                       IF head = 0 THEN <<root>>
                       ELSE IF head > Len(q[head - 1]) THEN q[head - 1]
                            ELSE q[head - 1] \o Children(q[head - 1][head])]
    OBVIOUS
  <2>2. ASSUME NEW i \in 0 .. c PROVE e[i] = q[i]
    <3>1. CASE i = 0
      BY <2>1, <3>1 DEF IsQueue
    <3>2. CASE i # 0
      <4>1. i \in 1 .. c
        BY <3>2
      <4> QED BY <1>2, <2>1, <3>2, <4>1
    <3> QED BY <3>1, <3>2
  <2>3. q = [i \in 0 .. c |-> q[i]] /\ e = [i \in 0 .. c |-> e[i]]
    BY <2>1
  <2>4. q = e
    BY <2>2, <2>3
  <2> QED BY <2>1, <2>4
<1>4. PICK f : f = CHOOSE e : Eq(e)
  OBVIOUS
<1>5. Eq(f)
  BY <1>3, <1>4, Zenon
<1>6. mbptree_bfs_iteration = f[c]
  BY <1>4, Zenon DEF mbptree_bfs_iteration
<1>7. f[0] = <<root>>
  BY <1>5
<1>8. ASSUME NEW i \in 1 .. c
      PROVE  f[i] = IF i > Len(f[i - 1]) THEN f[i - 1] ELSE f[i - 1] \o Children(f[i - 1][i])
  <2>1. i \in 0 .. c /\ i # 0
    OBVIOUS
  <2> QED BY <1>5, <2>1
<1> HIDE DEF Eq
<1> DEFINE Bad == {i \in 0 .. c : f[i] # q[i]}
<1>9. Bad = {}
  <2> SUFFICES ASSUME Bad # {} PROVE FALSE
    OBVIOUS
  <2>1. Bad \subseteq Nat
    OBVIOUS
  <2>2. PICK i \in Bad : \A j \in Bad : i <= j
    <3> HIDE DEF Bad
    <3> QED BY <2>1, LeastOf
  <2>3. i \in 0 .. c /\ f[i] # q[i] /\ i # 0
    BY <1>7 DEF IsQueue
  <2>4. i \in 1 .. c /\ i - 1 \in 0 .. c /\ ~ (i <= i - 1)
    BY <2>3
  <2>5. i - 1 \notin Bad
    <3> HIDE DEF Bad
    <3> QED BY <2>2, <2>4
  <2>6. f[i - 1] = q[i - 1]
    BY <2>4, <2>5
  <2> QED BY <1>2, <1>8, <2>3, <2>4, <2>6
<1>10. c \in 0 .. c
  OBVIOUS
<1> QED BY <1>6, <1>9, <1>10

(* Ranges that begin where the one before them ends. *)
LEMMA EdgesGrow ==
  ASSUME NEW m \in Nat, m >= 1, NEW A \in [1 .. m -> Int], NEW B \in [1 .. m -> Int],
         \A i \in 1 .. m : A[i] < B[i], \A i \in 1 .. m - 1 : A[i + 1] = B[i]
  PROVE  /\ A[1] < B[m]
         /\ \A i \in 1 .. m : A[1] <= A[i] /\ B[i] <= B[m]
         /\ \A i, j \in 1 .. m : i < j => B[i] <= A[j]
<1>1. ASSUME NEW i \in 1 .. m, NEW j \in 1 .. m, i < j PROVE B[i] <= A[j]
  <2> DEFINE Bad == {k \in 1 .. m : i < k /\ ~ (B[i] <= A[k])}
  <2> SUFFICES ASSUME Bad # {} PROVE FALSE
    BY <1>1
  <2>1. Bad \subseteq Nat
    OBVIOUS
  <2>2. PICK k \in Bad : \A l \in Bad : k <= l
    <3> HIDE DEF Bad
    <3> QED BY <2>1, LeastOf
  <2>3. k \in 1 .. m /\ i < k /\ ~ (B[i] <= A[k])
    OBVIOUS
  <2>4. k - 1 \in 1 .. m - 1 /\ k - 1 \in 1 .. m /\ (k - 1) + 1 = k /\ ~ (k <= k - 1)
    BY <2>3
  <2>5. A[k] = B[k - 1]
    BY <2>4
  <2>6. B[i] \in Int /\ A[k] \in Int /\ B[k - 1] \in Int /\ A[k - 1] \in Int /\ A[k - 1] < B[k - 1]
    BY <2>3, <2>4
  <2>7. i # k - 1
    BY <2>3, <2>5, <2>6
  <2>8. k - 1 \notin Bad
    <3> HIDE DEF Bad
    <3> QED BY <2>2, <2>4
  <2>9. i < k - 1
    BY <2>3, <2>7
  <2>10. B[i] <= A[k - 1]
    BY <2>4, <2>8, <2>9
  <2> QED BY <2>3, <2>5, <2>6, <2>10
<1>2. ASSUME NEW i \in 1 .. m PROVE A[1] <= A[i] /\ B[i] <= B[m]
  <2>1. 1 \in 1 .. m /\ m \in 1 .. m
    OBVIOUS
  <2>2. A[1] \in Int /\ B[1] \in Int /\ A[i] \in Int /\ B[i] \in Int /\ A[m] \in Int /\ B[m] \in Int
    BY <2>1
  <2>3. A[1] < B[1] /\ A[m] < B[m]
    BY <2>1
  <2>4. A[1] <= A[i]
    <3>1. CASE i = 1
      BY <2>2, <3>1
    <3>2. CASE i # 1
      <4>1. B[1] <= A[i]
        BY <1>1, <2>1, <3>2
      <4> QED BY <2>2, <2>3, <4>1
    <3> QED BY <3>1, <3>2
  <2>5. B[i] <= B[m]
    <3>1. CASE i = m
      BY <2>2, <3>1
    <3>2. CASE i # m
      <4>1. B[i] <= A[m]
        BY <1>1, <2>1, <3>2
      <4> QED BY <2>2, <2>3, <4>1
    <3> QED BY <3>1, <3>2
  <2> QED BY <2>4, <2>5
<1>3. A[1] < B[m]
  <2>1. 1 \in 1 .. m /\ A[1] \in Int /\ B[1] \in Int /\ B[m] \in Int
    OBVIOUS
  <2>2. A[1] < B[1] /\ B[1] <= B[m]
    BY <1>2, <2>1
  <2> QED BY <2>1, <2>2
<1> QED BY <1>1, <1>2, <1>3

(* The ranges of keys below the nodes: not empty, and divided among the    *)
(* children in their order.                                                *)
Spans(D, K, lo, hi) ==
  /\ lo \in [D -> Int] /\ hi \in [D -> Int]
  /\ \A n \in D : lo[n] < hi[n]
  /\ \A n \in D : \A i \in 1 .. Len(K[n]) : lo[n] <= lo[K[n][i]] /\ hi[K[n][i]] <= hi[n]
  /\ \A n \in D : \A i, j \in 1 .. Len(K[n]) : i < j => hi[K[n][i]] <= lo[K[n][j]]

(* Children that divide a node's range. *)
LEMMA Divided ==
  ASSUME NEW N, NEW r, NEW lo, NEW hi, NEW D, D = DOMAIN N, IsNodes(N), Family(N, r, NULL, NULL),
         Ranges(N, r, NULL, NULL, 0, lo, hi), NEW n \in D, ~ N[n].leaf, NEW v, v = N[n].vals,
         \A i \in 1 .. Len(v) : lo[v[i]] < hi[v[i]]
  PROVE  /\ lo[n] < hi[n]
         /\ \A i \in 1 .. Len(v) : lo[n] <= lo[v[i]] /\ hi[v[i]] <= hi[n]
         /\ \A i, j \in 1 .. Len(v) : i < j => hi[v[i]] <= lo[v[j]]
<1>1. PICK m, k : m = Len(v) /\ k = N[n].keys
  OBVIOUS
<1>2. v \in Seq(Nat) /\ k \in Seq(Key) /\ m \in Nat /\ m >= 1 /\ Len(k) \in Nat /\ Len(k) + 1 = m
  <2>1. v \in Seq(Nat) /\ k \in Seq(Key) /\ Len(v) = Len(k) + 1
    BY <1>1, NodeFacts DEF IsNodes
  <2>2. Len(k) \in Nat
    BY <2>1
  <2> QED BY <1>1, <2>1, <2>2
<1>3. \A i \in 1 .. m : v[i] \in D
  BY <1>1 DEF Family
<1>4. n # NULL /\ lo \in [D -> Int] /\ hi \in [D -> Int]
  BY NodeFacts DEF Ranges
<1>5. ASSUME NEW i \in 1 .. m
      PROVE  /\ lo[v[i]] = IF i = 1 THEN lo[n] ELSE k[i - 1]
             /\ hi[v[i]] = IF i <= Len(k) THEN k[i] ELSE hi[n]
  <2>1. i \in 1 .. Len(N[n].vals)
    BY <1>1
  <2> QED BY <1>1, <1>4, <2>1, RangeOf
<1>6. PICK A, B : A = [i \in 1 .. m |-> lo[v[i]]] /\ B = [i \in 1 .. m |-> hi[v[i]]]
  OBVIOUS
<1>7. /\ A \in [1 .. m -> Int] /\ B \in [1 .. m -> Int]
      /\ \A i \in 1 .. m : A[i] = lo[v[i]] /\ B[i] = hi[v[i]] /\ A[i] < B[i]
  <2>1. \A i \in 1 .. m : lo[v[i]] \in Int /\ hi[v[i]] \in Int /\ lo[v[i]] < hi[v[i]]
    BY <1>1, <1>3, <1>4
  <2> QED BY <1>6, <2>1
<1>8. ASSUME NEW i \in 1 .. m - 1 PROVE A[i + 1] = B[i]
  <2>1. i \in 1 .. m /\ i + 1 \in 1 .. m /\ i + 1 # 1 /\ (i + 1) - 1 = i /\ i <= Len(k)
    BY <1>2
  <2>2. lo[v[i + 1]] = k[i]
    BY <1>5, <2>1
  <2>3. hi[v[i]] = k[i]
    BY <1>5, <2>1
  <2> QED BY <1>7, <2>1, <2>2, <2>3
<1>9. A[1] = lo[n] /\ B[m] = hi[n]
  <2>1. 1 \in 1 .. m /\ m \in 1 .. m /\ ~ (m <= Len(k))
    BY <1>2
  <2>2. lo[v[1]] = lo[n]
    BY <1>5, <2>1
  <2>3. hi[v[m]] = hi[n]
    BY <1>5, <2>1
  <2> QED BY <1>7, <2>1, <2>2, <2>3
<1>10. /\ A[1] < B[m]
       /\ \A i \in 1 .. m : A[1] <= A[i] /\ B[i] <= B[m]
       /\ \A i, j \in 1 .. m : i < j => B[i] <= A[j]
  BY <1>2, <1>7, <1>8, EdgesGrow
<1>11. lo[n] < hi[n]
  BY <1>9, <1>10
<1>12. \A i \in 1 .. m : lo[n] <= lo[v[i]] /\ hi[v[i]] <= hi[n]
  BY <1>7, <1>9, <1>10
<1>13. \A i, j \in 1 .. m : i < j => hi[v[i]] <= lo[v[j]]
  BY <1>7, <1>10
<1> QED BY <1>1, <1>11, <1>12, <1>13

(* The range of a leaf is not empty. *)
LEMMA LeafSpans ==
  ASSUME NEW N, NEW r, NEW L, NEW app, NEW lo, NEW hi, NEW pos, IsNodes(N),
         Ranges(N, r, NULL, NULL, 0, lo, hi), Leaves(N, L, app, lo, hi), Links(N, L, app, pos),
         NEW n \in DOMAIN N, N[n].leaf
  PROVE  lo[n] < hi[n]
<1>1. PICK k : k = N[n].keys
  OBVIOUS
<1>2. k \in Seq(Key) /\ Len(k) \in Nat /\ lo[n] \in Int /\ hi[n] \in Int
  BY <1>1, NodeFacts DEF Ranges
<1>3. CASE Len(k) > 0
  <2>1. 1 \in 1 .. Len(k)
    BY <1>2, <1>3
  <2>2. lo[n] <= k[1] /\ k[1] < hi[n]
    BY <1>1, <2>1 DEF Leaves
  <2>3. k[1] \in Key
    BY <1>2, <2>1
  <2>4. k[1] \in Nat
    BY <2>3, KeyFacts
  <2> QED BY <1>2, <2>2, <2>4
<1>4. CASE ~ (Len(k) > 0)
  <2>1. n = L
    BY <1>1, <1>4 DEF Links
  <2>2. lo[n] = -1
    BY <1>1, <1>4 DEF Leaves
  <2>3. hi[n] = Above
    BY <2>1 DEF Leaves
  <2> QED BY <2>2, <2>3, KeyFacts
<1> QED BY <1>3, <1>4

LEMMA NodesSpan ==
  ASSUME NEW r, NEW L, NEW app, NEW lo, NEW hi, NEW h, NEW pos,
         Shape(nodes, r, L, NULL, NULL, 0, app, lo, hi, h, pos)
  PROVE  Spans(DOMAIN nodes, Kids, lo, hi)
<1>1. PICK N, D, K : N = nodes /\ D = DOMAIN N /\ K = Kids
  OBVIOUS
<1>2. /\ IsNodes(N) /\ Family(N, r, NULL, NULL) /\ Ranges(N, r, NULL, NULL, 0, lo, hi)
      /\ Heights(N, h) /\ Leaves(N, L, app, lo, hi) /\ Links(N, L, app, pos)
  BY <1>1 DEF Shape
<1>3. lo \in [D -> Int] /\ hi \in [D -> Int] /\ h \in [D -> Nat]
  BY <1>1, <1>2 DEF Ranges, Heights
<1>4. Tree(D, r, K, h)
  BY <1>1, <1>2, NodesTree
<1>5. \A n \in D : K[n] = IF N[n].leaf THEN <<>> ELSE N[n].vals
  BY <1>1 DEF Kids, Children
<1>6. \A n \in D : \A i \in 1 .. Len(K[n]) : K[n][i] \in D /\ h[n] = h[K[n][i]] + 1
  BY <1>4 DEF Tree
<1>7. ASSUME NEW n \in D, ~ N[n].leaf, \A i \in 1 .. Len(K[n]) : lo[K[n][i]] < hi[K[n][i]]
      PROVE  /\ lo[n] < hi[n]
             /\ \A i \in 1 .. Len(K[n]) : lo[n] <= lo[K[n][i]] /\ hi[K[n][i]] <= hi[n]
             /\ \A i, j \in 1 .. Len(K[n]) : i < j => hi[K[n][i]] <= lo[K[n][j]]
  <2>1. PICK v : v = N[n].vals
    OBVIOUS
  <2>2. K[n] = v
    BY <1>5, <1>7, <2>1
  <2>3. \A i \in 1 .. Len(v) : lo[v[i]] < hi[v[i]]
    BY <1>7, <2>2
  <2>4. /\ lo[n] < hi[n]
        /\ \A i \in 1 .. Len(v) : lo[n] <= lo[v[i]] /\ hi[v[i]] <= hi[n]
        /\ \A i, j \in 1 .. Len(v) : i < j => hi[v[i]] <= lo[v[j]]
    BY <1>1, <1>2, <1>7, <2>1, <2>3, Divided
  <2> QED BY <2>2, <2>4
<1> DEFINE Bad == {h[n] : n \in {m \in D : ~ (lo[m] < hi[m])}}
<1>8. Bad = {}
  <2> SUFFICES ASSUME Bad # {} PROVE FALSE
    OBVIOUS
  <2>1. Bad \subseteq Nat
    BY <1>3
  <2>2. PICK y \in Bad : \A z \in Bad : y <= z
    <3> HIDE DEF Bad
    <3> QED BY <2>1, LeastOf
  <2>3. PICK n \in D : y = h[n] /\ ~ (lo[n] < hi[n])
    OBVIOUS
  <2>4. ~ N[n].leaf
    BY <1>1, <1>2, <2>3, LeafSpans
  <2>5. ASSUME NEW i \in 1 .. Len(K[n]) PROVE lo[K[n][i]] < hi[K[n][i]]
    <3>1. PICK x : x = K[n][i]
      OBVIOUS
    <3>2. x \in D /\ h[x] \in Nat /\ h[n] = h[x] + 1
      BY <1>3, <1>6, <3>1
    <3>3. h[x] \notin Bad
      <4>1. ~ (h[n] <= h[x])
        BY <3>2
      <4> HIDE DEF Bad
      <4> QED BY <2>2, <2>3, <4>1
    <3> QED BY <3>1, <3>2, <3>3
  <2> HIDE DEF Bad
  <2> QED BY <1>7, <2>3, <2>4, <2>5
<1>9. \A n \in D : lo[n] < hi[n]
  BY <1>8
<1> HIDE DEF Bad
<1>10. ASSUME NEW n \in D
       PROVE  /\ \A i \in 1 .. Len(K[n]) : lo[n] <= lo[K[n][i]] /\ hi[K[n][i]] <= hi[n]
              /\ \A i, j \in 1 .. Len(K[n]) : i < j => hi[K[n][i]] <= lo[K[n][j]]
  <2>1. CASE N[n].leaf
    <3>1. Len(K[n]) = 0
      BY <1>5, <2>1
    <3>2. \A i \in 1 .. Len(K[n]) : FALSE
      BY <3>1
    <3> QED BY <3>2
  <2>2. CASE ~ N[n].leaf
    <3>1. \A i \in 1 .. Len(K[n]) : lo[K[n][i]] < hi[K[n][i]]
      BY <1>6, <1>9
    <3> QED BY <1>7, <2>2, <3>1
  <2> QED BY <2>1, <2>2
<1>11. Spans(D, K, lo, hi)
  BY <1>3, <1>9, <1>10 DEF Spans
<1> QED BY <1>1, <1>11

(* Every node is reached from the root through children. *)
LEMMA TreeReached ==
  ASSUME NEW D, NEW r, NEW K, NEW h, Tree(D, r, K, h), NEW b \in Nat, \A n \in D : h[n] <= b,
         NEW T, r \in T, \A x \in D : x \in T => \A i \in 1 .. Len(K[x]) : K[x][i] \in T
  PROVE  D \subseteq T
<1> DEFINE Bad == {h[n] : n \in {m \in D : m \notin T}}
<1> SUFFICES ASSUME Bad # {} PROVE FALSE
  OBVIOUS
<1>1. \A n \in D : h[n] \in Nat
  BY DEF Tree
<1>2. Bad \subseteq Nat /\ \A z \in Bad : z <= b
  BY <1>1
<1>3. PICK y \in Bad : \A z \in Bad : z <= y
  <2> HIDE DEF Bad
  <2> QED BY <1>2, GreatestOf
<1>4. PICK n \in D : y = h[n] /\ n \notin T
  OBVIOUS
<1>5. PICK p \in D : \E i \in 1 .. Len(K[p]) : K[p][i] = n
  BY <1>4 DEF Tree
<1>6. h[p] = h[n] + 1
  <2>1. \A m \in D : \A i \in 1 .. Len(K[m]) : h[m] = h[K[m][i]] + 1
    BY DEF Tree
  <2>2. PICK i \in 1 .. Len(K[p]) : K[p][i] = n
    BY <1>5
  <2>3. h[p] = h[K[p][i]] + 1
    <3> HIDE DEF Bad
    <3> QED BY <2>1
  <2> QED BY <2>2, <2>3
<1>7. h[p] \notin Bad
  <2>1. h[n] \in Nat /\ ~ (h[p] <= h[n])
    BY <1>1, <1>6
  <2> HIDE DEF Bad
  <2> QED BY <1>3, <1>4, <2>1
<1> QED BY <1>4, <1>5, <1>7

(* The order of the queue: a higher node first, and of two equally high    *)
(* ones that whose keys are the lower ones.                                *)
Before(h, lo, hi, m, n) == h[m] > h[n] \/ (h[m] = h[n] /\ hi[m] <= lo[n])

(* The queue s after k steps. *)
Queued(D, r, K, h, lo, hi, s, k) ==
  /\ Len(s) >= 1 /\ s[1] = r
  /\ \A i, j \in 1 .. Len(s) : i < j => Before(h, lo, hi, s[i], s[j])
  /\ \A j \in 1 .. Len(s) : j # 1 => \E i \in 1 .. Len(s) : i <= k /\ \E l \in 1 .. Len(K[s[i]]) : K[s[i]][l] = s[j]
  /\ \A i \in 1 .. Len(s) : i <= k => \A l \in 1 .. Len(K[s[i]]) : K[s[i]][l] \in ToSet(s)

(* A child of a node joins the queue behind the children of the nodes      *)
(* before it.                                                              *)
LEMMA ChildAfter ==
  ASSUME NEW D, NEW r, NEW K, NEW h, NEW lo, NEW hi, Tree(D, r, K, h), Spans(D, K, lo, hi),
         NEW m \in D, NEW n \in D, NEW l \in 1 .. Len(K[n])
  PROVE  /\ m = n \/ Before(h, lo, hi, m, n) => Before(h, lo, hi, m, K[n][l])
         /\ \A e \in 1 .. Len(K[m]) : Before(h, lo, hi, m, n) => Before(h, lo, hi, K[m][e], K[n][l])
         /\ \A e \in 1 .. Len(K[n]) : e < l => Before(h, lo, hi, K[n][e], K[n][l])
<1>1. /\ K \in [D -> Seq(D)] /\ h \in [D -> Nat] /\ lo \in [D -> Int] /\ hi \in [D -> Int]
      /\ \A x \in D : \A i \in 1 .. Len(K[x]) : h[x] = h[K[x][i]] + 1
  BY DEF Tree, Spans
<1>2. \A x \in D : \A i \in 1 .. Len(K[x]) : K[x][i] \in D
  BY <1>1
<1>3. PICK x : x = K[n][l]
  OBVIOUS
<1>4. x \in D /\ h[n] = h[x] + 1 /\ h[n] \in Nat /\ h[x] \in Nat /\ h[m] \in Nat
  BY <1>1, <1>2, <1>3
<1>5. m = n \/ Before(h, lo, hi, m, n) => Before(h, lo, hi, m, x)
  BY <1>4 DEF Before
<1>6. ASSUME NEW e \in 1 .. Len(K[m]), Before(h, lo, hi, m, n) PROVE Before(h, lo, hi, K[m][e], x)
  <2>1. PICK w : w = K[m][e]
    OBVIOUS
  <2>2. w \in D /\ h[m] = h[w] + 1 /\ h[w] \in Nat
    BY <1>1, <1>2, <2>1
  <2>3. CASE h[m] > h[n]
    <3>1. h[w] > h[x]
      BY <1>4, <2>2, <2>3
    <3> QED BY <2>1, <3>1 DEF Before
  <2>4. CASE h[m] = h[n] /\ hi[m] <= lo[n]
    <3>1. h[w] = h[x]
      BY <1>4, <2>2, <2>4
    <3>2. hi[w] <= hi[m] /\ lo[n] <= lo[x]
      BY <1>3, <2>1 DEF Spans
    <3>3. hi[w] \in Int /\ hi[m] \in Int /\ lo[n] \in Int /\ lo[x] \in Int
      BY <1>1, <1>4, <2>2
    <3>4. hi[w] <= lo[x]
      BY <2>4, <3>2, <3>3
    <3> QED BY <2>1, <3>1, <3>4 DEF Before
  <2> QED BY <1>6, <2>3, <2>4 DEF Before
<1>7. ASSUME NEW e \in 1 .. Len(K[n]), e < l PROVE Before(h, lo, hi, K[n][e], x)
  <2>1. PICK w : w = K[n][e]
    OBVIOUS
  <2>2. w \in D /\ h[n] = h[w] + 1 /\ h[w] \in Nat
    BY <1>1, <1>2, <2>1
  <2>3. h[w] = h[x]
    BY <1>4, <2>2
  <2>4. hi[w] <= lo[x]
    BY <1>3, <1>7, <2>1 DEF Spans
  <2> QED BY <2>1, <2>3, <2>4 DEF Before
<1> QED BY <1>3, <1>5, <1>6, <1>7

LEMMA JoinQueued ==
  ASSUME NEW D, NEW r, NEW K, NEW h, NEW lo, NEW hi, Tree(D, r, K, h), Spans(D, K, lo, hi),
         NEW k \in Nat, NEW s \in Seq(D), Queued(D, r, K, h, lo, hi, s, k),
         NEW t, t = Joins(K, s, k + 1)
  PROVE  Queued(D, r, K, h, lo, hi, t, k + 1)
<1>1. CASE k + 1 > Len(s)
  <2>1. t = s
    BY <1>1 DEF Joins
  <2>2. \A i \in 1 .. Len(s) : i <= k + 1 <=> i <= k
    BY <1>1
  <2>3. \A i \in 1 .. Len(s) : i <= k
    BY <1>1
  <2> QED BY <2>1, <2>2 DEF Queued
<1>2. CASE ~ (k + 1 > Len(s))
  <2>1. PICK n, v, c, d : n = s[k + 1] /\ v = K[n] /\ c = Len(s) /\ d = Len(v)
    OBVIOUS
  <2>2. k + 1 \in 1 .. c /\ n \in D /\ c \in Nat
    BY <1>2, <2>1
  <2>3. v \in Seq(D) /\ d \in Nat /\ \A i \in 1 .. c : s[i] \in D
    <3>1. K \in [D -> Seq(D)]
      BY DEF Tree
    <3>2. v \in Seq(D)
      BY <2>1, <2>2, <3>1
    <3> QED BY <2>1, <3>2
  <2>4. t = s \o v
    BY <1>2, <2>1 DEF Joins
  <2>5. Len(t) = c + d /\ \A i \in 1 .. c + d : t[i] = IF i <= c THEN s[i] ELSE v[i - c]
    BY <2>1, <2>3, <2>4, ConcatProperties
  <2>6. ToSet(t) = ToSet(s) \cup ToSet(v)
    BY ZenonT(60), <2>3, <2>4, Joined
  <2>7. \A i \in 1 .. c : i \in 1 .. c + d /\ t[i] = s[i]
    BY <2>2, <2>3, <2>5
  <2>8. \A i \in 1 .. c + d : i \in 1 .. c \/ (i > c /\ i - c \in 1 .. d /\ t[i] = v[i - c])
    BY <2>2, <2>3, <2>5
  <2>9. /\ c >= 1 /\ s[1] = r
        /\ \A i, j \in 1 .. c : i < j => Before(h, lo, hi, s[i], s[j])
        /\ \A j \in 1 .. c : j # 1 => \E i \in 1 .. c : i <= k /\ \E l \in 1 .. Len(K[s[i]]) : K[s[i]][l] = s[j]
        /\ \A i \in 1 .. c : i <= k => \A l \in 1 .. Len(K[s[i]]) : K[s[i]][l] \in ToSet(s)
    BY <2>1 DEF Queued
  <2>10. ASSUME NEW i \in 1 .. c, NEW l \in 1 .. d PROVE Before(h, lo, hi, s[i], v[l])
    <3>1. CASE i <= k + 1
      <4>1. s[i] = n \/ Before(h, lo, hi, s[i], n)
        <5>1. CASE i = k + 1
          BY <2>1, <5>1
        <5>2. CASE i # k + 1
          <6>1. i < k + 1
            BY <3>1, <5>2
          <6> QED BY <2>1, <2>2, <2>9, <6>1
        <5> QED BY <5>1, <5>2
      <4>2. s[i] \in D /\ l \in 1 .. Len(K[n])
        BY <2>1, <2>3
      <4> QED BY <2>1, <2>2, <4>1, <4>2, ChildAfter
    <3>2. CASE ~ (i <= k + 1)
      <4>1. i # 1
        BY <3>2
      <4>2. PICK p \in 1 .. c : p <= k /\ \E e \in 1 .. Len(K[s[p]]) : K[s[p]][e] = s[i]
        BY <2>9, <4>1
      <4>3. PICK m : m = s[p]
        OBVIOUS
      <4>4. PICK e \in 1 .. Len(K[m]) : K[m][e] = s[i]
        BY <4>2, <4>3
      <4>5. Before(h, lo, hi, m, n) /\ m \in D /\ l \in 1 .. Len(K[n])
        <5>1. p < k + 1
          BY <4>2
        <5> QED BY <2>1, <2>2, <2>3, <2>9, <4>3, <5>1
      <4>6. Before(h, lo, hi, K[m][e], K[n][l])
        BY <2>2, <4>5, ChildAfter
      <4> QED BY <2>1, <4>4, <4>6
    <3> QED BY <3>1, <3>2
  <2>11. ASSUME NEW e \in 1 .. d, NEW l \in 1 .. d, e < l PROVE Before(h, lo, hi, v[e], v[l])
    <3>1. e \in 1 .. Len(K[n]) /\ l \in 1 .. Len(K[n])
      BY <2>1
    <3>2. Before(h, lo, hi, K[n][e], K[n][l])
      BY <2>2, <2>11, <3>1, ChildAfter
    <3> QED BY <2>1, <3>2
  <2>12. ASSUME NEW i \in 1 .. c + d, NEW j \in 1 .. c + d, i < j PROVE Before(h, lo, hi, t[i], t[j])
    <3>1. CASE j \in 1 .. c
      <4>1. i \in 1 .. c
        BY <2>2, <2>12, <3>1
      <4> QED BY <2>7, <2>9, <2>12, <3>1, <4>1
    <3>2. CASE i \in 1 .. c /\ ~ (j \in 1 .. c)
      <4>1. j - c \in 1 .. d /\ t[j] = v[j - c] /\ t[i] = s[i]
        BY <2>7, <2>8, <3>2
      <4> QED BY <2>10, <3>2, <4>1
    <3>3. CASE ~ (i \in 1 .. c) /\ ~ (j \in 1 .. c)
      <4>1. j - c \in 1 .. d /\ t[j] = v[j - c] /\ i - c \in 1 .. d /\ t[i] = v[i - c]
        BY <2>8, <3>3
      <4>2. i - c < j - c
        BY <2>2, <2>12
      <4> QED BY <2>11, <4>1, <4>2
    <3> QED BY <3>1, <3>2, <3>3
  <2>13. ASSUME NEW j \in 1 .. c + d, j # 1
         PROVE  \E i \in 1 .. c + d : i <= k + 1 /\ \E l \in 1 .. Len(K[t[i]]) : K[t[i]][l] = t[j]
    <3>1. CASE j \in 1 .. c
      <4>1. PICK i \in 1 .. c : i <= k /\ \E l \in 1 .. Len(K[s[i]]) : K[s[i]][l] = s[j]
        BY <2>9, <2>13, <3>1
      <4>2. i \in 1 .. c + d /\ t[i] = s[i] /\ t[j] = s[j] /\ i <= k + 1
        BY <2>7, <3>1, <4>1
      <4> QED BY <4>1, <4>2
    <3>2. CASE ~ (j \in 1 .. c)
      <4>1. j - c \in 1 .. d /\ t[j] = v[j - c]
        BY <2>8, <3>2
      <4>2. k + 1 \in 1 .. c + d /\ t[k + 1] = n
        BY <2>1, <2>2, <2>7
      <4>3. k + 1 <= k + 1
        OBVIOUS
      <4> QED BY <2>1, <4>1, <4>2, <4>3
    <3> QED BY <3>1, <3>2
  <2>14. ASSUME NEW i \in 1 .. c + d, i <= k + 1, NEW l \in 1 .. Len(K[t[i]]) PROVE K[t[i]][l] \in ToSet(t)
    <3>1. i \in 1 .. c /\ t[i] = s[i]
      BY <2>2, <2>7, <2>14
    <3>2. CASE i = k + 1
      <4>1. l \in 1 .. d /\ K[t[i]][l] = v[l]
        BY <2>1, <2>14, <3>1, <3>2
      <4>2. v[l] \in ToSet(v)
        BY <2>1, <2>3, <4>1 DEF ToSet
      <4> QED BY <2>6, <4>1, <4>2
    <3>3. CASE i # k + 1
      <4>1. i <= k
        BY <2>14, <3>3
      <4>2. K[s[i]][l] \in ToSet(s)
        BY <2>9, <2>14, <3>1, <4>1
      <4> QED BY <2>6, <3>1, <4>2
    <3> QED BY <3>2, <3>3
  <2>15. Len(t) >= 1 /\ t[1] = r
    <3>1. 1 \in 1 .. c /\ c + d >= 1
      BY <2>2, <2>3, <2>9
    <3> QED BY <2>5, <2>7, <2>9, <3>1
  <2> QED BY SMTT(30), <2>5, <2>12, <2>13, <2>14, <2>15 DEF Queued
<1> QED BY <1>1, <1>2

LEMMA QueuedUpTo ==
  ASSUME NEW D, NEW r, NEW K, NEW h, NEW lo, NEW hi, Tree(D, r, K, h), Spans(D, K, lo, hi),
         NEW c \in Nat, NEW q, \A i \in 0 .. c : q[i] \in Seq(D), IsQueue(q, c, r, K)
  PROVE  \A k \in 0 .. c : Queued(D, r, K, h, lo, hi, q[k], k)
<1> DEFINE Good(k) == Queued(D, r, K, h, lo, hi, q[k], k)
           Bad == {k \in 0 .. c : ~ Good(k)}
<1>1. Good(0)
  <2>1. PICK s : s = q[0]
    OBVIOUS
  <2>2. s = <<r>> /\ Len(s) = 1 /\ s[1] = r
    BY <2>1 DEF IsQueue
  <2>3. \A i : i \in 1 .. 1 <=> i = 1
    OBVIOUS
  <2>4. Queued(D, r, K, h, lo, hi, s, 0)
    BY <2>2, <2>3 DEF Queued
  <2> QED BY <2>1, <2>4
<1>2. ASSUME NEW k \in 1 .. c, Good(k - 1) PROVE Good(k)
  <2>1. PICK s, t : s = q[k - 1] /\ t = q[k]
    OBVIOUS
  <2>2. k - 1 \in Nat /\ k - 1 \in 0 .. c /\ (k - 1) + 1 = k
    OBVIOUS
  <2>3. s \in Seq(D)
    BY <2>1, <2>2
  <2>4. t = Joins(K, s, (k - 1) + 1)
    BY <2>1, <2>2 DEF IsQueue
  <2>5. Queued(D, r, K, h, lo, hi, s, k - 1)
    BY <1>2, <2>1
  <2>6. Queued(D, r, K, h, lo, hi, t, (k - 1) + 1)
    BY <2>2, <2>3, <2>4, <2>5, JoinQueued
  <2> QED BY <2>1, <2>2, <2>6
<1> HIDE DEF Good
<1>3. Bad = {}
  <2> SUFFICES ASSUME Bad # {} PROVE FALSE
    OBVIOUS
  <2>1. Bad \subseteq Nat
    OBVIOUS
  <2>2. PICK k \in Bad : \A j \in Bad : k <= j
    <3> HIDE DEF Bad
    <3> QED BY <2>1, LeastOf
  <2>3. k \in 0 .. c /\ ~ Good(k) /\ k # 0
    BY <1>1
  <2>4. k \in 1 .. c /\ k - 1 \in 0 .. c /\ ~ (k <= k - 1)
    BY <2>3
  <2>5. k - 1 \notin Bad
    <3> HIDE DEF Bad
    <3> QED BY <2>2, <2>4
  <2> QED BY <1>2, <2>3, <2>4, <2>5
<1> QED BY <1>3 DEF Good

(* A sequence without repetitions is no longer than there are elements,    *)
(* and as long only if it has them all.                                    *)
LEMMA OnceBounded ==
  ASSUME NEW D, IsFiniteSet(D), NEW s \in Seq(D), Once(s)
  PROVE  Len(s) <= Cardinality(D) /\ (D \subseteq ToSet(s) => Len(s) = Cardinality(D))
<1>1. PICK m : m = Len(s)
  OBVIOUS
<1>2. m \in Nat /\ s \in [1 .. m -> D] /\ DOMAIN s = 1 .. m
  BY <1>1
<1>3. s \in Injection(1 .. m, D)
  BY <1>1, <1>2 DEF Once, Injection, IsInjective
<1>4. Cardinality(1 .. m) = m
  BY <1>2, FS_Interval
<1>5. m <= Cardinality(D) /\ (m = Cardinality(D) <=> s \in Surjection(1 .. m, D))
  BY <1>3, <1>4, FS_Injection
<1>6. D \subseteq ToSet(s) => s \in Surjection(1 .. m, D)
  BY <1>2 DEF ToSet, Surjection
<1> QED BY <1>1, <1>5, <1>6

(* The queue has every node once when the iterator has come to its end,    *)
(* and is never longer.                                                    *)
LEMMA QueueComplete ==
  ASSUME NEW D, IsFiniteSet(D), NEW r, NEW K, NEW h, NEW lo, NEW hi, Tree(D, r, K, h), Spans(D, K, lo, hi),
         NEW b \in Nat, \A n \in D : h[n] <= b,
         NEW s \in Seq(D), NEW c, c = Cardinality(D), Queued(D, r, K, h, lo, hi, s, c)
  PROVE  ToSet(s) = D /\ Len(s) = c
<1>1. PICK m : m = Len(s)
  OBVIOUS
<1>2. m \in Nat /\ (\A i \in 1 .. m : s[i] \in D) /\ DOMAIN s = 1 .. m
  BY <1>1
<1>3. /\ h \in [D -> Nat] /\ lo \in [D -> Int] /\ hi \in [D -> Int] /\ \A n \in D : lo[n] < hi[n]
  BY DEF Tree, Spans
<1>4. \A n \in D : ~ Before(h, lo, hi, n, n)
  <2> SUFFICES ASSUME NEW n \in D, Before(h, lo, hi, n, n) PROVE FALSE
    OBVIOUS
  <2>1. h[n] \in Nat /\ lo[n] \in Int /\ hi[n] \in Int /\ lo[n] < hi[n]
    BY <1>3
  <2> QED BY <2>1 DEF Before
<1>5. Once(s)
  <2> SUFFICES ASSUME NEW i \in 1 .. m, NEW j \in 1 .. m, s[i] = s[j], i # j PROVE FALSE
    BY <1>1 DEF Once
  <2>1. i < j \/ j < i
    BY <1>2
  <2>2. Before(h, lo, hi, s[i], s[i])
    BY <1>1, <2>1 DEF Queued
  <2> QED BY <1>2, <1>4, <2>2
<1>6. m <= c /\ (D \subseteq ToSet(s) => m = c)
  BY <1>1, <1>5, OnceBounded
<1>7. r \in ToSet(s)
  <2>1. 1 \in 1 .. m /\ s[1] = r
    BY <1>1, <1>2 DEF Queued
  <2> QED BY <1>2, <2>1 DEF ToSet
<1>8. ASSUME NEW x \in D, x \in ToSet(s), NEW l \in 1 .. Len(K[x]) PROVE K[x][l] \in ToSet(s)
  <2>1. PICK i \in 1 .. m : x = s[i]
    BY <1>2, <1>8 DEF ToSet
  <2>2. c \in Nat
    BY FS_CardinalityType
  <2>3. i <= c
    BY <1>2, <1>6, <2>2
  <2> QED BY <1>1, <1>8, <2>1, <2>3 DEF Queued
<1>9. D \subseteq ToSet(s)
  BY <1>7, <1>8, TreeReached
<1>10. ToSet(s) \subseteq D
  BY <1>2 DEF ToSet
<1> QED BY <1>1, <1>6, <1>9, <1>10

(* The concatenation of two sequences, element by element. *)
LEMMA ConcatAt ==
  ASSUME NEW S, NEW a \in Seq(S), NEW b \in Seq(S), NEW v, v = a \o b
  PROVE  /\ Len(v) = Len(a) + Len(b)
         /\ \A j \in 1 .. Len(a) + Len(b) : v[j] = IF j <= Len(a) THEN a[j] ELSE b[j - Len(a)]
BY ConcatProperties

(* The sequences in ss are consecutive pieces of app: p[i] elements are    *)
(* before ss[i].                                                           *)
Placed(p, ss, app) ==
  /\ \A i \in 1 .. Len(ss) : p[i] \in Nat
  /\ p[1] = 0 /\ p[Len(ss)] + Len(ss[Len(ss)]) = Len(app)
  /\ \A i \in 1 .. Len(ss) - 1 : p[i + 1] = p[i] + Len(ss[i])
  /\ \A i \in 1 .. Len(ss) : \A j \in 1 .. Len(ss[i]) : ss[i][j] = app[p[i] + j]

(* F[i] is what the first i sequences of ss make. *)
Built(F, ss, S) ==
  /\ Len(ss) \in Nat /\ \A i \in 1 .. Len(ss) : ss[i] \in Seq(S) /\ F[i] \in Seq(S)
  /\ F[1] = ss[1] /\ \A i \in 1 .. Len(ss) : i # 1 => F[i] = F[i - 1] \o ss[i]

LEMMA BuiltExists ==
  ASSUME NEW S, NEW ss \in Seq(Seq(S)), Len(ss) # 0
  PROVE  \E F : Built(F, ss, S) /\ FlattenSeq(ss) = F[Len(ss)]
<1>1. PICK F \in [1 .. Len(ss) -> Seq(S)] :
         /\ F[1] = ss[1] /\ FlattenSeq(ss) = F[Len(ss)]
         /\ \A i \in 1 .. Len(ss) : i # 1 => F[i] = F[i - 1] \o ss[i]
  BY FlattenIs
<1>2. Len(ss) \in Nat /\ \A i \in 1 .. Len(ss) : ss[i] \in Seq(S)
  OBVIOUS
<1>3. \A i \in 1 .. Len(ss) : F[i] \in Seq(S)
  OBVIOUS
<1>4. Built(F, ss, S)
  BY <1>1, <1>2, <1>3 DEF Built
<1> QED BY <1>1, <1>4

(* The pieces of a sequence, flattened, are the sequence. *)
LEMMA Pieces ==
  ASSUME NEW S, NEW app \in Seq(S), NEW ss, Len(ss) # 0, NEW p, Placed(p, ss, app),
         NEW F, Built(F, ss, S)
  PROVE  F[Len(ss)] = app
<1>0. PICK m : m = Len(ss)
  OBVIOUS
<1>1. m \in Nat /\ m >= 1 /\ \A i \in 1 .. m : ss[i] \in Seq(S) /\ Len(ss[i]) \in Nat
  <2>1. m \in Nat /\ m >= 1 /\ \A i \in 1 .. m : ss[i] \in Seq(S)
    BY <1>0 DEF Built
  <2> QED BY <2>1
<1>2. /\ \A i \in 1 .. m : F[i] \in Seq(S)
      /\ F[1] = ss[1] /\ \A i \in 1 .. m : i # 1 => F[i] = F[i - 1] \o ss[i]
  BY <1>0 DEF Built
<1>21. /\ \A i \in 1 .. m : p[i] \in Nat
       /\ p[1] = 0 /\ p[m] + Len(ss[m]) = Len(app)
       /\ \A i \in 1 .. m - 1 : p[i + 1] = p[i] + Len(ss[i])
       /\ \A i \in 1 .. m : \A j \in 1 .. Len(ss[i]) : ss[i][j] = app[p[i] + j]
  BY <1>0 DEF Placed
<1> DEFINE Good(i) == /\ Len(F[i]) = p[i] + Len(ss[i])
                      /\ \A j \in 1 .. Len(F[i]) : F[i][j] = app[j]
           Bad == {i \in 1 .. m : ~ Good(i)}
<1>3. Good(1)
  <2>1. PICK u : u = ss[1]
    OBVIOUS
  <2>2. 1 \in 1 .. m
    BY <1>1
  <2>3. u \in Seq(S) /\ Len(u) \in Nat
    BY <1>1, <2>1, <2>2
  <2>4. ASSUME NEW j \in 1 .. Len(u) PROVE u[j] = app[j]
    <3>1. ss[1][j] = app[p[1] + j]
      BY <1>21, <2>1, <2>2
    <3>2. p[1] + j = j
      BY <1>21, <2>3
    <3> QED BY <2>1, <3>1, <3>2
  <2>5. F[1] = u /\ p[1] + Len(ss[1]) = Len(u)
    BY <1>2, <1>21, <2>1, <2>3
  <2> QED BY <2>4, <2>5
<1>4. ASSUME NEW i \in 2 .. m, Good(i - 1) PROVE Good(i)
  <2>1. PICK a, b, v, x, y, z : /\ a = F[i - 1] /\ b = ss[i] /\ v = F[i] /\ x = Len(a) /\ y = Len(b)
                                /\ z = p[i]
    OBVIOUS
  <2>2. i \in 1 .. m /\ i # 1 /\ i - 1 \in 1 .. m /\ i - 1 \in 1 .. m - 1 /\ (i - 1) + 1 = i
    BY <1>1
  <2>3. a \in Seq(S) /\ b \in Seq(S) /\ v = a \o b /\ z \in Nat
    BY <1>1, <1>2, <1>21, <2>1, <2>2
  <2>4. x = p[i - 1] + Len(ss[i - 1]) /\ \A j \in 1 .. x : a[j] = app[j]
    BY <1>4, <2>1
  <2>5. x = z
    BY <1>21, <2>1, <2>2, <2>4
  <2>6. x \in Nat /\ y \in Nat
    BY <2>1, <2>3
  <2>7. Len(v) = x + y /\ \A j \in 1 .. x + y : v[j] = IF j <= x THEN a[j] ELSE b[j - x]
    <3>1. /\ Len(v) = Len(a) + Len(b)
          /\ \A j \in 1 .. Len(a) + Len(b) : v[j] = IF j <= Len(a) THEN a[j] ELSE b[j - Len(a)]
      BY <2>3, ConcatAt
    <3> QED BY <2>1, <3>1
  <2>8. \A j \in 1 .. y : b[j] = app[z + j]
    BY <1>21, <2>1, <2>2
  <2>9. ASSUME NEW j \in 1 .. x + y PROVE v[j] = app[j]
    <3>1. CASE j <= x
      <4>1. j \in 1 .. x
        BY <2>6, <3>1
      <4> QED BY <2>4, <2>7, <3>1, <4>1
    <3>2. CASE ~ (j <= x)
      <4>1. j - x \in 1 .. y /\ z + (j - x) = j
        BY <2>5, <2>6, <3>2
      <4>2. v[j] = b[j - x]
        BY <2>7, <3>2
      <4> QED BY <2>8, <4>1, <4>2
    <3> QED BY <3>1, <3>2
  <2>10. Len(v) = z + y
    BY <2>5, <2>7
  <2> QED BY <2>1, <2>7, <2>9, <2>10
<1> HIDE DEF Good
<1>5. Bad = {}
  <2> SUFFICES ASSUME Bad # {} PROVE FALSE
    OBVIOUS
  <2>1. Bad \subseteq Nat
    BY <1>1
  <2>2. PICK k \in Bad : \A j \in Bad : k <= j
    <3> HIDE DEF Bad
    <3> QED BY <2>1, LeastOf
  <2>3. k \in 1 .. m /\ ~ Good(k) /\ k # 1
    BY <1>3
  <2>4. k \in 2 .. m /\ k - 1 \in 1 .. m /\ ~ (k <= k - 1)
    BY <1>1, <2>3
  <2>5. k - 1 \notin Bad
    <3> HIDE DEF Bad
    <3> QED BY <2>2, <2>4
  <2> QED BY <1>4, <2>3, <2>4, <2>5
<1>6. m \in 1 .. m /\ Good(m)
  <2>1. m \in 1 .. m
    BY <1>1
  <2> QED BY <1>5, <2>1
<1>7. PICK v : v = F[m]
  OBVIOUS
<1>8. v \in Seq(S) /\ Len(v) = Len(app) /\ \A j \in 1 .. Len(v) : v[j] = app[j]
  BY <1>2, <1>21, <1>6, <1>7 DEF Good
<1>9. v = app
  BY <1>8, SeqEqual
<1> QED BY <1>0, <1>7, <1>9

(* Keys that were appended in order. *)
Ascending(app) == \A i, j \in 1 .. Len(app) : i < j => app[i] < app[j]

(* Every appended key is in a leaf. *)
LEMMA LeavesCover ==
  ASSUME NEW N, NEW L, NEW app, NEW pos, IsNodes(N), app \in Seq(Key), Links(N, L, app, pos),
         NEW i \in 1 .. Len(app)
  PROVE  \E n \in DOMAIN N : N[n].leaf /\ pos[n] < i /\ i <= pos[n] + Len(N[n].keys)
<1> DEFINE S == {pos[n] : n \in {m \in DOMAIN N : N[m].leaf /\ pos[m] < i}}
<1>1. i \in Nat /\ Len(app) \in Nat /\ i <= Len(app)
  OBVIOUS
<1>2. \A n \in DOMAIN N : pos[n] \in Nat
  BY DEF Links
<1>3. S \subseteq Nat /\ \A z \in S : z <= i
  BY <1>1, <1>2
<1>4. S # {}
  <2>1. 1 \in DOMAIN N /\ N[1].leaf /\ pos[1] = 0 /\ pos[1] < i
    BY <1>1 DEF Links
  <2> QED BY <2>1
<1>5. PICK y \in S : \A z \in S : z <= y
  <2> HIDE DEF S
  <2> QED BY <1>1, <1>3, <1>4, GreatestOf
<1>6. PICK n \in DOMAIN N : y = pos[n] /\ N[n].leaf /\ pos[n] < i
  OBVIOUS
<1>7. ~ (i <= pos[n] + Len(N[n].keys)) => FALSE
  <2> SUFFICES ASSUME ~ (i <= pos[n] + Len(N[n].keys)) PROVE FALSE
    OBVIOUS
  <2>1. PICK x, d : x = N[n].next /\ d = Len(N[n].keys)
    OBVIOUS
  <2>2. d \in Nat /\ pos[n] \in Nat /\ pos[n] + d < i
    BY <1>1, <1>2, <2>1, NodeFacts
  <2>3. n # L
    <3>1. ASSUME n = L PROVE FALSE
      <4>1. pos[n] + d = Len(app)
        BY <1>6, <2>1, <3>1 DEF Links
      <4> QED BY <1>1, <2>2, <4>1
    <3> QED BY <3>1
  <2>4. x \in DOMAIN N /\ N[x].leaf /\ d > 0 /\ pos[x] = pos[n] + d
    BY <1>6, <2>1, <2>3 DEF Links
  <2>5. pos[x] \in S
    BY <2>2, <2>4
  <2>6. pos[x] <= pos[n]
    <3> HIDE DEF S
    <3> QED BY <1>5, <1>6, <2>5
  <2> HIDE DEF S
  <2> QED BY <2>2, <2>4, <2>6
<1> QED BY <1>6, <1>7

(* Of two leaves the one with the lower range has the earlier keys. *)
LEMMA LeafOrder ==
  ASSUME NEW N, NEW r, NEW L, NEW app, NEW lo, NEW hi, NEW pos, IsNodes(N), Ascending(app),
         Ranges(N, r, NULL, NULL, 0, lo, hi), Leaves(N, L, app, lo, hi), Links(N, L, app, pos),
         NEW m \in DOMAIN N, N[m].leaf, NEW n \in DOMAIN N, N[n].leaf, hi[m] <= lo[n]
  PROVE  pos[m] + Len(N[m].keys) <= pos[n]
<1>1. PICK k, l, x, y, a, b : /\ k = N[m].keys /\ l = N[n].keys /\ x = Len(k) /\ y = Len(l)
                              /\ a = pos[m] /\ b = pos[n]
  OBVIOUS
<1>2. k \in Seq(Key) /\ l \in Seq(Key) /\ app \in Seq(Key)
  BY <1>1, NodeFacts DEF Leaves
<1>3. /\ x \in Nat /\ y \in Nat /\ Len(app) \in Nat /\ a \in Nat /\ b \in Nat
      /\ lo[m] \in Int /\ hi[m] \in Int /\ lo[n] \in Int /\ hi[n] \in Int
  BY <1>1, <1>2 DEF Links, Ranges
<1>4. /\ a + x <= Len(app) /\ b + y <= Len(app)
      /\ \A j \in 1 .. x : k[j] = app[a + j] /\ lo[m] <= k[j] /\ k[j] < hi[m]
      /\ \A j \in 1 .. y : l[j] = app[b + j] /\ lo[n] <= l[j] /\ l[j] < hi[n]
  BY <1>1 DEF Links, Leaves
<1>5. (m = L => hi[m] = Above) /\ (m # L => x > 0) /\ (n # L => y > 0) /\ (n = L => b + y = Len(app))
  BY <1>1 DEF Links, Leaves
<1>6. y > 0 => lo[n] < Above
  <2> SUFFICES ASSUME y > 0 PROVE lo[n] < Above
    OBVIOUS
  <2>1. 1 \in 1 .. y
    BY <1>3
  <2>2. lo[n] <= l[1] /\ l[1] \in Key
    BY <1>1, <1>2, <1>4, <2>1
  <2>3. l[1] \in Nat /\ l[1] < Above /\ Above \in Nat
    BY <2>2, KeyFacts
  <2> QED BY <1>3, <2>2, <2>3
<1>7. CASE m = L
  <2>1. n = L \/ n # L
    OBVIOUS
  <2>2. lo[n] >= Above
    BY <1>5, <1>7, <1>3, KeyFacts
  <2>3. ~ (y > 0)
    BY <1>3, <1>6, <2>2, KeyFacts
  <2>4. n = L /\ y = 0
    BY <1>3, <1>5, <2>3
  <2>5. x = 0 /\ a = b
    BY <1>1, <1>7, <2>4
  <2> QED BY <1>1, <1>3, <2>5
<1>8. CASE m # L /\ y = 0
  <2>1. b = Len(app)
    BY <1>3, <1>5, <1>8
  <2> QED BY <1>1, <1>4, <2>1
<1>9. CASE m # L /\ y # 0
  <2>1. x \in 1 .. x /\ 1 \in 1 .. y
    BY <1>3, <1>5, <1>9
  <2>2. k[x] = app[a + x] /\ k[x] < hi[m] /\ l[1] = app[b + 1] /\ lo[n] <= l[1]
    BY <1>4, <2>1
  <2>3. k[x] \in Key /\ l[1] \in Key
    BY <1>1, <1>2, <2>1
  <2>4. k[x] \in Nat /\ l[1] \in Nat
    BY <2>3, KeyFacts
  <2>5. app[a + x] < app[b + 1] /\ app[a + x] \in Nat /\ app[b + 1] \in Nat
    BY <1>3, <2>2, <2>4
  <2>6. a + x \in 1 .. Len(app) /\ b + 1 \in 1 .. Len(app)
    BY <1>3, <1>4, <2>1
  <2>7. ~ (b + 1 <= a + x)
    <3>1. ASSUME b + 1 = a + x PROVE FALSE
      BY <2>5, <3>1
    <3>2. ASSUME b + 1 < a + x PROVE FALSE
      <4>1. app[b + 1] < app[a + x]
        BY <2>6, <3>2 DEF Ascending
      <4> QED BY <2>5, <4>1
    <3> QED BY <1>3, <3>1, <3>2
  <2> QED BY <1>1, <1>3, <2>7
<1> QED BY <1>7, <1>8, <1>9

(* Intervals in order that cover all the numbers up to n leave no gap. *)
Tiled(m, n, a, b) ==
  /\ m \in Nat /\ m >= 1 /\ n \in Nat
  /\ \A i \in 1 .. m : a[i] \in Nat /\ b[i] \in Nat /\ a[i] + b[i] <= n
  /\ \A i, j \in 1 .. m : i < j => a[i] + b[i] <= a[j]
  /\ \A x \in 1 .. n : \E i \in 1 .. m : a[i] < x /\ x <= a[i] + b[i]

LEMMA Tiles ==
  ASSUME NEW m, NEW n, NEW a, NEW b, Tiled(m, n, a, b)
  PROVE  a[1] = 0 /\ a[m] + b[m] = n /\ \A i \in 1 .. m - 1 : a[i + 1] = a[i] + b[i]
<1> SUFFICES
      ASSUME m \in Nat, m >= 1, n \in Nat,
             \A i \in 1 .. m : a[i] \in Nat /\ b[i] \in Nat /\ a[i] + b[i] <= n,
             \A i, j \in 1 .. m : i < j => a[i] + b[i] <= a[j],
             \A x \in 1 .. n : \E i \in 1 .. m : a[i] < x /\ x <= a[i] + b[i]
      PROVE  a[1] = 0 /\ a[m] + b[m] = n /\ \A i \in 1 .. m - 1 : a[i + 1] = a[i] + b[i]
  BY DEF Tiled
<1>1. 1 \in 1 .. m /\ m \in 1 .. m
  OBVIOUS
<1>2. a[1] = 0
  <2> SUFFICES ASSUME a[1] # 0 PROVE FALSE
    OBVIOUS
  <2>1. PICK x : x = a[1]
    OBVIOUS
  <2>2. x \in 1 .. n
    BY <1>1, <2>1
  <2>3. PICK i \in 1 .. m : a[i] < x /\ x <= a[i] + b[i]
    BY <2>2
  <2>4. i # 1
    BY <1>1, <2>1, <2>2, <2>3
  <2>5. a[1] + b[1] <= a[i]
    BY <1>1, <2>4
  <2> QED BY <1>1, <2>1, <2>3, <2>5
<1>3. a[m] + b[m] = n
  <2> SUFFICES ASSUME a[m] + b[m] # n PROVE FALSE
    OBVIOUS
  <2>1. PICK x : x = a[m] + b[m] + 1
    OBVIOUS
  <2>2. x \in 1 .. n
    <3>1. PICK d, e : d = a[m] /\ e = b[m]
      OBVIOUS
    <3>2. d \in Nat /\ e \in Nat /\ d + e <= n /\ d + e # n
      BY <1>1, <3>1
    <3>3. x = d + e + 1
      BY <2>1, <3>1
    <3> QED BY <3>2, <3>3
  <2>3. PICK i \in 1 .. m : a[i] < x /\ x <= a[i] + b[i]
    BY <2>2
  <2>4. i # m
    BY <1>1, <2>1, <2>2, <2>3
  <2>5. a[i] + b[i] <= a[m]
    BY <1>1, <2>4
  <2> QED BY <1>1, <2>1, <2>3, <2>5
<1>4. ASSUME NEW i \in 1 .. m - 1, a[i + 1] # a[i] + b[i] PROVE FALSE
  <2>1. i \in 1 .. m /\ i + 1 \in 1 .. m /\ i < i + 1
    OBVIOUS
  <2>2. PICK x : x = a[i] + b[i] + 1
    OBVIOUS
  <2>3. a[i] + b[i] <= a[i + 1]
    BY <2>1
  <2>4. x \in 1 .. n /\ x <= a[i + 1]
    <3>1. PICK d, e, f, g : d = a[i] /\ e = b[i] /\ f = a[i + 1] /\ g = b[i + 1]
      OBVIOUS
    <3>2. d \in Nat /\ e \in Nat /\ f \in Nat /\ g \in Nat /\ f + g <= n
      BY <2>1, <3>1
    <3>3. d + e <= f /\ d + e # f
      BY <1>4, <2>3, <3>1
    <3>4. x = d + e + 1
      BY <2>2, <3>1
    <3>5. x \in 1 .. n /\ x <= f
      BY <3>2, <3>3, <3>4
    <3> QED BY <3>1, <3>5
  <2>5. PICK j \in 1 .. m : a[j] < x /\ x <= a[j] + b[j]
    BY <2>4
  <2>6. CASE j = i
    BY <2>1, <2>2, <2>5, <2>6
  <2>7. CASE j < i
    <3>1. a[j] + b[j] <= a[i]
      BY <2>1, <2>7
    <3> QED BY <2>1, <2>2, <2>5, <3>1
  <2>8. CASE j = i + 1
    BY <2>1, <2>4, <2>5, <2>8
  <2>9. CASE j > i + 1
    <3>1. a[i + 1] + b[i + 1] <= a[j]
      BY <2>1, <2>9
    <3> QED BY <2>1, <2>4, <2>5, <3>1
  <2> QED BY <2>6, <2>7, <2>8, <2>9
<1> QED BY <1>2, <1>3, <1>4

(* The leaves come last in the queue. *)
Ordered(h, lo, hi, s) == \A i, j \in 1 .. Len(s) : i < j => Before(h, lo, hi, s[i], s[j])

LEMMA LeavesLast ==
  ASSUME NEW D, NEW h, Typed(h, D, Nat), NEW lo, NEW hi, NEW s \in Seq(D), Ordered(h, lo, hi, s)
  PROVE  \E k \in 0 .. Len(s) : \A i \in 1 .. Len(s) : h[s[i]] = 0 <=> i > k
<1> DEFINE S == {i \in 1 .. Len(s) : h[s[i]] # 0}
<1>1. Len(s) \in Nat /\ \A i \in 1 .. Len(s) : s[i] \in D /\ h[s[i]] \in Nat
  BY DEF Typed
<1>2. CASE S = {}
  <2>1. \A i \in 1 .. Len(s) : h[s[i]] = 0 /\ i > 0
    BY <1>2
  <2> QED BY <1>1, <2>1
<1>3. CASE S # {}
  <2>1. S \subseteq Nat /\ \A i \in S : i <= Len(s)
    BY <1>1
  <2>2. PICK k \in S : \A i \in S : i <= k
    <3> HIDE DEF S
    <3> QED BY <1>1, <1>3, <2>1, GreatestOf
  <2>3. k \in 1 .. Len(s) /\ h[s[k]] # 0
    OBVIOUS
  <2>4. ASSUME NEW i \in 1 .. Len(s) PROVE h[s[i]] = 0 <=> i > k
    <3>1. CASE i < k
      <4>1. Before(h, lo, hi, s[i], s[k])
        BY <2>3, <3>1 DEF Ordered
      <4>2. h[s[i]] >= h[s[k]]
        BY <1>1, <2>3, <4>1 DEF Before
      <4> QED BY <1>1, <2>3, <3>1, <4>2
    <3>2. CASE i = k
      BY <2>3, <3>2
    <3>3. CASE i > k
      <4>1. i \notin S
        <5>1. ~ (i <= k)
          BY <2>3, <3>3
        <5> HIDE DEF S
        <5> QED BY <2>2, <5>1
      <4> QED BY <3>3, <4>1
    <3> QED BY <2>3, <3>1, <3>2, <3>3
  <2>5. k \in 0 .. Len(s)
    BY <1>1, <2>3
  <2> HIDE DEF S
  <2> QED BY <2>4, <2>5
<1> QED BY <1>2, <1>3

(* The keys of the leaves l, in order, are what was appended. *)
AllLeaves(N, l, lo, hi) ==
  /\ Len(l) \in Nat
  /\ \A i \in 1 .. Len(l) : l[i] \in DOMAIN N /\ N[l[i]].leaf
  /\ \A n \in DOMAIN N : N[n].leaf => \E i \in 1 .. Len(l) : l[i] = n
  /\ \A i, j \in 1 .. Len(l) : i < j => hi[l[i]] <= lo[l[j]]

TheirKeys(N, l, ss) == Len(ss) = Len(l) /\ \A i \in 1 .. Len(l) : ss[i] = N[l[i]].keys

LEMMA LeavesPlaced ==
  ASSUME NEW N, NEW r, NEW L, NEW app, NEW lo, NEW hi, NEW pos, IsNodes(N), Ascending(app),
         Ranges(N, r, NULL, NULL, 0, lo, hi), Leaves(N, L, app, lo, hi), Links(N, L, app, pos),
         NEW l, AllLeaves(N, l, lo, hi), NEW ss, TheirKeys(N, l, ss)
  PROVE  Len(ss) # 0 /\ \E p : Placed(p, ss, app)
<1>1. PICK m, n, a, b : /\ m = Len(l) /\ n = Len(app) /\ a = [i \in 1 .. m |-> pos[l[i]]]
                        /\ b = [i \in 1 .. m |-> Len(ss[i])]
  OBVIOUS
<1>2. app \in Seq(Key) /\ n \in Nat /\ m \in Nat
  BY <1>1 DEF Leaves, AllLeaves
<1>3. \A i \in 1 .. m : /\ a[i] = pos[l[i]] /\ b[i] = Len(ss[i]) /\ ss[i] = N[l[i]].keys
                         /\ l[i] \in DOMAIN N /\ N[l[i]].leaf
  BY <1>1 DEF AllLeaves, TheirKeys
<1>4. ASSUME NEW i \in 1 .. m
      PROVE  /\ a[i] \in Nat /\ b[i] \in Nat /\ a[i] + b[i] <= n
             /\ \A j \in 1 .. Len(ss[i]) : ss[i][j] = app[a[i] + j]
  <2>1. PICK x : x = l[i] /\ x \in DOMAIN N /\ N[x].leaf
    BY <1>3
  <2>2. a[i] = pos[x] /\ ss[i] = N[x].keys /\ b[i] = Len(N[x].keys)
    BY <1>3, <2>1
  <2>3. /\ pos[x] + Len(N[x].keys) <= Len(app) /\ pos[x] \in Nat
        /\ \A j \in 1 .. Len(N[x].keys) : N[x].keys[j] = app[pos[x] + j]
    BY <2>1 DEF Links
  <2>4. Len(N[x].keys) \in Nat
    BY <2>1, NodeFacts
  <2> QED BY <1>1, <2>2, <2>3, <2>4
<1>5. ASSUME NEW i \in 1 .. m, NEW j \in 1 .. m, i < j PROVE a[i] + b[i] <= a[j]
  <2>1. PICK x, y : x = l[i] /\ y = l[j] /\ x \in DOMAIN N /\ N[x].leaf /\ y \in DOMAIN N /\ N[y].leaf
    BY <1>3
  <2>2. hi[x] <= lo[y]
    BY <1>1, <1>5, <2>1 DEF AllLeaves
  <2>3. pos[x] + Len(N[x].keys) <= pos[y]
    BY <2>1, <2>2, LeafOrder
  <2> QED BY <1>3, <2>1, <2>3
<1>6. ASSUME NEW x \in 1 .. n PROVE \E i \in 1 .. m : a[i] < x /\ x <= a[i] + b[i]
  <2>1. PICK y \in DOMAIN N : N[y].leaf /\ pos[y] < x /\ x <= pos[y] + Len(N[y].keys)
    BY <1>1, <1>2, LeavesCover
  <2>2. PICK i \in 1 .. m : l[i] = y
    BY <1>1, <2>1 DEF AllLeaves
  <2>3. a[i] = pos[y] /\ b[i] = Len(N[y].keys)
    BY <1>3, <2>2
  <2> QED BY <2>1, <2>2, <2>3
<1>7. m >= 1
  <2>1. 1 \in DOMAIN N /\ N[1].leaf
    BY DEF Links
  <2>2. PICK i \in 1 .. m : l[i] = 1
    BY <1>1, <2>1 DEF AllLeaves
  <2> QED BY <1>2, <2>2
<1>8. a[1] = 0 /\ a[m] + b[m] = n /\ \A i \in 1 .. m - 1 : a[i + 1] = a[i] + b[i]
  <2>1. \A i \in 1 .. m : a[i] \in Nat /\ b[i] \in Nat /\ a[i] + b[i] <= n
    BY <1>4
  <2>2. \A i, j \in 1 .. m : i < j => a[i] + b[i] <= a[j]
    BY <1>5
  <2>3. \A x \in 1 .. n : \E i \in 1 .. m : a[i] < x /\ x <= a[i] + b[i]
    BY <1>6
  <2>4. Tiled(m, n, a, b)
    BY <1>2, <1>7, <2>1, <2>2, <2>3 DEF Tiled
  <2> QED BY <2>4, Tiles
<1>9. Len(ss) = m /\ n = Len(app)
  BY <1>1 DEF TheirKeys
<1>10. b[m] = Len(ss[m]) /\ \A i \in 1 .. m - 1 : b[i] = Len(ss[i])
  <2>1. m \in 1 .. m /\ \A i \in 1 .. m - 1 : i \in 1 .. m
    BY <1>2, <1>7
  <2> QED BY <1>3, <2>1
<1>11. Placed(a, ss, app)
  BY <1>4, <1>8, <1>9, <1>10 DEF Placed
<1> QED BY <1>2, <1>7, <1>9, <1>11

(* The keys of nodes. *)
KeysOf(N, l) == [i \in DOMAIN l |-> N[l[i]].keys]

LEMMA KeysOfType ==
  ASSUME NEW N, IsNodes(N), NEW l \in Seq(DOMAIN N), NEW ss, ss = KeysOf(N, l)
  PROVE  ss \in Seq(Seq(Key)) /\ TheirKeys(N, l, ss)
<1>1. PICK m, S : m = Len(l) /\ S = Seq(Key)
  OBVIOUS
<1>2. m \in Nat /\ DOMAIN l = 1 .. m /\ \A i \in 1 .. m : l[i] \in DOMAIN N
  BY <1>1
<1>3. \A i \in 1 .. m : N[l[i]].keys \in S
  BY <1>1, <1>2, NodeFacts
<1>4. ss = [i \in 1 .. m |-> N[l[i]].keys]
  BY <1>2 DEF KeysOf
<1>5. ss \in [1 .. m -> S]
  BY <1>3, <1>4
<1>6. ss \in Seq(S) /\ Len(ss) = m
  BY <1>2, <1>5, AsSeq
<1> QED BY <1>1, <1>4, <1>6 DEF TheirKeys

(* In a queue of all the nodes, in the order of the iterator, the last     *)
(* ones are the leaves, with the keys as they were appended.               *)
LEMMA QueueLeaves ==
  ASSUME NEW N, NEW r, NEW L, NEW app, NEW lo, NEW hi, NEW h, NEW pos, IsNodes(N), Ascending(app),
         Heights(N, h), Ranges(N, r, NULL, NULL, 0, lo, hi), Leaves(N, L, app, lo, hi), Links(N, L, app, pos),
         NEW s \in Seq(DOMAIN N), ToSet(s) = DOMAIN N, Ordered(h, lo, hi, s)
  PROVE  \E k \in 0 .. Len(s) : /\ \A i \in 1 .. Len(s) : N[s[i]].leaf <=> i > k
                                /\ FlattenSeq(KeysOf(N, Rest(s, k))) = app
<1>1. Typed(h, DOMAIN N, Nat) /\ \A n \in DOMAIN N : N[n].leaf <=> h[n] = 0
  BY DEF Heights, Typed
<1>2. PICK k \in 0 .. Len(s) : \A i \in 1 .. Len(s) : h[s[i]] = 0 <=> i > k
  BY <1>1, LeavesLast
<1>3. PICK l, m : l = Rest(s, k) /\ m = Len(l)
  OBVIOUS
<1>4. k \in Nat /\ k <= Len(s) /\ Len(s) \in Nat /\ \A i \in 1 .. Len(s) : s[i] \in DOMAIN N
  OBVIOUS
<1>5. /\ l \in Seq(DOMAIN N) /\ m = Len(s) - k /\ m \in Nat
      /\ \A i \in 1 .. m : l[i] = s[k + i] /\ k + i \in 1 .. Len(s) /\ k + i > k
  <2>1. l \in Seq(DOMAIN N) /\ m = Len(s) - k /\ \A i \in 1 .. Len(s) - k : l[i] = s[k + i]
    BY <1>3, <1>4, RestFacts
  <2> QED BY <1>4, <2>1
<1>6. \A i \in 1 .. Len(s) : N[s[i]].leaf <=> i > k
  BY <1>1, <1>2, <1>4
<1>7. \A i \in 1 .. m : l[i] \in DOMAIN N /\ N[l[i]].leaf
  BY <1>4, <1>5, <1>6
<1>8. ASSUME NEW n \in DOMAIN N, N[n].leaf PROVE \E i \in 1 .. m : l[i] = n
  <2>1. PICK j \in 1 .. Len(s) : s[j] = n
    BY DEF ToSet
  <2>2. j > k
    BY <1>6, <1>8, <2>1
  <2>3. j - k \in 1 .. m /\ k + (j - k) = j
    BY <1>4, <1>5, <2>2
  <2> QED BY <1>5, <2>1, <2>3
<1>9. ASSUME NEW i \in 1 .. m, NEW j \in 1 .. m, i < j PROVE hi[l[i]] <= lo[l[j]]
  <2>1. PICK x, y : x = l[i] /\ y = l[j] /\ x = s[k + i] /\ y = s[k + j]
    BY <1>5
  <2>2. h[x] = 0 /\ h[y] = 0
    BY <1>2, <1>5, <2>1
  <2>3. k + i < k + j
    BY <1>4, <1>9
  <2>4. Before(h, lo, hi, x, y)
    BY <1>5, <2>1, <2>3 DEF Ordered
  <2> QED BY <2>1, <2>2, <2>4 DEF Before
<1>10. PICK ss : ss = KeysOf(N, l)
  OBVIOUS
<1>11. ss \in Seq(Seq(Key)) /\ TheirKeys(N, l, ss)
  BY <1>5, <1>10, KeysOfType
<1>12. Len(ss) # 0 /\ \E p : Placed(p, ss, app)
  <2>1. Len(l) \in Nat
    BY <1>3, <1>5
  <2>2. \A i \in 1 .. Len(l) : l[i] \in DOMAIN N /\ N[l[i]].leaf
    BY <1>3, <1>7
  <2>3. \A n \in DOMAIN N : N[n].leaf => \E i \in 1 .. Len(l) : l[i] = n
    BY <1>3, <1>8
  <2>4. \A i, j \in 1 .. Len(l) : i < j => hi[l[i]] <= lo[l[j]]
    BY <1>3, <1>9
  <2>5. AllLeaves(N, l, lo, hi)
    BY <2>1, <2>2, <2>3, <2>4 DEF AllLeaves
  <2>6. TheirKeys(N, l, ss)
    BY <1>11
  <2> QED BY <2>5, <2>6, LeavesPlaced
<1>13. PICK F : Built(F, ss, Key) /\ FlattenSeq(ss) = F[Len(ss)]
  BY <1>11, <1>12, BuiltExists
<1>14. F[Len(ss)] = app
  BY <1>12, <1>13, Pieces DEF Leaves
<1> QED BY <1>3, <1>6, <1>10, <1>13, <1>14

(* What BfsComplete says of a queue of the nodes. *)
Listed(queue) ==
  /\ ToSet(queue) = DOMAIN nodes /\ Len(queue) = Cardinality(DOMAIN nodes)
  /\ \E inner \in 0 .. Len(queue) :
       /\ \A i \in 1 .. Len(queue) : nodes[queue[i]].leaf <=> i > inner
       /\ FlattenSeq(KeysOf(nodes, Rest(queue, inner))) = appended

LEMMA ReadyBfs ==
  ASSUME Ready(nodes, root, last_leaf, appended), Ascending(appended)
  PROVE  Listed(mbptree_bfs_iteration) /\ DOMAIN mbptree_bfs_iteration = 1 .. Len(mbptree_bfs_iteration)
<1>1. PICK lo, hi, h, pos : Shape(nodes, root, last_leaf, NULL, NULL, 0, appended, lo, hi, h, pos)
  BY DEF Ready
<1>2. /\ IsNodes(nodes) /\ Family(nodes, root, NULL, NULL) /\ Ranges(nodes, root, NULL, NULL, 0, lo, hi)
      /\ Heights(nodes, h) /\ Leaves(nodes, last_leaf, appended, lo, hi) /\ Links(nodes, last_leaf, appended, pos)
  BY <1>1 DEF Shape
<1>3. PICK D, K, c : D = DOMAIN nodes /\ K = Kids /\ c = Cardinality(D)
  OBVIOUS
<1>4. IsFiniteSet(D) /\ c \in Nat
  <2>1. PICK d \in Nat : D = 1 .. d
    BY <1>2, <1>3 DEF IsNodes
  <2> QED BY <1>3, <2>1, FS_Interval, FS_CardinalityType
<1>5. Tree(D, root, K, h) /\ \E b \in Nat : \A n \in D : h[n] <= b
  BY <1>2, <1>3, NodesTree
<1>6. Spans(D, K, lo, hi)
  BY <1>1, <1>3, NodesSpan
<1>7. PICK b \in Nat : \A n \in D : h[n] <= b
  BY <1>5
<1>8. root \in D /\ K \in [D -> Seq(D)]
  BY <1>5 DEF Tree
<1>9. PICK q \in [0 .. c -> Seq(D)] : IsQueue(q, c, root, K)
  BY <1>4, <1>8, QueueExists
<1>10. PICK s : s = q[c]
  OBVIOUS
<1>11. mbptree_bfs_iteration = s
  <2>1. c = Cardinality(DOMAIN nodes) /\ q \in [0 .. c -> Seq(DOMAIN nodes)] /\ IsQueue(q, c, root, Kids)
    BY <1>3, <1>9
  <2> QED BY <1>4, <1>10, <2>1, IterationQueue
<1>12. s \in Seq(D) /\ Queued(D, root, K, h, lo, hi, s, c)
  <2>1. \A i \in 0 .. c : q[i] \in Seq(D)
    OBVIOUS
  <2>2. \A k \in 0 .. c : Queued(D, root, K, h, lo, hi, q[k], k)
    BY <1>4, <1>5, <1>6, <1>9, <2>1, QueuedUpTo
  <2>3. c \in 0 .. c
    BY <1>4
  <2> QED BY <1>10, <2>1, <2>2, <2>3
<1>13. ToSet(s) = D /\ Len(s) = c
  BY <1>3, <1>4, <1>5, <1>6, <1>7, <1>12, QueueComplete
<1>14. Ordered(h, lo, hi, s)
  BY <1>12 DEF Queued, Ordered
<1>15. \E k \in 0 .. Len(s) : /\ \A i \in 1 .. Len(s) : nodes[s[i]].leaf <=> i > k
                              /\ FlattenSeq(KeysOf(nodes, Rest(s, k))) = appended
  <2>1. s \in Seq(DOMAIN nodes) /\ ToSet(s) = DOMAIN nodes
    BY <1>3, <1>12, <1>13
  <2> QED BY <1>2, <1>14, <2>1, QueueLeaves
<1>16. DOMAIN s = 1 .. Len(s)
  BY <1>12
<1> QED BY <1>3, <1>11, <1>13, <1>15, <1>16 DEF Listed

(* The key appended last is in the last leaf, above all the others. *)
LEMMA ReadyLast ==
  ASSUME NEW N, NEW r, NEW L, NEW app, Ready(N, r, L, app),
         NEW i \in 1 .. Len(app), i < Len(app)
  PROVE  app[i] < app[Len(app)]
<1>1. PICK lo, hi, h, pos : Shape(N, r, L, NULL, NULL, 0, app, lo, hi, h, pos)
  BY DEF Ready
<1>2. /\ IsNodes(N) /\ Ranges(N, r, NULL, NULL, 0, lo, hi) /\ Leaves(N, L, app, lo, hi) /\ Links(N, L, app, pos)
      /\ app \in Seq(Key) /\ L \in DOMAIN N /\ N[L].leaf
  BY <1>1 DEF Shape, Leaves
<1>3. PICK n \in DOMAIN N : N[n].leaf /\ pos[n] < i /\ i <= pos[n] + Len(N[n].keys)
  BY <1>2, LeavesCover
<1>4. PICK k, x, b, l, y, a, m : /\ k = N[n].keys /\ x = Len(k) /\ b = pos[n]
                                 /\ l = N[L].keys /\ y = Len(l) /\ a = pos[L] /\ m = Len(app)
  OBVIOUS
<1>5. k \in Seq(Key) /\ l \in Seq(Key) /\ x \in Nat /\ y \in Nat /\ a \in Nat /\ b \in Nat /\ m \in Nat
  <2>1. k \in Seq(Key) /\ l \in Seq(Key)
    BY <1>2, <1>4, NodeFacts
  <2>2. a \in Nat /\ b \in Nat
    BY <1>2, <1>4 DEF Links
  <2> QED BY <1>2, <1>4, <2>1, <2>2
<1>6. lo[n] \in Int /\ hi[n] \in Int /\ lo[L] \in Int /\ hi[L] \in Int
  BY <1>2 DEF Ranges
<1>7. /\ \A j \in 1 .. x : k[j] = app[b + j] /\ lo[n] <= k[j] /\ k[j] < hi[n]
      /\ \A j \in 1 .. y : l[j] = app[a + j] /\ lo[L] <= l[j]
      /\ \A j, z \in 1 .. y : j < z => l[j] < l[z]
      /\ a + y = m
  BY SMTT(30), <1>2, <1>3, <1>4 DEF Links, Leaves
<1>8. PICK j : j = i - b
  OBVIOUS
<1>9. j \in 1 .. x /\ b + j = i /\ i < m
  <2>1. b < i /\ i <= b + x /\ i < m /\ i \in Nat
    BY <1>3, <1>4
  <2> QED BY <1>5, <1>8, <2>1
<1>10. k[j] = app[i] /\ k[j] \in Key
  <2>1. k[j] \in Key
    <3>1. j \in 1 .. Len(k) /\ k \in Seq(Key)
      BY <1>4, <1>5, <1>9
    <3> QED BY <3>1
  <2>2. k[j] = app[b + j]
    BY <1>7, <1>9
  <2> QED BY <1>9, <2>1, <2>2
<1>11. k[j] \in Nat
  BY <1>10, KeyFacts
<1>12. CASE n = L
  <2>1. j \in 1 .. y /\ y \in 1 .. y /\ j < y
    BY <1>4, <1>5, <1>7, <1>9, <1>12
  <2>2. l[j] < l[y] /\ l[y] = app[a + y]
    BY <1>7, <2>1
  <2> QED BY <1>4, <1>7, <1>10, <1>12, <2>2
<1>13. CASE n # L
  <2>1. hi[n] <= lo[L] /\ (lo[L] = -1 \/ y > 0)
    BY <1>2, <1>3, <1>4, <1>13 DEF Leaves
  <2>2. k[j] < hi[n]
    BY <1>7, <1>9
  <2>3. y > 0
    BY <1>6, <1>11, <2>1, <2>2
  <2>4. y \in 1 .. y
    BY <1>5, <2>3
  <2>5. lo[L] <= l[y] /\ l[y] = app[a + y] /\ l[y] \in Key
    <3>1. y \in 1 .. Len(l) /\ l \in Seq(Key)
      BY <1>4, <1>5, <2>4
    <3>2. l[y] \in Key
      BY <3>1
    <3>3. lo[L] <= l[y] /\ l[y] = app[a + y]
      BY <1>7, <2>4
    <3> QED BY <3>2, <3>3
  <2>6. l[y] \in Nat
    BY <2>5, KeyFacts
  <2>7. k[j] < l[y]
    BY <1>6, <1>11, <2>1, <2>2, <2>5, <2>6
  <2> QED BY <1>4, <1>7, <1>10, <2>5, <2>7
<1> QED BY <1>12, <1>13

LEMMA AscendingAppend ==
  ASSUME NEW app \in Seq(Key), Ascending(app), NEW k \in Key, NEW app2, app2 = Append(app, k),
         \A i \in 1 .. Len(app2) : i < Len(app2) => app2[i] < app2[Len(app2)]
  PROVE  Ascending(app2)
<1>1. PICK m : m = Len(app)
  OBVIOUS
<1>2. m \in Nat /\ Len(app2) = m + 1 /\ \A i \in 1 .. m : app2[i] = app[i]
  BY <1>1, AppendProperties
<1>3. ASSUME NEW i \in 1 .. m + 1, NEW j \in 1 .. m + 1, i < j PROVE app2[i] < app2[j]
  <2>1. CASE j = m + 1
    BY <1>2, <1>3, <2>1
  <2>2. CASE j # m + 1
    <3>1. i \in 1 .. m /\ j \in 1 .. m
      BY <1>2, <1>3, <2>2
    <3>2. app[i] < app[j]
      BY <1>1, <1>3, <3>1 DEF Ascending
    <3> QED BY <1>2, <3>1, <3>2
  <2> QED BY <2>1, <2>2
<1> QED BY <1>2, <1>3 DEF Ascending

(* What a step appends comes after what was appended before. *)
LEMMA NextAscending ==
  ASSUME SerialInv, IndexInv, IndexInv', Ascending(appended), [Next]_vars
  PROVE  Ascending(appended')
<1>1. DOMAIN pc = Threads
  BY DEF SerialInv, LockTypes
<1>2. ASSUME NEW t \in Threads, Goto(t, "unlock"), NEW k, appended' = Append(appended, k)
      PROVE  Ascending(appended')
  <2>1. pc'[t] = "unlock"
    BY <1>1, <1>2, GoesTo
  <2>2. root' # NULL
    BY <2>1 DEF IndexInv
  <2>3. InTree(nodes', root', last_leaf', appended', pc'[t], loc'[t])
    BY <2>1, <2>2 DEF IndexInv
  <2>4. Ready(nodes', root', last_leaf', appended')
    BY <2>1, <2>3 DEF InTree
  <2>5. \A i \in 1 .. Len(appended') : i < Len(appended') => appended'[i] < appended'[Len(appended')]
    BY <2>4, ReadyLast
  <2>6. appended \in Seq(Key) /\ appended' \in Seq(Key)
    BY DEF IndexInv
  <2>7. PICK app, app2 : app = appended /\ app2 = appended'
    OBVIOUS
  <2>8. k \in Key
    <3>1. app2[Len(app) + 1] = k /\ Len(app2) = Len(app) + 1 /\ Len(app) \in Nat
      BY <1>2, <2>6, <2>7
    <3>2. Len(app) + 1 \in 1 .. Len(app2)
      BY <3>1
    <3>3. app2[Len(app) + 1] \in Key
      BY <2>6, <2>7, <3>2
    <3> QED BY <3>1, <3>3
  <2>9. Ascending(app2)
    BY <1>2, <2>5, <2>6, <2>7, <2>8, AscendingAppend
  <2> QED BY <2>7, <2>9
<1>3. ASSUME appended' = appended PROVE Ascending(appended')
  BY <1>3
<1>4. ASSUME NEW t \in Appenders, AppenderStep(t) PROVE Ascending(appended')
  <2>1. t \in Threads
    BY DEF Threads
  <2>2. CASE StoreData(t)
    BY <1>2, <2>1, <2>2 DEF StoreData
  <2>3. CASE mbptree_new_root(t)
    BY <1>2, <2>1, <2>3 DEF mbptree_new_root
  <2>4. CASE mbptree_append_node(t)
    BY <1>2, <2>1, <2>4 DEF mbptree_append_node, Appended
  <2>5. CASE mbptree_split_root(t)
    BY <1>2, <2>1, <2>5 DEF mbptree_split_root, Appended
  <2>6. CASE mbptree_tryappend(t) \/ mbptree_new_leaf(t) \/ NewLeafFails(t) \/ mbptree_split_node(t)
             \/ SplitFails(t) \/ AppendUnlock(t)
    BY <1>3, <2>6 DEF mbptree_tryappend, mbptree_new_leaf, NewLeafFails, mbptree_split_node,
                      SplitFails, AppendUnlock
  <2> QED BY <1>4, <2>2, <2>3, <2>4, <2>5, <2>6 DEF AppenderStep
<1>5. ASSUME NEW t \in Finders, FinderStep(t) PROVE appended' = appended
  BY <1>5 DEF FinderStep, FloorLock, FindRoot, mbptree_find_leaf, LoadShared, StoreShared, ScanLeaf
<1>6. \A t, key : mbptree_append(t, key) \/ mbptree_leaf_floor(t, key) => appended' = appended
  BY DEF mbptree_append, mbptree_leaf_floor
<1>7. mbptree_free \/ UNCHANGED vars => appended' = appended
  BY DEF mbptree_free, vars
<1> QED BY <1>3, <1>4, <1>5, <1>6, <1>7 DEF Next

(* Between calls the breadth-first iterator meets every node once, the     *)
(* leaves last, with the keys in the order in which they were appended,    *)
(* whatever splits of leaves, nodes and root made the tree; so its queue   *)
(* needs a slot for every node and no more.                                *)
THEOREM AllIterated ==
  ASSUME Serialized, ~ AllocFails, IsFiniteSet(Finders) PROVE Spec => []BfsComplete
<1>1. Init => Ascending(appended)
  <2> SUFFICES ASSUME Init PROVE Ascending(appended)
    OBVIOUS
  <2>1. Len(appended) = 0
    BY DEF Init
  <2> QED BY <2>1 DEF Ascending
<1>2. SerialInv /\ IndexInv /\ IndexInv' /\ Ascending(appended) /\ [Next]_vars => Ascending(appended)'
  BY NextAscending
<1>3. IndexInv /\ Ascending(appended) => BfsComplete
  <2> SUFFICES ASSUME IndexInv, Ascending(appended), Quiescent
               PROVE  /\ Listed(mbptree_bfs_iteration)
                      /\ DOMAIN mbptree_bfs_iteration = 1 .. Len(mbptree_bfs_iteration)
    BY Zenon DEF BfsComplete, Listed, KeysOf, Rest
  <2>1. Ready(nodes, root, last_leaf, appended)
    BY DEF IndexInv, Quiescent
  <2> QED BY <2>1, ReadyBfs
<1> QED BY <1>1, <1>2, <1>3, IndexSpec, PTL DEF Spec

-----------------------------------------------------------------------------
(* The types of the nodes, of the root and of the last leaf. *)
NodesOK(N, r, L) ==
  /\ DOMAIN N = 1 .. Cardinality(DOMAIN N)
  /\ {r, L} \subseteq DOMAIN N \cup {NULL}
  /\ \A n \in DOMAIN N :
       /\ N[n].leaf \in BOOLEAN
       /\ {N[n].parent, N[n].next} \subseteq DOMAIN N \cup {NULL}
       /\ Len(N[n].keys) <= BranchFactor - 1
       /\ N[n].leaf  => Len(N[n].vals) = Len(N[n].keys)
       /\ ~ N[n].leaf => /\ Len(N[n].vals) = Len(N[n].keys) + 1
                         /\ \A i \in DOMAIN N[n].vals : N[n].vals[i] \in DOMAIN N

LEMMA ShapeTyped ==
  ASSUME NEW N, NEW r, NEW L, NEW leaf, NEW pn, NEW ch, NEW pk, NEW app, NEW lo, NEW hi, NEW h, NEW pos,
         Shape(N, r, leaf, pn, ch, pk, app, lo, hi, h, pos), Fits(N), L \in DOMAIN N
  PROVE  NodesOK(N, r, L)
<1>1. IsNodes(N) /\ Family(N, r, pn, ch) /\ Links(N, leaf, app, pos)
  BY DEF Shape
<1>2. DOMAIN N = 1 .. Cardinality(DOMAIN N)
  <2>1. PICK c \in Nat : DOMAIN N = 1 .. c
    BY <1>1 DEF IsNodes
  <2>2. Cardinality(1 .. c) = c
    BY FS_Interval
  <2> QED BY <2>1, <2>2
<1>3. {r, L} \subseteq DOMAIN N \cup {NULL}
  BY <1>1 DEF Family
<1>4. ASSUME NEW n \in DOMAIN N
      PROVE  /\ N[n].leaf \in BOOLEAN
             /\ {N[n].parent, N[n].next} \subseteq DOMAIN N \cup {NULL}
             /\ Len(N[n].keys) <= BranchFactor - 1
             /\ N[n].leaf  => Len(N[n].vals) = Len(N[n].keys)
             /\ ~ N[n].leaf => /\ Len(N[n].vals) = Len(N[n].keys) + 1
                               /\ \A i \in DOMAIN N[n].vals : N[n].vals[i] \in DOMAIN N
  <2>1. N[n].leaf \in BOOLEAN /\ DOMAIN N[n].vals = 1 .. Len(N[n].vals)
    BY <1>1, NodeFacts
  <2>2. N[n].parent \in DOMAIN N \cup {NULL}
    BY <1>1 DEF Family
  <2>3. N[n].next \in DOMAIN N \cup {NULL}
    BY <1>1 DEF Links
  <2>4. Len(N[n].keys) <= BranchFactor - 1
    BY DEF Fits
  <2>5. /\ N[n].leaf  => Len(N[n].vals) = Len(N[n].keys)
        /\ ~ N[n].leaf => Len(N[n].vals) = Len(N[n].keys) + 1
    BY <1>1 DEF IsNodes
  <2>6. ~ N[n].leaf => \A i \in DOMAIN N[n].vals : N[n].vals[i] \in DOMAIN N
    BY <1>1, <2>1 DEF Family
  <2> QED BY <2>1, <2>2, <2>3, <2>4, <2>5, <2>6
<1> QED BY <1>2, <1>3, <1>4 DEF NodesOK

LEMMA GrownTyped ==
  ASSUME NEW N, NEW r, NEW L \in DOMAIN N, IsNodes(N), N[L].leaf, NodesOK(N, r, L), Fits(Grown(N, L, 0))
  PROVE  NodesOK(Grown(N, L, 0), r, L)
<1>1. PICK G, K, V, m : /\ G = Grown(N, L, 0) /\ K = N[L].keys /\ V = N[L].vals /\ m = Len(K)
  OBVIOUS
<1>2. K \in Seq(Key) /\ V \in Seq(Nat) /\ m \in Nat /\ Len(V) = m
  BY <1>1, NodeFacts DEF IsNodes
<1>3. 0 \in Nat /\ Len(Append(K, 0)) = m + 1 /\ Len(Append(V, 0)) = m + 1
  BY <1>1, <1>2
<1>4. /\ DOMAIN G = DOMAIN N /\ (\A x \in DOMAIN N : x # L => G[x] = N[x])
      /\ G[L].keys = Append(K, 0) /\ G[L].vals = Append(V, 0) /\ G[L].leaf = N[L].leaf
      /\ G[L].parent = N[L].parent /\ G[L].next = N[L].next
  BY <1>1 DEF Grown, Rec
<1>5. Len(G[L].vals) = Len(G[L].keys)
  BY <1>3, <1>4
<1>6. \A x \in DOMAIN G : Len(G[x].keys) <= BranchFactor - 1
  BY <1>1 DEF Fits
<1>7. ASSUME NEW n \in DOMAIN G
      PROVE  /\ G[n].leaf \in BOOLEAN
             /\ {G[n].parent, G[n].next} \subseteq DOMAIN G \cup {NULL}
             /\ Len(G[n].keys) <= BranchFactor - 1
             /\ G[n].leaf  => Len(G[n].vals) = Len(G[n].keys)
             /\ ~ G[n].leaf => /\ Len(G[n].vals) = Len(G[n].keys) + 1
                               /\ \A i \in DOMAIN G[n].vals : G[n].vals[i] \in DOMAIN G
  <2>1. CASE n = L
    <3>1. N[L].leaf \in BOOLEAN /\ {N[L].parent, N[L].next} \subseteq DOMAIN N \cup {NULL}
      BY DEF NodesOK
    <3> QED BY <1>4, <1>5, <1>6, <2>1, <3>1
  <2>2. CASE n # L
    <3>1. G[n] = N[n] /\ n \in DOMAIN N
      BY <1>4, <2>2
    <3> QED BY <1>4, <3>1 DEF NodesOK
  <2> QED BY <2>1, <2>2
<1>8. DOMAIN G = 1 .. Cardinality(DOMAIN G) /\ {r, L} \subseteq DOMAIN G \cup {NULL}
  BY <1>4 DEF NodesOK
<1> QED BY <1>1, <1>7, <1>8 DEF NodesOK

LEMMA ReadyTyped ==
  ASSUME NEW N, NEW r, NEW L, NEW app, Ready(N, r, L, app), Fits(N)
  PROVE  NodesOK(N, r, L)
<1>1. PICK lo, hi, h, pos : Shape(N, r, L, NULL, NULL, 0, app, lo, hi, h, pos)
  BY DEF Ready
<1>2. L \in DOMAIN N
  BY ReadyFacts
<1> QED BY <1>1, <1>2, ShapeTyped

LEMMA InTreeTyped ==
  ASSUME NEW N, NEW r, NEW L, NEW app, NEW label, NEW l, InTree(N, r, L, app, label, l), Fits(N)
  PROVE  NodesOK(N, r, L)
<1>1. CASE label \notin {"store_data", "append_node"}
  BY <1>1, ReadyTyped DEF InTree
<1>2. CASE label = "append_node"
  <2>1. Pending(N, r, L, app, l)
    BY <1>2 DEF InTree
  <2>2. PICK leaf, pn, ch, pk, app2, lo, hi, h, pos : Shape(N, r, leaf, pn, ch, pk, app2, lo, hi, h, pos)
    BY <2>1 DEF Pending
  <2>3. L \in DOMAIN N
    BY <2>1 DEF Pending
  <2> QED BY <2>2, <2>3, ShapeTyped
<1>3. CASE label = "store_data"
  <2>1. PICK M : Ready(M, r, L, app) /\ Fits(M) /\ N = Grown(M, L, 0)
    BY <1>3 DEF InTree, Storing
  <2>2. IsNodes(M) /\ L \in DOMAIN M /\ M[L].leaf /\ NodesOK(M, r, L)
    BY <2>1, ReadyFacts, ReadyTyped
  <2> QED BY <2>1, <2>2, GrownTyped
<1> QED BY <1>1, <1>2, <1>3

(* Every node that the root, the last leaf or a node points to exists, and *)
(* no append, of any length, exceeds a node's data[] array, not even       *)
(* between the steps of a split; after mbptree_free no pointer is left.    *)
THEOREM TreeTyped ==
  ASSUME Serialized, ~ AllocFails, IsFiniteSet(Finders) PROVE Spec => []TypeOK
<1>1. SerialInv /\ IndexInv /\ Emptied => TypeOK
  <2> SUFFICES ASSUME SerialInv, IndexInv, Emptied PROVE TypeOK
    OBVIOUS
  <2>1. fault \in BOOLEAN /\ NodesOK(nodes, root, last_leaf)
    <3>1. CASE root = NULL
      <4>1. DOMAIN nodes = {} /\ last_leaf = NULL /\ fault = FALSE
        BY <3>1 DEF Emptied
      <4>2. DOMAIN nodes = 1 .. Cardinality(DOMAIN nodes)
        BY <4>1, FS_EmptySet
      <4> QED BY <3>1, <4>1, <4>2 DEF NodesOK
    <3>2. CASE root # NULL
      <4>1. fault = FALSE /\ Fits(nodes)
        BY <3>2 DEF IndexInv
      <4>2. CASE \A t \in Threads : pc[t] = "idle"
        BY <3>2, <4>1, <4>2, ReadyTyped DEF IndexInv
      <4>3. CASE \E t \in Threads : pc[t] # "idle"
        BY <3>2, <4>1, <4>3, InTreeTyped DEF IndexInv
      <4> QED BY <4>1, <4>2, <4>3
    <3> QED BY <3>1, <3>2
  <2>2. lock \in [exclusive : {0, 1}, shared : Nat] /\ pc \in [Threads -> Labels]
    BY DEF SerialInv, LockTypes, LockWord
  <2> QED BY <2>1, <2>2 DEF TypeOK, NodesOK
<1> QED BY <1>1, IndexSpec, EmptiedSpec, PTL
=============================================================================
