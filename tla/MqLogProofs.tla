----------------------------- MODULE MqLogProofs -----------------------------
(***************************************************************************)
(* TypeOK, PickedIsLast and LockReleased of MqLog, for any number of       *)
(* producers, consumers and syncing threads and any sizes.  The argument   *)
(* is the mutex: one thread at a time is between mqlog_write's trylock and *)
(* its unlock, so what it has found in the index stays true; a thread that *)
(* syncs takes no mutex but stores only sync offsets.  It covers closing,  *)
(* deaths of the process, crashes of the machine and reopening.            *)
(***************************************************************************)
EXTENDS MqLog, FiniteSetTheorems, TLAPS

(* A segment_t: writing never goes past the last entry of the mapped index. *)
OpenSegment ==
  {g \in [w : Pair, s : Pair, from : Nat] : g.w.index <= MappedEntries(Size)}

IsFile(f) ==
  /\ f = [sized |-> f.sized, buffer |-> f.buffer, index |-> f.index]
  /\ f.sized \in BOOLEAN
  /\ IsBuffer(f.buffer)
  /\ f.index \in [Entry -> Nat]

FilesOK ==
  /\ DOMAIN files \subseteq Nat /\ IsFiniteSet(DOMAIN files)
  /\ DOMAIN disk = DOMAIN files
  /\ \A b \in DOMAIN files : IsFile(files[b]) /\ IsFile(disk[b])

SgmsOK ==
  /\ DOMAIN sgms \subseteq DOMAIN files
  /\ \A b \in DOMAIN sgms : sgms[b] \in OpenSegment

(* An element of the tree names its own segment, which is open; only the   *)
(* last one may still wait for its value.                                  *)
TreeOK ==
  /\ tree \in Seq([key : Nat, sgm : Nat \cup {NULL}])
  /\ \A i \in DOMAIN tree :
       \/ tree[i].sgm = tree[i].key /\ tree[i].key \in DOMAIN sgms
       \/ /\ tree[i].sgm = NULL /\ i = Len(tree)
          /\ \E t \in Writers : pc[t] = "store_value"

WriterLabels == {"idle", "last_value", "create_segment", "segment_open", "segment_write",
                 "mbptree_append", "store_value", "unlock"}
ReaderLabels == {"idle", "leaf_floor", "segment_read"}
SyncerLabels == {"idle", "segment_sync"}

(* The mutex covers all of mqlog_trywrite, and the lookup of mqlog_read. *)
MutexOK ==
  /\ lock \in Writers \cup Readers \cup {NoThread}
  /\ pc \in [Threads -> Labels]
  /\ \A t \in Writers : pc[t] \in WriterLabels /\ (pc[t] # "idle" => lock = t)
  /\ \A t \in Readers : pc[t] \in ReaderLabels /\ (pc[t] = "leaf_floor" => lock = t)
                                               /\ (pc[t] = "segment_read" => lock # t)
  /\ \A t \in Syncers : pc[t] \in SyncerLabels

PhaseOK ==
  /\ phase \in {"open", "stopped", "failed"}
  /\ fault \in BOOLEAN
  /\ phase # "open" => /\ DOMAIN sgms = {} /\ tree = <<>>
                       /\ \A t \in Threads : pc[t] = "idle"

Locals == [buf : Payloads \cup {NoPayload}, off : Nat, sgm : Nat, fresh : BOOLEAN,
           new : OpenSegment, rc : Int]

(* Where the next segment begins. *)
NextBase == IF tree = <<>> THEN 0
            ELSE segment_write_offset(Last(tree).key, sgms[Last(tree).key])

WriterOK(t) ==
  /\ pc[t] # "idle" => loc[t].buf \in Payloads
  /\ pc[t] = "segment_write" /\ ~ loc[t].fresh => tree # <<>> /\ loc[t].sgm = Last(tree).sgm
  /\ pc[t] \in {"create_segment", "segment_open", "mbptree_append"} => loc[t].fresh
  /\ pc[t] \in {"create_segment", "segment_open", "segment_write", "mbptree_append"} /\ loc[t].fresh =>
       loc[t].sgm = NextBase
  /\ pc[t] \in {"segment_open", "segment_write", "mbptree_append", "store_value"} =>
       loc[t].sgm \in DOMAIN files
  /\ pc[t] = "store_value" =>
       tree # <<>> /\ Last(tree) = [key |-> loc[t].sgm, sgm |-> NULL]
  /\ pc[t] \in {"mbptree_append", "store_value", "unlock"} /\ loc[t].rc > 0 =>
       <<loc[t].off, loc[t].buf>> \in written

LocalsOK ==
  /\ loc \in [Threads -> Locals]
  /\ \A t \in Writers : WriterOK(t)
  /\ \A t \in Readers : pc[t] = "segment_read" =>
                          loc[t].sgm \in DOMAIN sgms /\ loc[t].sgm <= loc[t].off
  /\ \A t \in Syncers : pc[t] = "segment_sync" => loc[t].off \in DOMAIN tree

HistoryOK == written \subseteq Frame /\ acked \cup synced \subseteq written

LogTypeInv == FilesOK /\ SgmsOK /\ TreeOK /\ MutexOK /\ PhaseOK /\ LocalsOK /\ HistoryOK
-----------------------------------------------------------------------------
(* Facts about the operators. *)

USE DEF HeaderSize, EntrySize

(* A nonempty set of naturals has a least element. *)
LEMMA LeastExists ==
  ASSUME NEW S, S \subseteq Nat, S # {}
  PROVE  \E n \in S : \A m \in S : n <= m
<1> DEFINE R == {ss \in Nat \X Nat : ss[1] < ss[2]}
<1>1. IsWellFoundedOn(R, Nat)
  BY NatLessThanWellFounded DEF OpToRel
<1>2. PICK n \in S : \A m \in S : ~ (<<m, n>> \in R)
  <2> HIDE DEF R
  <2> QED BY <1>1, WFMin
<1>3. \A m \in S : ~ (m < n)
  BY <1>2
<1> QED BY <1>3

LEMMA HeaderAtType ==
  ASSUME NEW buf, IsBuffer(buf), NEW off
  PROVE  /\ HeaderAt(buf, off) \in Header
         /\ HeaderAt(buf, off).size \in Nat
         /\ HeaderAt(buf, off).payload \in Payloads \cup {NoPayload}
<1>1. ZeroHeader \in Header
  BY DEF ZeroHeader, Header, HeaderFlags
<1>2. HeaderAt(buf, off) \in Header
  BY <1>1 DEF HeaderAt, IsBuffer
<1> QED BY <1>2 DEF Header

LEMMA StoreHeaderType ==
  ASSUME NEW buf, IsBuffer(buf), NEW off \in Nat, NEW hdr \in Header
  PROVE  IsBuffer(StoreHeader(buf, off, hdr))
BY DEF IsBuffer, StoreHeader

(* A header is stored where it is stored, and nowhere else. *)
LEMMA StoreHeaderAt ==
  ASSUME NEW buf, NEW off, NEW hdr, NEW x
  PROVE  HeaderAt(StoreHeader(buf, off, hdr), x) = IF x = off THEN hdr ELSE HeaderAt(buf, x)
BY DEF HeaderAt, StoreHeader

LEMMA SizeOfType ==
  ASSUME NEW p \in Payloads
  PROVE  SizeOf[p] \in Nat /\ FrameSize(p) \in Nat /\ FrameSize(p) = SizeOf[p] + 12
BY PayloadAssumption DEF FrameSize

LEMMA CopyPayloadType ==
  ASSUME NEW buf, IsBuffer(buf), NEW off \in Nat, NEW p \in Payloads
  PROVE  IsBuffer(CopyPayload(buf, off, p))
<1>1. [HeaderAt(buf, off) EXCEPT !.payload = p] \in Header
  <2>1. HeaderAt(buf, off) \in Header
    BY HeaderAtType
  <2> QED BY <2>1 DEF Header
<1>2. [ZeroHeader EXCEPT !.flags = "EOS"] \in Header
  BY DEF ZeroHeader, Header, HeaderFlags
<1> QED BY <1>1, <1>2, SizeOfType DEF IsBuffer, CopyPayload

(* What lies before the copied payload is left alone. *)
LEMMA CopyPayloadBelow ==
  ASSUME NEW buf, IsBuffer(buf), NEW off \in Nat, NEW p \in Payloads, NEW x \in Nat, x < off
  PROVE  HeaderAt(CopyPayload(buf, off, p), x) = HeaderAt(buf, x)
BY SizeOfType DEF HeaderAt, CopyPayload, IsBuffer

LEMMA Entries ==
  /\ MappedEntries(Size) \in Nat
  /\ max_index_entries(Size) \in Nat
  /\ max_index_entries(Size) <= MappedEntries(Size)
  /\ \A i : i \in Entry <=> i \in Nat /\ i < MappedEntries(Size)
<1> DEFINE c == calculate_index_size(Size)
<1>1. c \in Nat
  BY LogAssumption DEF calculate_index_size
<1> HIDE DEF c
<1>2. PageCeil(c) \in Nat /\ PageCeil(c) >= c
  BY <1>1, PageAssumption DEF PageCeil
<1>3. /\ c \div 8 \in Nat /\ PageCeil(c) \div 8 \in Nat
      /\ c \div 8 <= PageCeil(c) \div 8
  BY <1>1, <1>2
<1> QED BY <1>3 DEF MappedEntries, max_index_entries, Entry, c

(* segment_write keeps a file a file; it moves the pair only within the    *)
(* mapped index, and returns a size or ELEOS.                              *)
LEMMA SegmentWriteType ==
  ASSUME NEW f, IsFile(f), NEW w \in Pair, w.index <= MappedEntries(Size), NEW p \in Payloads,
         NEW res, res = SegmentWrite(f, w, p)
  PROVE  /\ res.rc = ELEOS => /\ IsFile(res.file) /\ res.file.index = f.index
                              /\ res.file.sized = f.sized
                              /\ res.w \in Pair /\ res.w.index = w.index
         /\ res.rc # ELEOS => /\ res.rc = SizeOf[p]
                              /\ w.index \in Entry =>
                                   /\ IsFile(res.file) /\ res.file.sized = f.sized
                                   /\ res.w \in Pair /\ res.w.index = w.index + 1
                                   /\ res.w.index <= MappedEntries(Size)
<1>0. /\ w.index \in Nat /\ w.data \in Nat /\ w = [index |-> w.index, data |-> w.data]
      /\ IsBuffer(f.buffer) /\ f.index \in [Entry -> Nat] /\ f.sized \in BOOLEAN
      /\ f = [sized |-> f.sized, buffer |-> f.buffer, index |-> f.index]
  BY DEF Pair, IsFile
<1>1. CASE EosAt(f, w)
  BY <1>1, <1>0 DEF SegmentWrite
<1>2. CASE ~ EosAt(f, w) /\ ~ HasRoom(Size, w.data, p)
  <2>1. EosHeader \in Header
    BY DEF EosHeader, Header, HeaderFlags
  <2> DEFINE buf == StoreHeader(f.buffer, w.data, EosHeader)
  <2>2. IsBuffer(buf)
    BY <1>0, <2>1, StoreHeaderType
  <2>3. res = [file |-> [sized |-> f.sized, buffer |-> buf, index |-> f.index],
               w    |-> [index |-> w.index, data |-> w.data + 12], rc |-> ELEOS]
    BY <1>0, <1>2 DEF SegmentWrite
  <2> HIDE DEF buf
  <2> QED BY <1>0, <2>2, <2>3 DEF IsFile, Pair
<1>3. CASE ~ EosAt(f, w) /\ HasRoom(Size, w.data, p)
  <2> DEFINE buf == StoreHeader(CopyPayload(f.buffer, w.data, p), w.data,
                      [flags |-> "READY", size |-> FrameSize(p), payload |-> p])
             idx == With(f.index, w.index, w.data)
  <2>1. [flags |-> "READY", size |-> FrameSize(p), payload |-> p] \in Header
    BY SizeOfType DEF Header, HeaderFlags
  <2>2. IsBuffer(buf)
    BY <1>0, <2>1, CopyPayloadType, StoreHeaderType
  <2>3. w.index \in Entry => idx \in [Entry -> Nat]
    BY <1>0 DEF With
  <2>4. res = [file |-> [sized |-> f.sized, buffer |-> buf, index |-> idx],
               w    |-> [index |-> w.index + 1, data |-> w.data + FrameSize(p)], rc |-> SizeOf[p]]
    BY <1>0, <1>3 DEF SegmentWrite
  <2>5. SizeOf[p] # ELEOS /\ w.data + FrameSize(p) \in Nat
    BY <1>0, SizeOfType DEF ELEOS
  <2>6. w.index \in Entry => w.index + 1 <= MappedEntries(Size)
    BY <1>0, Entries
  <2> HIDE DEF buf, idx
  <2> QED BY <1>0, <2>2, <2>3, <2>4, <2>5, <2>6 DEF IsFile, Pair
<1> QED BY <1>1, <1>2, <1>3

(* The entry that find_w_offset_pair finds is the first free one. *)
LEMMA FirstFree ==
  ASSUME NEW f, IsFile(f), NEW found, found = find_w_offset_pair(f.buffer, f.index, Size),
         NEW free, free = FreeEntries(f.buffer, f.index, Size)
  PROVE  /\ free \subseteq Nat
         /\ free = {} => found = [rc |-> ELWOFFS, pair |-> [index |-> 0, data |-> 0]]
         /\ free # {} =>
              /\ found.rc = 0
              /\ found.pair = [index |-> found.pair.index, data |-> found.pair.data]
              /\ found.pair.index \in free
              /\ \A m \in free : found.pair.index <= m
              /\ found.pair.index = 0 => found.pair.data = 0
              /\ found.pair.index # 0 =>
                   found.pair.data = f.index[found.pair.index - 1]
                                     + HeaderAt(f.buffer, f.index[found.pair.index - 1]).size
<1>1. free \subseteq Nat
  BY Entries DEF FreeEntries
<1>2. CASE free = {}
  BY <1>1, <1>2 DEF find_w_offset_pair
<1>3. CASE free # {}
  <2>1. PICK i : i = CHOOSE n \in free : \A m \in free : n <= m
    OBVIOUS
  <2>2. i \in free /\ \A m \in free : i <= m
    BY <1>1, <1>3, <2>1, LeastExists
  <2>3. found = [rc |-> 0, pair |-> [index |-> i,
                   data |-> (IF i = 0 THEN 0 ELSE f.index[i - 1])
                            + (IF i = 0 THEN 0
                               ELSE HeaderAt(f.buffer, IF i = 0 THEN 0 ELSE f.index[i - 1]).size)]]
    BY <1>3, <2>1 DEF find_w_offset_pair
  <2>4. found.rc = 0 /\ found.pair =
          [index |-> i,
           data  |-> IF i = 0 THEN 0
                     ELSE f.index[i - 1] + HeaderAt(f.buffer, f.index[i - 1]).size]
    BY <2>3
  <2> QED BY <1>1, <1>3, <2>2, <2>4
<1> QED BY <1>2, <1>3

LEMMA FoundType ==
  ASSUME NEW f, IsFile(f), NEW found, found = find_w_offset_pair(f.buffer, f.index, Size)
  PROVE  found.rc \in Int /\ found.rc <= 0 /\ Opened(found.pair) \in OpenSegment
<1>0. PICK free : free = FreeEntries(f.buffer, f.index, Size)
  OBVIOUS
<1>1. CASE free = {}
  <2>1. found = [rc |-> ELWOFFS, pair |-> [index |-> 0, data |-> 0]]
    BY <1>0, <1>1, FirstFree
  <2> QED BY <2>1, Entries DEF ELWOFFS, Opened, OpenSegment, Pair
<1>2. CASE free # {}
  <2>0. PICK i : i = found.pair.index
    OBVIOUS
  <2>1. /\ found.rc = 0 /\ found.pair = [index |-> i, data |-> found.pair.data] /\ i \in free
        /\ i = 0 => found.pair.data = 0
        /\ i # 0 => found.pair.data = f.index[i - 1] + HeaderAt(f.buffer, f.index[i - 1]).size
    BY <1>0, <1>2, <2>0, FirstFree
  <2>2. i \in Nat /\ i <= MappedEntries(Size) /\ (i # 0 => i - 1 \in Entry)
    BY <1>0, <2>1, Entries DEF FreeEntries
  <2>3. i # 0 => f.index[i - 1] \in Nat
    BY <2>2 DEF IsFile
  <2>4. HeaderAt(f.buffer, f.index[i - 1]).size \in Nat
    BY HeaderAtType DEF IsFile
  <2>5. found.pair \in Pair /\ found.pair.index = i
    BY <2>1, <2>2, <2>3, <2>4 DEF Pair
  <2> QED BY <2>1, <2>2, <2>5 DEF Opened, OpenSegment, Pair
<1> QED BY <1>1, <1>2

LEMMA SegmentSyncedType ==
  ASSUME NEW d, IsFile(d), NEW f, IsFile(f), NEW g \in OpenSegment
  PROVE  IsFile(SegmentSynced(d, f, g))
<1>1. \A x : HeaderAt(d.buffer, x) \in Header
  BY HeaderAtType DEF IsFile
<1> QED BY <1>1 DEF IsFile, IsBuffer, SegmentSynced

LEMMA SegmentReadType ==
  ASSUME NEW f, IsFile(f), NEW g \in OpenSegment, NEW rel
  PROVE  /\ SegmentRead(f, g, rel).rc \in Int
         /\ SegmentRead(f, g, rel).payload \in Payloads \cup {NoPayload}
<1>1. /\ HeaderAt(f.buffer, f.index[rel]).size \in Nat
      /\ HeaderAt(f.buffer, f.index[rel]).payload \in Payloads \cup {NoPayload}
  BY HeaderAtType DEF IsFile
<1> QED BY <1>1 DEF SegmentRead, ELNORD, ELEOS, ELINVHD

LEMMA UnsizedType == IsFile(Unsized)
BY DEF IsFile, Unsized, IsBuffer

LEMMA NoSegmentType == NoSegment \in OpenSegment
BY Entries DEF NoSegment, Opened, OpenSegment, Pair

-----------------------------------------------------------------------------
(* One thread at a time. *)

LEMMA InMutex ==
  ASSUME LogTypeInv, NEW t \in Writers, pc[t] # "idle"
  PROVE  /\ lock = t /\ phase = "open" /\ t \in Threads
         /\ \A u \in Writers \ {t} : pc[u] = "idle"
         /\ loc[t] \in Locals /\ WriterOK(t)
<1>1. t \in Threads
  BY DEF Threads
<1>2. phase = "open"
  BY <1>1 DEF LogTypeInv, PhaseOK
<1>3. lock = t /\ \A u \in Writers \ {t} : pc[u] = "idle"
  BY DEF LogTypeInv, MutexOK
<1> QED BY <1>1, <1>2, <1>3 DEF LogTypeInv, LocalsOK

(* While no value is missing, every element of the tree is an open segment. *)
LEMMA TreeFull ==
  ASSUME LogTypeInv, \A t \in Writers : pc[t] # "store_value"
  PROVE  \A i \in DOMAIN tree : /\ tree[i].sgm = tree[i].key
                                /\ tree[i].key \in DOMAIN sgms
BY DEF LogTypeInv, TreeOK

LEMMA LastType ==
  ASSUME LogTypeInv, tree # <<>>
  PROVE  /\ Len(tree) \in DOMAIN tree /\ Last(tree) = tree[Len(tree)]
         /\ Last(tree).key \in Nat
         /\ DOMAIN tree = 1 .. Len(tree) /\ Len(tree) \in Nat
<1> DEFINE T == [key : Nat, sgm : Nat \cup {NULL}]
<1>1. tree \in Seq(T)
  BY DEF LogTypeInv, TreeOK
<1>2. /\ Len(tree) \in DOMAIN tree /\ DOMAIN tree = 1 .. Len(tree) /\ Len(tree) \in Nat
      /\ tree[Len(tree)] \in T
  <2> HIDE DEF T
  <2> QED BY <1>1
<1>3. tree[Len(tree)].key \in Nat
  BY <1>2
<1> QED BY <1>2, <1>3 DEF Last

(* What a step of the producer that has the mutex may leave to be shown:   *)
(* its own locals.                                                         *)
LEMMA WriterMoves ==
  ASSUME LogTypeInv, NEW t \in Writers, pc[t] # "idle",
         NEW l \in WriterLabels \ {"idle"}, Goto(t, l),
         lock' = lock, phase' = phase, fault' = fault,
         NEW v \in Locals, loc' = [loc EXCEPT ![t] = v],
         DOMAIN sgms \subseteq DOMAIN sgms', DOMAIN tree \subseteq DOMAIN tree',
         WriterOK(t)'
  PROVE  MutexOK' /\ PhaseOK' /\ LocalsOK'
<1>0. /\ lock = t /\ phase = "open" /\ t \in Threads
      /\ \A u \in Writers \ {t} : pc[u] = "idle"
  BY InMutex
<1>1. /\ pc \in [Threads -> Labels] /\ loc \in [Threads -> Locals]
      /\ t \notin Readers /\ t \notin Syncers
      /\ Writers \subseteq Threads /\ Readers \subseteq Threads /\ Syncers \subseteq Threads
  BY LogAssumption DEF LogTypeInv, MutexOK, LocalsOK, Threads
<1>2. /\ pc' \in [Threads -> Labels] /\ pc'[t] = l
      /\ \A u \in Threads \ {t} : pc'[u] = pc[u]
  BY <1>1, <1>0 DEF Goto, WriterLabels, Labels
<1>3. /\ loc' \in [Threads -> Locals] /\ loc'[t] = v
      /\ \A u \in Threads \ {t} : loc'[u] = loc[u]
  BY <1>1, <1>0
<1>4. MutexOK'
  BY <1>0, <1>1, <1>2 DEF LogTypeInv, MutexOK
<1>5. PhaseOK'
  BY <1>0 DEF LogTypeInv, PhaseOK
<1>6. \A u \in Writers : WriterOK(u)'
  <2> SUFFICES ASSUME NEW u \in Writers, u # t PROVE WriterOK(u)'
    OBVIOUS
  <2>1. pc'[u] = "idle"
    BY <1>0, <1>1, <1>2
  <2> QED BY <2>1 DEF WriterOK
<1>7. /\ \A u \in Readers : pc'[u] = "segment_read" =>
           loc'[u].sgm \in DOMAIN sgms' /\ loc'[u].sgm <= loc'[u].off
      /\ \A u \in Syncers : pc'[u] = "segment_sync" => loc'[u].off \in DOMAIN tree'
  BY <1>1, <1>2, <1>3 DEF LogTypeInv, LocalsOK
<1>8. LocalsOK'
  BY <1>3, <1>6, <1>7 DEF LocalsOK
<1> QED BY <1>4, <1>5, <1>8

(* The tree is as it was, and no producer was storing a value. *)
LEMMA TreeStays ==
  ASSUME LogTypeInv, NEW t \in Writers, pc[t] # "idle", pc[t] # "store_value",
         tree' = tree, DOMAIN sgms' = DOMAIN sgms
  PROVE  TreeOK'
<1>1. \A u \in Writers : pc[u] # "store_value"
  BY InMutex
<1>2. \A i \in DOMAIN tree : tree[i].sgm = tree[i].key /\ tree[i].key \in DOMAIN sgms
  BY <1>1, TreeFull
<1> QED BY <1>2 DEF LogTypeInv, TreeOK

LEMMA NextBaseStays ==
  ASSUME LogTypeInv, NEW t \in Writers, pc[t] # "idle", pc[t] # "store_value",
         tree' = tree, \A b \in DOMAIN sgms : sgms'[b].w.index = sgms[b].w.index
  PROVE  NextBase' = NextBase /\ NextBase \in Nat
<1>1. \A u \in Writers : pc[u] # "store_value"
  BY InMutex
<1>2. \A i \in DOMAIN tree : tree[i].sgm = tree[i].key /\ tree[i].key \in DOMAIN sgms
  BY <1>1, TreeFull
<1>3. CASE tree = <<>>
  BY <1>3 DEF NextBase
<1>4. CASE tree # <<>>
  <2>1. PICK b : b = Last(tree).key
    OBVIOUS
  <2>2. b \in DOMAIN sgms /\ b \in Nat
    BY <1>2, <1>4, <2>1, LastType
  <2>3. sgms[b].w.index \in Nat
    BY <2>2 DEF LogTypeInv, SgmsOK, OpenSegment, Pair
  <2> QED BY <1>4, <2>1, <2>2, <2>3 DEF NextBase, segment_write_offset
<1> QED BY <1>3, <1>4

-----------------------------------------------------------------------------
(* The steps of mqlog_write. *)

LEMMA LastValueType ==
  ASSUME LogTypeInv, NEW t \in Writers, LastValue(t)
  PROVE  LogTypeInv'
<1>0. /\ pc[t] = "last_value" /\ t \in Threads /\ pc \in [Threads -> Labels]
      /\ loc \in [Threads -> Locals] /\ loc[t] \in Locals /\ WriterOK(t)
  BY InMutex DEF LastValue, At, LogTypeInv, LocalsOK, MutexOK
<1> DEFINE b == IF tree = <<>> THEN 0 ELSE Last(tree).sgm
           v == [loc[t] EXCEPT !.sgm = b, !.fresh = (tree = <<>>)]
           l == IF tree = <<>> THEN "create_segment" ELSE "segment_write"
<1>1. \A i \in DOMAIN tree : tree[i].sgm = tree[i].key /\ tree[i].key \in DOMAIN sgms
  BY <1>0, InMutex, TreeFull
<1>2. tree # <<>> => Last(tree).sgm \in DOMAIN sgms /\ Last(tree).sgm \in Nat
  BY <1>1, LastType
<1>3. v \in Locals /\ loc' = [loc EXCEPT ![t] = v]
  <2>1. loc' = [loc EXCEPT ![t] = v]
    BY <1>0 DEF LastValue, Locals
  <2> QED BY <1>0, <1>2, <2>1 DEF Locals
<1>4. Goto(t, l) /\ l \in WriterLabels \ {"idle"}
  BY DEF LastValue, WriterLabels
<1>5. /\ UNCHANGED <<files, disk, sgms, tree, lock, phase, fault, written, acked, synced>>
  BY DEF LastValue, held, life
<1>6. /\ loc'[t] = v /\ pc'[t] = l
  BY <1>0, <1>3, <1>4 DEF Goto
<1>7. NextBase' = NextBase
  BY <1>5 DEF NextBase
<1>8. WriterOK(t)'
  <2>1. CASE tree = <<>>
    BY <1>0, <1>5, <1>6, <1>7, <2>1 DEF WriterOK, Locals, NextBase
  <2>2. CASE tree # <<>>
    <3>1. Last(tree).sgm \in DOMAIN files
      BY <1>2, <2>2 DEF LogTypeInv, SgmsOK
    <3> QED BY <1>0, <1>5, <1>6, <2>2, <3>1 DEF WriterOK, Locals
  <2> QED BY <2>1, <2>2
<1>9. TreeOK'
  BY <1>0, <1>5, TreeStays
<1>10. MutexOK' /\ PhaseOK' /\ LocalsOK'
  <2> HIDE DEF v, l
  <2> QED BY <1>0, <1>3, <1>4, <1>5, <1>8, WriterMoves
<1>11. FilesOK' /\ SgmsOK' /\ HistoryOK'
  BY <1>5 DEF LogTypeInv, FilesOK, SgmsOK, HistoryOK
<1> QED BY <1>9, <1>10, <1>11 DEF LogTypeInv

LEMMA ReturnsType ==
  ASSUME LogTypeInv, NEW t \in Writers, pc[t] # "idle", pc[t] # "store_value",
         NEW rc \in Int, rc <= 0, TryWriteReturns(t, rc),
         UNCHANGED <<tree, lock, phase, fault>>, DOMAIN sgms' = DOMAIN sgms
  PROVE  TreeOK' /\ MutexOK' /\ PhaseOK' /\ LocalsOK'
<1>0. /\ t \in Threads /\ pc \in [Threads -> Labels]
      /\ loc \in [Threads -> Locals] /\ loc[t] \in Locals /\ WriterOK(t)
  BY InMutex DEF LogTypeInv, LocalsOK, MutexOK
<1> DEFINE v == [loc[t] EXCEPT !.rc = rc]
<1>1. v \in Locals /\ loc' = [loc EXCEPT ![t] = v] /\ loc'[t] = v /\ pc'[t] = "unlock"
  BY <1>0 DEF Locals, TryWriteReturns, Goto
<1>2. WriterOK(t)'
  BY <1>0, <1>1 DEF WriterOK, Locals
<1>3. TreeOK'
  BY <1>0, TreeStays
<1>4. Goto(t, "unlock") /\ "unlock" \in WriterLabels \ {"idle"}
  BY DEF TryWriteReturns, WriterLabels
<1>5. MutexOK' /\ PhaseOK' /\ LocalsOK'
  <2> HIDE DEF v
  <2> QED BY <1>0, <1>1, <1>2, <1>4, WriterMoves
<1> QED BY <1>3, <1>5

LEMMA CreateType ==
  ASSUME LogTypeInv, NEW t \in Writers, create_segment(t)
  PROVE  LogTypeInv'
<1>0. /\ pc[t] = "create_segment" /\ t \in Threads /\ pc \in [Threads -> Labels]
      /\ loc \in [Threads -> Locals] /\ loc[t] \in Locals /\ WriterOK(t)
  BY InMutex DEF create_segment, At, LogTypeInv, LocalsOK, MutexOK
<1> DEFINE b == loc[t].sgm
           created == IF b \in DOMAIN files THEN files ELSE With(files, b, Unsized)
<1>1. /\ UNCHANGED <<sgms, tree, lock, phase, fault, written, acked, synced>>
      /\ disk' = [c \in DOMAIN files' |-> IF c \in DOMAIN disk THEN disk[c] ELSE Unsized]
      /\ files' \in {files, created}
  BY DEF create_segment, life
<1>2. b \in Nat
  BY <1>0 DEF Locals
<1>3. /\ DOMAIN files' \subseteq Nat /\ DOMAIN files \subseteq DOMAIN files'
      /\ \A c \in DOMAIN files' : IsFile(files'[c])
  BY <1>1, <1>2, UnsizedType DEF LogTypeInv, FilesOK, With
<1>4. FilesOK'
  <2>1. IsFiniteSet(DOMAIN files \cup {b})
    BY FS_AddElement DEF LogTypeInv, FilesOK
  <2>2. DOMAIN files' = DOMAIN files \/ DOMAIN files' = DOMAIN files \cup {b}
    BY <1>1 DEF With
  <2> QED BY <1>1, <1>3, <2>1, <2>2, UnsizedType DEF LogTypeInv, FilesOK
<1>5. SgmsOK' /\ HistoryOK'
  BY <1>1, <1>3 DEF LogTypeInv, SgmsOK, HistoryOK
<1>6. CASE files' = created /\ Goto(t, "segment_open") /\ UNCHANGED loc
  <2>1. loc' = [loc EXCEPT ![t] = loc[t]] /\ loc'[t] = loc[t] /\ pc'[t] = "segment_open"
    BY <1>0, <1>6 DEF Goto
  <2>2. b \in DOMAIN files'
    BY <1>6 DEF With
  <2>3. NextBase' = NextBase
    BY <1>1 DEF NextBase
  <2>4. WriterOK(t)'
    BY <1>0, <2>1, <2>2, <2>3 DEF WriterOK
  <2>5. "segment_open" \in WriterLabels \ {"idle"}
    BY DEF WriterLabels
  <2>6. MutexOK' /\ PhaseOK' /\ LocalsOK'
    BY <1>0, <1>1, <1>6, <2>1, <2>4, <2>5, WriterMoves
  <2>7. TreeOK'
    BY <1>0, <1>1, TreeStays
  <2> QED BY <1>4, <1>5, <2>6, <2>7 DEF LogTypeInv
<1>7. CASE TryWriteReturns(t, ELFLEOP)
  <2>1. ELFLEOP \in Int /\ ELFLEOP <= 0
    BY DEF ELFLEOP
  <2>2. TreeOK' /\ MutexOK' /\ PhaseOK' /\ LocalsOK'
    BY <1>0, <1>1, <1>7, <2>1, ReturnsType
  <2> QED BY <1>4, <1>5, <2>2 DEF LogTypeInv
<1> QED BY <1>6, <1>7 DEF create_segment

LEMMA SegmentOpenType ==
  ASSUME LogTypeInv, NEW t \in Writers, segment_open(t)
  PROVE  LogTypeInv'
<1>0. /\ pc[t] = "segment_open" /\ t \in Threads /\ pc \in [Threads -> Labels]
      /\ loc \in [Threads -> Locals] /\ loc[t] \in Locals /\ WriterOK(t)
  BY InMutex DEF segment_open, At, LogTypeInv, LocalsOK, MutexOK
<1>1. PICK b : b = loc[t].sgm
  OBVIOUS
<1>2. b \in DOMAIN files
  BY <1>0, <1>1 DEF WriterOK
<1>3. PICK found : found = find_w_offset_pair(files[b].buffer, files[b].index, Size)
  OBVIOUS
<1>4. /\ UNCHANGED <<disk, sgms, tree, lock, phase, fault, written, acked, synced>>
      /\ files' = [files EXCEPT ![b].sized = TRUE]
      /\ \/ found.rc # 0 /\ TryWriteReturns(t, found.rc)
         \/ TryWriteReturns(t, ELMADV)
         \/ /\ loc' = [loc EXCEPT ![t].new = Opened(found.pair)]
            /\ Goto(t, "segment_write")
  BY <1>1, <1>3 DEF segment_open, life
<1>5. IsFile(files[b])
  BY <1>2 DEF LogTypeInv, FilesOK
<1>6. found.rc \in Int /\ found.rc <= 0 /\ Opened(found.pair) \in OpenSegment
  BY <1>3, <1>5, FoundType
<1>7. DOMAIN files' = DOMAIN files /\ \A c \in DOMAIN files : IsFile(files'[c])
  BY <1>4, <1>5 DEF LogTypeInv, FilesOK, IsFile
<1>8. FilesOK' /\ SgmsOK' /\ HistoryOK'
  BY <1>4, <1>7 DEF LogTypeInv, FilesOK, SgmsOK, HistoryOK
<1>9. CASE TryWriteReturns(t, found.rc) \/ TryWriteReturns(t, ELMADV)
  <2>1. ELMADV \in Int /\ ELMADV <= 0
    BY DEF ELMADV
  <2>2. TreeOK' /\ MutexOK' /\ PhaseOK' /\ LocalsOK'
    BY <1>0, <1>4, <1>6, <1>9, <2>1, ReturnsType
  <2> QED BY <1>8, <2>2 DEF LogTypeInv
<1>10. CASE loc' = [loc EXCEPT ![t].new = Opened(found.pair)] /\ Goto(t, "segment_write")
  <2> DEFINE v == [loc[t] EXCEPT !.new = Opened(found.pair)]
  <2>1. v \in Locals /\ loc' = [loc EXCEPT ![t] = v] /\ loc'[t] = v /\ pc'[t] = "segment_write"
    BY <1>0, <1>6, <1>10 DEF Locals, Goto
  <2>2. NextBase' = NextBase
    BY <1>4 DEF NextBase
  <2>3. /\ v.sgm = b /\ v.fresh = loc[t].fresh /\ v.buf = loc[t].buf
    BY <1>0, <1>1 DEF Locals
  <2>4. WriterOK(t)'
    <3> HIDE DEF v
    <3> QED BY <1>0, <1>1, <1>2, <1>7, <2>1, <2>2, <2>3 DEF WriterOK
  <2>5. "segment_write" \in WriterLabels \ {"idle"}
    BY DEF WriterLabels
  <2>6. MutexOK' /\ PhaseOK' /\ LocalsOK'
    <3> HIDE DEF v
    <3> QED BY <1>0, <1>4, <1>10, <2>1, <2>4, <2>5, WriterMoves
  <2>7. TreeOK'
    BY <1>0, <1>4, TreeStays
  <2> QED BY <1>8, <2>6, <2>7 DEF LogTypeInv
<1> QED BY <1>4, <1>9, <1>10

LEMMA CrashesType ==
  ASSUME LogTypeInv, Crashes
  PROVE  LogTypeInv'
<1>1. UNCHANGED <<files, disk, sgms, tree, lock, pc, loc, phase, written, acked, synced>> /\ fault' = TRUE
  BY DEF Crashes, held, life
<1>2. \A t : WriterOK(t)' = WriterOK(t)
  BY <1>1 DEF WriterOK, NextBase
<1> QED BY <1>1, <1>2 DEF LogTypeInv, FilesOK, SgmsOK, TreeOK, MutexOK, PhaseOK, LocalsOK, HistoryOK

LEMMA SegmentWriteStepType ==
  ASSUME LogTypeInv, NEW t \in Writers, segment_write(t)
  PROVE  LogTypeInv'
<1>0. /\ pc[t] = "segment_write" /\ t \in Threads /\ pc \in [Threads -> Labels]
      /\ loc \in [Threads -> Locals] /\ loc[t] \in Locals /\ WriterOK(t)
  BY InMutex DEF segment_write, At, LogTypeInv, LocalsOK, MutexOK
<1>1. PICK b, p, fresh, sgm, next, res :
        /\ b = loc[t].sgm /\ p = loc[t].buf /\ fresh = loc[t].fresh
        /\ sgm = IF fresh THEN loc[t].new ELSE sgms[b]
        /\ next = segment_write_offset(b, sgm)
        /\ res = SegmentWrite(files[b], sgm.w, p)
  OBVIOUS
<1>2. /\ b \in DOMAIN files /\ p \in Payloads /\ fresh \in BOOLEAN /\ b \in Nat
      /\ IsFile(files[b])
  BY <1>0, <1>1 DEF WriterOK, Locals, LogTypeInv, FilesOK
<1>3. ~ fresh => b \in DOMAIN sgms /\ b = Last(tree).key /\ tree # <<>>
  <2>1. \A i \in DOMAIN tree : tree[i].sgm = tree[i].key /\ tree[i].key \in DOMAIN sgms
    BY <1>0, InMutex, TreeFull
  <2> QED BY <1>0, <1>1, <2>1, LastType DEF WriterOK
<1>4. sgm \in OpenSegment
  BY <1>0, <1>1, <1>3 DEF Locals, LogTypeInv, SgmsOK
<1>5. sgm.w \in Pair /\ sgm.w.index <= MappedEntries(Size) /\ sgm.w.index \in Nat /\ next \in Nat
  BY <1>1, <1>2, <1>4 DEF OpenSegment, Pair, segment_write_offset
<1>6. CASE res.rc # ELEOS /\ sgm.w.index \notin Entry
  <2>1. Crashes
    BY <1>1, <1>6 DEF segment_write
  <2> QED BY <2>1, CrashesType
<1>7. CASE ~ (res.rc # ELEOS /\ sgm.w.index \notin Entry)
  <2>1. /\ files' = [files EXCEPT ![b] = res.file]
        /\ sgms' = IF fresh THEN sgms ELSE [sgms EXCEPT ![b].w = res.w]
        /\ UNCHANGED <<tree, lock, phase, fault, acked, synced>>
        /\ \/ /\ res.rc # ELEOS
              /\ loc' = [loc EXCEPT ![t].off = next, ![t].rc = res.rc,
                                    ![t].new = IF fresh THEN [@ EXCEPT !.w = res.w] ELSE @]
              /\ written' = written \cup {<<next, p>>}
              /\ Goto(t, IF fresh THEN "mbptree_append" ELSE "unlock")
              /\ UNCHANGED disk
           \/ /\ res.rc = ELEOS /\ ~ fresh
              /\ loc' = [loc EXCEPT ![t].sgm = next, ![t].fresh = TRUE]
              /\ Goto(t, "create_segment")
              /\ UNCHANGED <<disk, written>>
           \/ /\ res.rc = ELEOS /\ fresh
              /\ TryWriteReturns(t, ELNOWCP)
              /\ disk' = [disk EXCEPT ![b] = SegmentSynced(@, res.file, sgm)]
              /\ UNCHANGED written
    BY <1>1, <1>7 DEF segment_write, life
  <2>2. /\ IsFile(res.file) /\ res.w \in Pair /\ res.w.index <= MappedEntries(Size)
        /\ res.rc # ELEOS => res.rc = SizeOf[p]
        /\ res.rc = ELEOS => res.w.index = sgm.w.index
    BY <1>1, <1>2, <1>5, <1>7, SegmentWriteType
  <2>3. SizeOf[p] \in Nat
    BY <1>2, SizeOfType
  <2>4. FilesOK'
    <3>1. IsFile(disk[b]) /\ IsFile(SegmentSynced(disk[b], res.file, sgm))
      BY <1>2, <1>4, <2>2, SegmentSyncedType DEF LogTypeInv, FilesOK
    <3> QED BY <1>2, <2>1, <2>2, <3>1 DEF LogTypeInv, FilesOK
  <2>5. SgmsOK' /\ DOMAIN sgms' = DOMAIN sgms
    BY <1>3, <2>1, <2>2 DEF LogTypeInv, SgmsOK, OpenSegment
  <2>6. HistoryOK'
    BY <1>2, <1>5, <2>1 DEF LogTypeInv, HistoryOK, Frame
  <2>7. TreeOK'
    BY <1>0, <2>1, <2>5, TreeStays
  <2>8. MutexOK' /\ PhaseOK' /\ LocalsOK'
    <3>1. CASE res.rc # ELEOS
      <4> DEFINE new == IF fresh THEN [loc[t].new EXCEPT !.w = res.w] ELSE loc[t].new
                 v == [loc[t] EXCEPT !.off = next, !.rc = res.rc, !.new = new]
                 l == IF fresh THEN "mbptree_append" ELSE "unlock"
      <4>0. new \in OpenSegment
        BY <1>0, <2>2 DEF Locals, OpenSegment
      <4>1. v \in Locals /\ v.off = next /\ v.sgm = b /\ v.buf = p /\ v.fresh = fresh
        <5> HIDE DEF new
        <5>1. res.rc \in Int
          BY <2>2, <2>3, <3>1
        <5> QED BY <1>0, <1>1, <1>5, <4>0, <5>1 DEF Locals
      <4>2. loc' = [loc EXCEPT ![t] = v]
        BY <1>0, <2>1, <3>1 DEF Locals
      <4>3. Goto(t, l) /\ l \in WriterLabels \ {"idle"}
        BY <2>1, <3>1 DEF WriterLabels
      <4>4. loc'[t] = v /\ pc'[t] = l /\ <<next, p>> \in written'
        BY <1>0, <2>1, <3>1, <4>2, <4>3 DEF Goto
      <4>5. fresh => NextBase' = NextBase
        BY <2>1 DEF NextBase
      <4>6. WriterOK(t)'
        <5>1. b \in DOMAIN files'
          BY <1>2, <2>1
        <5>2. fresh => b = NextBase
          BY <1>0, <1>1 DEF WriterOK
        <5> HIDE DEF v
        <5> QED BY <1>2, <4>1, <4>4, <4>5, <5>1, <5>2 DEF WriterOK
      <4> HIDE DEF v, l
      <4> QED BY <1>0, <2>1, <2>5, <4>1, <4>2, <4>3, <4>6, WriterMoves
    <3>2. CASE res.rc = ELEOS /\ ~ fresh
      <4> DEFINE v == [loc[t] EXCEPT !.sgm = next, !.fresh = TRUE]
      <4>1. v \in Locals /\ v.sgm = next /\ v.fresh = TRUE /\ v.buf = p
        BY <1>0, <1>1, <1>5 DEF Locals
      <4>2. loc' = [loc EXCEPT ![t] = v]
        BY <1>0, <2>1, <3>2 DEF Locals
      <4>3. Goto(t, "create_segment") /\ "create_segment" \in WriterLabels \ {"idle"}
        BY <2>1, <3>2 DEF WriterLabels
      <4>4. loc'[t] = v /\ pc'[t] = "create_segment"
        BY <1>0, <4>2, <4>3 DEF Goto
      <4>5. NextBase' = next
        <5>1. sgms'[b].w.index = sgms[b].w.index
          BY <1>1, <1>3, <2>1, <2>2, <3>2 DEF LogTypeInv, SgmsOK, OpenSegment
        <5> QED BY <1>1, <1>3, <2>1, <3>2, <5>1 DEF NextBase, segment_write_offset
      <4>6. WriterOK(t)'
        <5> HIDE DEF v
        <5> QED BY <1>2, <4>1, <4>4, <4>5 DEF WriterOK
      <4> HIDE DEF v
      <4> QED BY <1>0, <2>1, <2>5, <4>1, <4>2, <4>3, <4>6, WriterMoves
    <3>3. CASE res.rc = ELEOS /\ fresh
      <4>1. ELNOWCP \in Int /\ ELNOWCP <= 0
        BY DEF ELNOWCP
      <4>2. TryWriteReturns(t, ELNOWCP)
        BY <2>1, <3>3
      <4> QED BY <1>0, <2>1, <2>5, <4>1, <4>2, ReturnsType
    <3> QED BY <1>2, <3>1, <3>2, <3>3
  <2> QED BY <2>4, <2>5, <2>6, <2>7, <2>8 DEF LogTypeInv
<1> QED BY <1>6, <1>7

LEMMA AppendRefusedType ==
  ASSUME LogTypeInv, NEW t \in Writers, AppendRefused(t)
  PROVE  LogTypeInv'
<1>0. /\ pc[t] = "mbptree_append" /\ loc[t] \in Locals /\ WriterOK(t)
  BY InMutex DEF AppendRefused, At
<1>1. PICK b : b = loc[t].sgm
  OBVIOUS
<1>2. b \in DOMAIN files /\ IsFile(files[b]) /\ IsFile(disk[b]) /\ loc[t].new \in OpenSegment
  BY <1>0, <1>1 DEF WriterOK, Locals, LogTypeInv, FilesOK
<1>3. IsFile(SegmentSynced(disk[b], files[b], loc[t].new))
  BY <1>2, SegmentSyncedType
<1>4. /\ UNCHANGED <<files, sgms, tree, lock, phase, fault, written, acked, synced>>
      /\ disk' = [disk EXCEPT ![b] = SegmentSynced(@, files[b], loc[t].new)]
      /\ TryWriteReturns(t, ELIDXOP)
  BY <1>1 DEF AppendRefused, life
<1>5. FilesOK' /\ SgmsOK' /\ HistoryOK'
  BY <1>2, <1>3, <1>4 DEF LogTypeInv, FilesOK, SgmsOK, HistoryOK
<1>6. ELIDXOP \in Int /\ ELIDXOP <= 0
  BY DEF ELIDXOP
<1>7. TreeOK' /\ MutexOK' /\ PhaseOK' /\ LocalsOK'
  BY <1>0, <1>4, <1>6, ReturnsType
<1> QED BY <1>5, <1>7 DEF LogTypeInv

LEMMA AppendType ==
  ASSUME LogTypeInv, NEW t \in Writers, mbptree_append(t)
  PROVE  LogTypeInv'
<1>0. /\ pc[t] = "mbptree_append" /\ t \in Threads /\ pc \in [Threads -> Labels]
      /\ loc \in [Threads -> Locals] /\ loc[t] \in Locals /\ WriterOK(t)
  BY InMutex DEF mbptree_append, At, LogTypeInv, LocalsOK, MutexOK
<1> DEFINE T == [key : Nat, sgm : Nat \cup {NULL}]
<1>1. PICK e : e = [key |-> loc[t].sgm, sgm |-> NULL]
  OBVIOUS
<1>2. /\ UNCHANGED <<files, disk, sgms, lock, loc, phase, fault, written, acked, synced>>
      /\ tree' = Append(tree, e) /\ Goto(t, "store_value")
  BY <1>1 DEF mbptree_append, life
<1>3. e \in T /\ tree \in Seq(T)
  BY <1>0, <1>1 DEF LogTypeInv, TreeOK, Locals
<1>4. /\ tree' \in Seq(T) /\ Len(tree') = Len(tree) + 1 /\ tree' # <<>>
      /\ DOMAIN tree = 1 .. Len(tree) /\ Len(tree) \in Nat
      /\ DOMAIN tree' = 1 .. Len(tree) + 1
      /\ \A i \in DOMAIN tree : tree'[i] = tree[i]
      /\ tree'[Len(tree) + 1] = e
  <2> HIDE DEF T
  <2> QED BY <1>2, <1>3
<1>5. \A i \in DOMAIN tree : tree[i].sgm = tree[i].key /\ tree[i].key \in DOMAIN sgms
  BY <1>0, InMutex, TreeFull
<1>6. pc'[t] = "store_value"
  BY <1>0, <1>2 DEF Goto
<1>7. TreeOK'
  <2>1. ASSUME NEW i \in DOMAIN tree'
        PROVE  \/ tree'[i].sgm = tree'[i].key /\ tree'[i].key \in DOMAIN sgms'
               \/ tree'[i].sgm = NULL /\ i = Len(tree')
    BY <1>1, <1>2, <1>4, <1>5
  <2> QED BY <1>4, <1>6, <2>1 DEF TreeOK
<1>8. Last(tree') = e
  BY <1>4 DEF Last
<1>9. WriterOK(t)'
  BY <1>0, <1>1, <1>2, <1>4, <1>6, <1>8 DEF WriterOK
<1>10. loc' = [loc EXCEPT ![t] = loc[t]] /\ "store_value" \in WriterLabels \ {"idle"}
  BY <1>0, <1>2 DEF WriterLabels
<1>11. MutexOK' /\ PhaseOK' /\ LocalsOK'
  <2>1. DOMAIN tree \subseteq DOMAIN tree' /\ DOMAIN sgms \subseteq DOMAIN sgms'
    BY <1>2, <1>4
  <2> QED BY <1>0, <1>2, <1>9, <1>10, <2>1, WriterMoves
<1>12. FilesOK' /\ SgmsOK' /\ HistoryOK'
  BY <1>2 DEF LogTypeInv, FilesOK, SgmsOK, HistoryOK
<1> QED BY <1>7, <1>11, <1>12 DEF LogTypeInv

LEMMA StoreValueType ==
  ASSUME LogTypeInv, NEW t \in Writers, StoreValue(t)
  PROVE  LogTypeInv'
<1>0. /\ pc[t] = "store_value" /\ t \in Threads /\ pc \in [Threads -> Labels]
      /\ loc \in [Threads -> Locals] /\ loc[t] \in Locals /\ WriterOK(t)
  BY InMutex DEF StoreValue, At, LogTypeInv, LocalsOK, MutexOK
<1> DEFINE T == [key : Nat, sgm : Nat \cup {NULL}]
<1>1. PICK b, new : b = loc[t].sgm /\ new = loc[t].new
  OBVIOUS
<1>2. /\ UNCHANGED <<files, disk, lock, loc, phase, fault, written, acked, synced>>
      /\ tree' = [tree EXCEPT ![Len(tree)].sgm = b]
      /\ sgms' = With(sgms, b, new) /\ Goto(t, "unlock")
  BY <1>1 DEF StoreValue, life, NewSlot
<1>3. /\ tree # <<>> /\ Last(tree) = [key |-> b, sgm |-> NULL]
      /\ b \in DOMAIN files /\ b \in Nat /\ new \in OpenSegment
  BY <1>0, <1>1 DEF WriterOK, Locals
<1>4. /\ Len(tree) \in DOMAIN tree /\ tree[Len(tree)] = [key |-> b, sgm |-> NULL]
      /\ DOMAIN tree = 1 .. Len(tree) /\ Len(tree) \in Nat
  BY <1>3, LastType
<1>5. /\ DOMAIN tree' = DOMAIN tree
      /\ tree'[Len(tree)] = [key |-> b, sgm |-> b]
      /\ \A i \in DOMAIN tree \ {Len(tree)} : tree'[i] = tree[i]
  BY <1>2, <1>4
<1>6. tree \in Seq(T) /\ [key |-> b, sgm |-> b] \in T
  BY <1>3 DEF LogTypeInv, TreeOK
<1>7. tree' \in Seq(T)
  <2>1. PICK e : e = [tree[Len(tree)] EXCEPT !.sgm = b]
    OBVIOUS
  <2>2. tree' = [tree EXCEPT ![Len(tree)] = e]
    BY <1>2, <2>1
  <2>3. e = [key |-> b, sgm |-> b]
    BY <1>4, <2>1
  <2>4. e \in T
    BY <1>6, <2>3
  <2> HIDE DEF T
  <2> QED BY <1>4, <1>6, <2>2, <2>4
<1>8. DOMAIN sgms' = DOMAIN sgms \cup {b} /\ \A c \in DOMAIN sgms' : sgms'[c] \in OpenSegment
  BY <1>2, <1>3 DEF With, LogTypeInv, SgmsOK
<1>9. TreeOK'
  <2>1. ASSUME NEW i \in DOMAIN tree'
        PROVE  tree'[i].sgm = tree'[i].key /\ tree'[i].key \in DOMAIN sgms'
    BY <1>4, <1>5, <1>8 DEF LogTypeInv, TreeOK
  <2> QED BY <1>7, <2>1 DEF TreeOK
<1>10. pc'[t] = "unlock" /\ loc' = [loc EXCEPT ![t] = loc[t]]
  BY <1>0, <1>2 DEF Goto
<1>11. WriterOK(t)'
  BY <1>0, <1>2, <1>10 DEF WriterOK
<1>12. "unlock" \in WriterLabels \ {"idle"}
  BY DEF WriterLabels
<1>13. MutexOK' /\ PhaseOK' /\ LocalsOK'
  BY <1>0, <1>2, <1>5, <1>8, <1>10, <1>11, <1>12, WriterMoves
<1>14. FilesOK' /\ SgmsOK' /\ HistoryOK'
  BY <1>2, <1>3, <1>8 DEF LogTypeInv, FilesOK, SgmsOK, HistoryOK
<1> QED BY <1>9, <1>13, <1>14 DEF LogTypeInv

LEMMA IdleType ==
  ASSUME NEW rc \in Int
  PROVE  Idle(rc) \in Locals
BY NoSegmentType DEF Idle, Locals

LEMMA UnlockType ==
  ASSUME LogTypeInv, NEW t \in Writers, WriteUnlock(t)
  PROVE  LogTypeInv'
<1>0. /\ pc[t] = "unlock" /\ t \in Threads /\ pc \in [Threads -> Labels] /\ phase = "open"
      /\ loc \in [Threads -> Locals] /\ loc[t] \in Locals /\ WriterOK(t) /\ lock = t
      /\ \A u \in Writers \ {t} : pc[u] = "idle"
  BY InMutex DEF WriteUnlock, At, LogTypeInv, LocalsOK, MutexOK
<1>1. /\ UNCHANGED <<files, disk, sgms, tree, phase, fault, written, synced>>
      /\ lock' = NoThread /\ Goto(t, "idle") /\ loc' = [loc EXCEPT ![t] = Idle(0)]
      /\ acked' = IF loc[t].rc > 0 THEN acked \cup {<<loc[t].off, loc[t].buf>>} ELSE acked
  BY DEF WriteUnlock, held, life
<1>2. /\ Writers \subseteq Threads /\ Readers \subseteq Threads /\ Syncers \subseteq Threads
      /\ t \notin Readers /\ t \notin Syncers /\ NoThread \notin Threads
  BY LogAssumption DEF Threads
<1>3. pc' \in [Threads -> Labels] /\ pc'[t] = "idle" /\ \A u \in Threads \ {t} : pc'[u] = pc[u]
  BY <1>0, <1>1 DEF Goto, Labels
<1>4. loc' \in [Threads -> Locals] /\ \A u \in Threads \ {t} : loc'[u] = loc[u]
  BY <1>0, <1>1, IdleType
<1>5. \A u \in Writers : pc'[u] = "idle"
  BY <1>0, <1>2, <1>3
<1>6. MutexOK'
  <2>1. \A u \in Readers : pc'[u] = pc[u] /\ pc[u] # "leaf_floor" /\ u # NoThread
    BY <1>0, <1>2, <1>3 DEF LogTypeInv, MutexOK
  <2>2. \A u \in Syncers : pc'[u] = pc[u]
    BY <1>2, <1>3
  <2> QED BY <1>1, <1>3, <1>5, <2>1, <2>2 DEF LogTypeInv, MutexOK, WriterLabels
<1>7. \A u \in Writers : WriterOK(u)'
  BY <1>5 DEF WriterOK
<1>8. LocalsOK'
  BY <1>1, <1>2, <1>3, <1>4, <1>7 DEF LogTypeInv, LocalsOK
<1>9. TreeOK'
  BY <1>0, <1>1, TreeStays
<1>10. FilesOK' /\ SgmsOK' /\ PhaseOK'
  BY <1>0, <1>1 DEF LogTypeInv, FilesOK, SgmsOK, PhaseOK
<1>11. HistoryOK'
  BY <1>0, <1>1 DEF LogTypeInv, HistoryOK, WriterOK
<1> QED BY <1>6, <1>8, <1>9, <1>10, <1>11 DEF LogTypeInv

LEMMA WriteType ==
  ASSUME LogTypeInv, NEW t \in Writers, NEW p \in Payloads, mqlog_write(t, p)
  PROVE  LogTypeInv'
<1>0. /\ pc[t] = "idle" /\ t \in Threads /\ pc \in [Threads -> Labels] /\ phase = "open"
      /\ loc \in [Threads -> Locals]
      /\ Writers \subseteq Threads /\ Readers \subseteq Threads /\ Syncers \subseteq Threads
      /\ t \notin Readers /\ t \notin Syncers /\ NoThread \notin Threads
  BY LogAssumption DEF mqlog_write, At, LogTypeInv, LocalsOK, MutexOK, Threads
<1>1. UNCHANGED <<files, disk, sgms, tree, phase, fault, written, acked, synced>>
  BY DEF mqlog_write, held, life
<1>2. NextBase' = NextBase
  BY <1>1 DEF NextBase
<1>3. FilesOK' /\ SgmsOK' /\ HistoryOK'
  BY <1>1 DEF LogTypeInv, FilesOK, SgmsOK, HistoryOK
<1>4. CASE UNCHANGED <<lock, pc, loc>>
  <2>1. \A u : WriterOK(u)' = WriterOK(u)
    BY <1>1, <1>2, <1>4 DEF WriterOK
  <2> QED BY <1>1, <1>3, <1>4, <2>1 DEF LogTypeInv, TreeOK, MutexOK, PhaseOK, LocalsOK
<1>5. CASE /\ ~ Busy /\ lock' = t /\ Goto(t, "last_value")
           /\ loc' = [loc EXCEPT ![t] = [Idle(0) EXCEPT !.buf = p]]
  <2>1. \A u \in Writers : pc[u] = "idle"
    BY <1>0, <1>5 DEF Busy, LogTypeInv, MutexOK
  <2>2. /\ pc' \in [Threads -> Labels] /\ pc'[t] = "last_value"
        /\ \A u \in Threads \ {t} : pc'[u] = pc[u]
    BY <1>0, <1>5 DEF Goto, Labels
  <2>3. [Idle(0) EXCEPT !.buf = p] \in Locals /\ [Idle(0) EXCEPT !.buf = p].buf = p
    BY IdleType DEF Locals
  <2>4. /\ loc' \in [Threads -> Locals] /\ loc'[t].buf = p
        /\ \A u \in Threads \ {t} : loc'[u] = loc[u]
    BY <1>0, <1>5, <2>3
  <2>5. MutexOK'
    <3>1. \A u \in Readers : /\ pc'[u] = pc[u] /\ pc[u] # "leaf_floor" /\ u # t
                             /\ pc[u] \in ReaderLabels
      BY <1>0, <1>5, <2>2 DEF Busy, LogTypeInv, MutexOK
    <3>2. \A u \in Syncers : pc'[u] \in SyncerLabels
      BY <1>0, <2>2 DEF LogTypeInv, MutexOK
    <3>3. \A u \in Writers : pc'[u] \in WriterLabels /\ (pc'[u] # "idle" => lock' = u)
      BY <1>0, <1>5, <2>1, <2>2 DEF WriterLabels
    <3> QED BY <1>0, <1>5, <2>2, <3>1, <3>2, <3>3 DEF MutexOK
  <2>6. \A u \in Writers : WriterOK(u)'
    <3>1. WriterOK(t)'
      BY <2>2, <2>4 DEF WriterOK
    <3>2. \A u \in Writers \ {t} : WriterOK(u)'
      BY <1>0, <2>1, <2>2 DEF WriterOK
    <3> QED BY <3>1, <3>2
  <2>7. LocalsOK'
    BY <1>0, <1>1, <2>2, <2>4, <2>6 DEF LogTypeInv, LocalsOK
  <2>8. TreeOK'
    <3>1. \A i \in DOMAIN tree : tree[i].sgm = tree[i].key /\ tree[i].key \in DOMAIN sgms
      BY <2>1, TreeFull
    <3> QED BY <1>1, <3>1 DEF LogTypeInv, TreeOK
  <2>9. PhaseOK'
    BY <1>0, <1>1 DEF LogTypeInv, PhaseOK
  <2> QED BY <1>3, <2>5, <2>7, <2>8, <2>9 DEF LogTypeInv
<1> QED BY <1>4, <1>5 DEF mqlog_write

-----------------------------------------------------------------------------
(* The steps of mqlog_read and mqlog_sync. *)

(* What a step of a thread that is no producer may leave to be shown. *)
LEMMA OtherMoves ==
  ASSUME LogTypeInv, NEW t \in Readers \cup Syncers, NEW l \in Labels, Goto(t, l),
         NEW v \in Locals, loc' = [loc EXCEPT ![t] = v],
         UNCHANGED <<files, tree, phase, fault, written, acked>>,
         phase = "open",
         DOMAIN sgms' = DOMAIN sgms, \A b \in DOMAIN sgms : sgms'[b].w = sgms[b].w,
         t \in Readers => /\ l \in ReaderLabels
                          /\ l = "segment_read" => v.sgm \in DOMAIN sgms /\ v.sgm <= v.off,
         t \in Syncers => l \in SyncerLabels /\ (l = "segment_sync" => v.off \in DOMAIN tree)
  PROVE  /\ TreeOK' /\ PhaseOK' /\ LocalsOK'
         /\ pc' \in [Threads -> Labels] /\ pc'[t] = l /\ \A u \in Threads \ {t} : pc'[u] = pc[u]
<1>0. /\ Writers \subseteq Threads /\ Readers \subseteq Threads /\ Syncers \subseteq Threads
      /\ t \in Threads /\ t \notin Writers /\ Readers \cap Syncers = {}
      /\ pc \in [Threads -> Labels] /\ loc \in [Threads -> Locals]
  BY LogAssumption DEF LogTypeInv, MutexOK, LocalsOK, Threads
<1>1. pc' \in [Threads -> Labels] /\ pc'[t] = l /\ \A u \in Threads \ {t} : pc'[u] = pc[u]
  BY <1>0 DEF Goto
<1>2. loc' \in [Threads -> Locals] /\ loc'[t] = v /\ \A u \in Threads \ {t} : loc'[u] = loc[u]
  BY <1>0
<1>3. \A u \in Writers : u \in Threads \ {t} /\ pc'[u] = pc[u] /\ loc'[u] = loc[u]
  BY <1>0, <1>1, <1>2
<1>4. TreeOK'
  BY <1>3 DEF LogTypeInv, TreeOK
<1>5. PhaseOK'
  BY DEF LogTypeInv, PhaseOK
<1>6. ASSUME NEW u \in Writers PROVE WriterOK(u)'
  <2>1. CASE pc[u] \in {"create_segment", "segment_open", "segment_write", "mbptree_append"}
    <3>1. NextBase' = NextBase
      <4>1. \A b \in DOMAIN sgms : sgms'[b].w.index = sgms[b].w.index
        OBVIOUS
      <4> QED BY <2>1, <4>1, NextBaseStays
    <3> QED BY <1>3, <2>1, <3>1 DEF LogTypeInv, LocalsOK, WriterOK
  <2>2. CASE pc[u] \notin {"create_segment", "segment_open", "segment_write", "mbptree_append"}
    BY <1>3, <2>2 DEF LogTypeInv, LocalsOK, WriterOK
  <2> QED BY <2>1, <2>2
<1>7. \A u \in Readers : pc'[u] = "segment_read" =>
        loc'[u].sgm \in DOMAIN sgms' /\ loc'[u].sgm <= loc'[u].off
  BY <1>0, <1>1, <1>2 DEF LogTypeInv, LocalsOK
<1>8. \A u \in Syncers : pc'[u] = "segment_sync" => loc'[u].off \in DOMAIN tree'
  BY <1>0, <1>1, <1>2 DEF LogTypeInv, LocalsOK
<1>9. LocalsOK'
  BY <1>2, <1>6, <1>7, <1>8 DEF LocalsOK
<1> QED BY <1>1, <1>4, <1>5, <1>9

(* A consumer takes the mutex when it is free and may give it back. *)
LEMMA ReaderMutex ==
  ASSUME LogTypeInv, NEW t \in Readers, NEW l \in ReaderLabels, pc' \in [Threads -> Labels],
         pc'[t] = l, \A u \in Threads \ {t} : pc'[u] = pc[u],
         \/ lock' = t /\ l # "segment_read" /\ (lock = NoThread \/ lock = t)
         \/ lock' = NoThread /\ lock = t /\ l # "leaf_floor"
         \/ lock' = lock /\ l = "idle"
  PROVE  MutexOK'
<1>0. /\ Writers \subseteq Threads /\ Readers \subseteq Threads /\ Syncers \subseteq Threads
      /\ t \in Threads /\ t \notin Writers /\ t \notin Syncers /\ NoThread \notin Threads
  BY LogAssumption DEF Threads
<1>1. lock' \in Writers \cup Readers \cup {NoThread}
  BY <1>0 DEF LogTypeInv, MutexOK
<1>2. \A u \in Writers : pc'[u] \in WriterLabels /\ (pc'[u] # "idle" => lock' = u)
  BY <1>0 DEF LogTypeInv, MutexOK
<1>3. ASSUME NEW u \in Readers
      PROVE  /\ pc'[u] \in ReaderLabels /\ (pc'[u] = "leaf_floor" => lock' = u)
             /\ pc'[u] = "segment_read" => lock' # u
  BY <1>0 DEF LogTypeInv, MutexOK
<1>4. \A u \in Syncers : pc'[u] \in SyncerLabels
  BY <1>0 DEF LogTypeInv, MutexOK
<1> QED BY <1>1, <1>2, <1>3, <1>4 DEF MutexOK

LEMMA ReadType ==
  ASSUME LogTypeInv, NEW t \in Readers, NEW off \in 0 .. MaxWrites, mqlog_read(t, off)
  PROVE  LogTypeInv'
<1>0. /\ phase = "open" /\ pc[t] = "idle" /\ pc \in [Threads -> Labels] /\ off \in Nat
      /\ t \in Threads /\ t \notin Syncers
  BY LogAssumption DEF mqlog_read, At, LogTypeInv, MutexOK, Threads
<1>1. UNCHANGED <<files, disk, sgms, tree, phase, fault, written, acked, synced>>
  BY DEF mqlog_read, held, life
<1>2. FilesOK' /\ SgmsOK' /\ HistoryOK'
  BY <1>1 DEF LogTypeInv, FilesOK, SgmsOK, HistoryOK
<1>3. {"idle", "leaf_floor"} \subseteq Labels /\ {"idle", "leaf_floor"} \subseteq ReaderLabels
  BY DEF Labels, ReaderLabels
<1>4. CASE /\ Busy /\ loc' = [loc EXCEPT ![t] = Idle(ELLOCK)] /\ UNCHANGED <<lock, pc>>
  <2>1. Goto(t, "idle") /\ Idle(ELLOCK) \in Locals
    BY <1>0, <1>4, IdleType DEF Goto, ELLOCK
  <2>2. /\ TreeOK' /\ PhaseOK' /\ LocalsOK'
        /\ pc' \in [Threads -> Labels] /\ pc'[t] = "idle" /\ \A u \in Threads \ {t} : pc'[u] = pc[u]
    BY <1>0, <1>1, <1>3, <1>4, <2>1, OtherMoves
  <2>3. MutexOK'
    BY <1>3, <1>4, <2>2, ReaderMutex
  <2> QED BY <1>2, <2>2, <2>3 DEF LogTypeInv
<1>5. CASE /\ ~ Busy /\ lock' = t /\ Goto(t, "leaf_floor")
           /\ loc' = [loc EXCEPT ![t] = [Idle(0) EXCEPT !.off = off]]
  <2>1. [Idle(0) EXCEPT !.off = off] \in Locals
    BY <1>0, IdleType DEF Locals
  <2>2. /\ TreeOK' /\ PhaseOK' /\ LocalsOK'
        /\ pc' \in [Threads -> Labels] /\ pc'[t] = "leaf_floor" /\ \A u \in Threads \ {t} : pc'[u] = pc[u]
    BY <1>0, <1>1, <1>3, <1>5, <2>1, OtherMoves
  <2>3. MutexOK'
    BY <1>3, <1>5, <2>2, ReaderMutex DEF Busy
  <2> QED BY <1>2, <2>2, <2>3 DEF LogTypeInv
<1> QED BY <1>4, <1>5 DEF mqlog_read

LEMMA ReturnedType ==
  ASSUME LogTypeInv, NEW t \in Readers, t \in Threads, NEW rc \in Int, NEW p \in Payloads \cup {NoPayload},
         ReadReturns(t, rc, p)
  PROVE  \E v \in Locals : /\ loc' = [loc EXCEPT ![t] = v] /\ Goto(t, "idle")
                           /\ v.rc = rc /\ v.buf = p /\ v.off = IF rc > 0 THEN loc[t].off ELSE 0
<1>0. loc[t] \in Locals
  BY DEF LogTypeInv, LocalsOK
<1>1. PICK v : v = [Idle(rc) EXCEPT !.off = IF rc > 0 THEN loc[t].off ELSE 0, !.buf = p]
  OBVIOUS
<1>2. v \in Locals
  BY <1>0, <1>1, IdleType DEF Locals
<1>3. v.rc = rc /\ v.buf = p /\ v.off = IF rc > 0 THEN loc[t].off ELSE 0
  BY <1>1 DEF Idle
<1>4. loc' = [loc EXCEPT ![t] = v] /\ Goto(t, "idle")
  BY <1>1 DEF ReadReturns
<1> QED BY <1>2, <1>3, <1>4

(* The place that mbptree_leaf_floor finds. *)
LEMMA FloorFound ==
  ASSUME LogTypeInv, NEW off \in Nat, Floor(tree, off) # {}
  PROVE  /\ Max(Floor(tree, off)) \in Floor(tree, off)
         /\ \A i \in Floor(tree, off) : Max(Floor(tree, off)) = i
<1> DEFINE at == Floor(tree, off)
<1>1. at \subseteq Nat /\ \A i, j \in at : i = j
  <2>1. DOMAIN tree \subseteq Nat
    BY DEF LogTypeInv, TreeOK
  <2> QED BY <2>1 DEF Floor
<1>2. PICK i : i \in at
  OBVIOUS
<1>3. \E x \in at : \A y \in at : x >= y
  <2> HIDE DEF at
  <2> QED BY <1>1, <1>2
<1>4. Max(at) \in at
  <2> HIDE DEF at
  <2> QED BY <1>3 DEF Max
<1> QED BY <1>1, <1>4

LEMMA LeafFloorType ==
  ASSUME LogTypeInv, NEW t \in Readers, leaf_floor(t)
  PROVE  LogTypeInv'
<1>0. /\ phase = "open" /\ pc[t] = "leaf_floor" /\ pc \in [Threads -> Labels] /\ lock = t
      /\ t \in Threads /\ t \notin Syncers /\ t \notin Writers
      /\ loc \in [Threads -> Locals] /\ loc[t] \in Locals
  BY LogAssumption DEF leaf_floor, At, LogTypeInv, MutexOK, LocalsOK, Threads
<1>1. UNCHANGED <<files, disk, sgms, tree, phase, fault, written, acked, synced>>
  BY DEF leaf_floor, held, life
<1>2. FilesOK' /\ SgmsOK' /\ HistoryOK'
  BY <1>1 DEF LogTypeInv, FilesOK, SgmsOK, HistoryOK
<1>3. {"idle", "segment_read"} \subseteq Labels /\ {"idle", "segment_read"} \subseteq ReaderLabels
  BY DEF Labels, ReaderLabels
<1>4. PICK at : at = Floor(tree, loc[t].off)
  OBVIOUS
<1>5. CASE /\ at # {} /\ lock' = NoThread /\ Goto(t, "segment_read")
           /\ loc' = [loc EXCEPT ![t].sgm = tree[Max(at)].sgm]
  <2>1. PICK m : m = Max(at)
    OBVIOUS
  <2>2. loc[t].off \in Nat
    BY <1>0 DEF Locals
  <2>3. m \in DOMAIN tree /\ tree[m].key <= loc[t].off
    BY <1>4, <1>5, <2>1, <2>2, FloorFound DEF Floor
  <2>4. \A u \in Writers : pc[u] # "store_value"
    BY <1>0 DEF LogTypeInv, MutexOK
  <2>5. tree[m].sgm = tree[m].key /\ tree[m].key \in DOMAIN sgms
    BY <2>3, <2>4, TreeFull
  <2>6. tree[m].sgm \in Nat
    BY <2>5 DEF LogTypeInv, SgmsOK, FilesOK
  <2>7. PICK v \in Locals : /\ v.sgm = tree[m].sgm /\ v.off = loc[t].off
                            /\ v = [loc[t] EXCEPT !.sgm = tree[m].sgm]
    BY <1>0, <2>6 DEF Locals
  <2>8. loc' = [loc EXCEPT ![t] = v]
    BY <1>0, <1>5, <2>1, <2>7
  <2>9. v.sgm \in DOMAIN sgms /\ v.sgm <= v.off
    BY <2>3, <2>5, <2>7
  <2>10. /\ TreeOK' /\ PhaseOK' /\ LocalsOK' /\ pc' \in [Threads -> Labels]
         /\ pc'[t] = "segment_read" /\ \A u \in Threads \ {t} : pc'[u] = pc[u]
    <3>1. /\ t \in Readers \cup Syncers /\ "segment_read" \in Labels /\ "segment_read" \in ReaderLabels
          /\ DOMAIN sgms' = DOMAIN sgms /\ \A b \in DOMAIN sgms : sgms'[b].w = sgms[b].w
      BY <1>1, <1>3
    <3>2. Goto(t, "segment_read") /\ UNCHANGED <<files, tree, phase, fault, written, acked>>
      BY <1>1, <1>5
    <3> QED BY <1>0, <2>8, <2>9, <3>1, <3>2, OtherMoves
  <2>11. MutexOK'
    BY <1>0, <1>3, <1>5, <2>10, ReaderMutex
  <2> QED BY <1>2, <2>10, <2>11 DEF LogTypeInv
<1>6. CASE NothingFound(t) \/ (ReadReturns(t, ELALLC, NoPayload) /\ UNCHANGED lock)
  <2>1. ELNORD \in Int /\ ELALLC \in Int
    BY DEF ELNORD, ELALLC
  <2>2. PICK v \in Locals : loc' = [loc EXCEPT ![t] = v] /\ Goto(t, "idle")
    BY <1>0, <1>6, <2>1, ReturnedType DEF NothingFound
  <2>3. /\ TreeOK' /\ PhaseOK' /\ LocalsOK' /\ pc' \in [Threads -> Labels]
        /\ pc'[t] = "idle" /\ \A u \in Threads \ {t} : pc'[u] = pc[u]
    BY <1>0, <1>1, <1>3, <2>2, OtherMoves
  <2>4. lock' = NoThread \/ lock' = lock
    BY <1>6 DEF NothingFound
  <2>5. MutexOK'
    BY <1>0, <1>3, <2>3, <2>4, ReaderMutex
  <2> QED BY <1>2, <2>3, <2>5 DEF LogTypeInv
<1> QED BY <1>4, <1>5, <1>6 DEF leaf_floor

LEMMA SegmentReadStepType ==
  ASSUME LogTypeInv, NEW t \in Readers, segment_read(t)
  PROVE  LogTypeInv'
<1>0. /\ phase = "open" /\ pc[t] = "segment_read" /\ pc \in [Threads -> Labels] /\ lock # t
      /\ t \in Threads /\ t \notin Syncers /\ t \notin Writers
      /\ loc \in [Threads -> Locals] /\ loc[t] \in Locals
  BY LogAssumption DEF segment_read, At, LogTypeInv, MutexOK, LocalsOK, Threads
<1>1. UNCHANGED <<files, disk, sgms, tree, lock, phase, fault, written, acked, synced>>
  BY DEF segment_read, held, life
<1>2. FilesOK' /\ SgmsOK' /\ HistoryOK'
  BY <1>1 DEF LogTypeInv, FilesOK, SgmsOK, HistoryOK
<1>3. "idle" \in Labels /\ "idle" \in ReaderLabels
  BY DEF Labels, ReaderLabels
<1>4. PICK b, rel : b = loc[t].sgm /\ rel = relative_offset(loc[t].off, b)
  OBVIOUS
<1>5. b \in DOMAIN sgms /\ sgms[b] \in OpenSegment /\ IsFile(files[b])
  BY <1>0, <1>4 DEF LogTypeInv, LocalsOK, SgmsOK, FilesOK
<1>6. PICK rc \in Int, p \in Payloads \cup {NoPayload} : ReadReturns(t, rc, p)
  BY <1>4, <1>5, SegmentReadType DEF segment_read
<1>7. PICK v \in Locals : loc' = [loc EXCEPT ![t] = v] /\ Goto(t, "idle")
  BY <1>0, <1>6, ReturnedType
<1>8. /\ TreeOK' /\ PhaseOK' /\ LocalsOK' /\ pc' \in [Threads -> Labels]
      /\ pc'[t] = "idle" /\ \A u \in Threads \ {t} : pc'[u] = pc[u]
  BY <1>0, <1>1, <1>3, <1>7, OtherMoves
<1>9. MutexOK'
  BY <1>1, <1>3, <1>8, ReaderMutex
<1> QED BY <1>2, <1>8, <1>9 DEF LogTypeInv

LEMMA SyncerMutex ==
  ASSUME LogTypeInv, NEW t \in Syncers, NEW l \in SyncerLabels, pc' \in [Threads -> Labels],
         pc'[t] = l, \A u \in Threads \ {t} : pc'[u] = pc[u], lock' = lock
  PROVE  MutexOK'
<1>0. /\ Writers \subseteq Threads /\ Readers \subseteq Threads /\ Syncers \subseteq Threads
      /\ t \notin Writers /\ t \notin Readers
  BY LogAssumption DEF Threads
<1> QED BY <1>0 DEF LogTypeInv, MutexOK

LEMMA SyncType ==
  ASSUME LogTypeInv, NEW t \in Syncers, mqlog_sync(t)
  PROVE  LogTypeInv'
<1>0. phase = "open" /\ t \notin Readers /\ tree \in Seq([key : Nat, sgm : Nat \cup {NULL}])
  BY LogAssumption DEF mqlog_sync, At, LogTypeInv, TreeOK
<1>1. UNCHANGED <<files, disk, sgms, tree, lock, phase, fault, written, acked, synced>>
  BY DEF mqlog_sync, held, life
<1>2. PICK l : l = IF tree = <<>> THEN "idle" ELSE "segment_sync"
  OBVIOUS
<1>3. l \in Labels /\ l \in SyncerLabels /\ Goto(t, l)
  BY <1>2 DEF Labels, SyncerLabels, mqlog_sync
<1>4. Len(tree) \in Nat /\ (l = "segment_sync" => Len(tree) \in DOMAIN tree)
  <2>1. CASE tree = <<>>
    BY <1>2, <2>1
  <2>2. CASE tree # <<>>
    BY <2>2, LastType
  <2> QED BY <2>1, <2>2
<1>5. PICK v : v = [Idle(0) EXCEPT !.off = Len(tree)]
  OBVIOUS
<1>6. v \in Locals /\ v.off = Len(tree) /\ loc' = [loc EXCEPT ![t] = v]
  <2>1. loc' = [loc EXCEPT ![t] = v]
    BY <1>5 DEF mqlog_sync
  <2> QED BY <1>4, <1>5, <2>1, IdleType DEF Locals
<1>7. /\ TreeOK' /\ PhaseOK' /\ LocalsOK' /\ pc' \in [Threads -> Labels]
      /\ pc'[t] = l /\ \A u \in Threads \ {t} : pc'[u] = pc[u]
  BY <1>0, <1>1, <1>3, <1>4, <1>6, OtherMoves
<1>8. MutexOK'
  BY <1>1, <1>3, <1>7, SyncerMutex
<1>9. FilesOK' /\ SgmsOK' /\ HistoryOK'
  BY <1>1 DEF LogTypeInv, FilesOK, SgmsOK, HistoryOK
<1> QED BY <1>7, <1>8, <1>9 DEF LogTypeInv

LEMMA SegmentSyncType ==
  ASSUME LogTypeInv, NEW t \in Syncers, segment_sync(t)
  PROVE  LogTypeInv'
<1>0. /\ phase = "open" /\ pc[t] = "segment_sync" /\ t \notin Readers
      /\ loc[t].off \in DOMAIN tree
  BY LogAssumption DEF segment_sync, At, LogTypeInv, LocalsOK
<1>1. PICK b : b = tree[loc[t].off].sgm
  OBVIOUS
<1>2. CASE b = NULL
  BY <1>1, <1>2, CrashesType DEF segment_sync
<1>3. CASE b # NULL
  <2>1. /\ UNCHANGED <<files, tree, lock, phase, fault, written, acked>>
        /\ sgms' = [sgms EXCEPT ![b].s = sgms[b].w]
        /\ disk' = [disk EXCEPT ![b] = SegmentSynced(@, files[b], sgms[b])]
        /\ synced' = synced \cup SyncedIn(b)
        /\ loc' = [loc EXCEPT ![t] = Idle(0)] /\ Goto(t, "idle")
    BY <1>1, <1>3 DEF segment_sync, life
  <2>2. b \in DOMAIN sgms
    BY <1>0, <1>1, <1>3 DEF LogTypeInv, TreeOK
  <2>3. /\ b \in DOMAIN files /\ sgms[b] \in OpenSegment /\ IsFile(files[b]) /\ IsFile(disk[b])
    BY <2>2 DEF LogTypeInv, SgmsOK, FilesOK
  <2>4. [sgms[b] EXCEPT !.s = sgms[b].w] \in OpenSegment /\ [sgms[b] EXCEPT !.s = sgms[b].w].w = sgms[b].w
    BY <2>3 DEF OpenSegment, Pair
  <2>5. /\ DOMAIN sgms' = DOMAIN sgms
        /\ \A c \in DOMAIN sgms : sgms'[c] \in OpenSegment /\ sgms'[c].w = sgms[c].w
    BY <2>1, <2>2, <2>4 DEF LogTypeInv, SgmsOK
  <2>6. IsFile(SegmentSynced(disk[b], files[b], sgms[b]))
    BY <2>3, SegmentSyncedType
  <2>7. FilesOK'
    BY <2>1, <2>3, <2>6 DEF LogTypeInv, FilesOK
  <2>8. SgmsOK'
    BY <2>1, <2>5 DEF LogTypeInv, SgmsOK
  <2>9. HistoryOK'
    BY <2>1 DEF LogTypeInv, HistoryOK, SyncedIn
  <2>10. "idle" \in Labels /\ "idle" \in SyncerLabels /\ Idle(0) \in Locals
    BY IdleType DEF Labels, SyncerLabels
  <2>11. /\ TreeOK' /\ PhaseOK' /\ LocalsOK' /\ pc' \in [Threads -> Labels]
         /\ pc'[t] = "idle" /\ \A u \in Threads \ {t} : pc'[u] = pc[u]
    <3>1. /\ t \in Readers \cup Syncers /\ UNCHANGED <<files, tree, phase, fault, written, acked>>
          /\ DOMAIN sgms' = DOMAIN sgms /\ \A c \in DOMAIN sgms : sgms'[c].w = sgms[c].w
      BY <2>1, <2>5
    <3>2. Goto(t, "idle") /\ loc' = [loc EXCEPT ![t] = Idle(0)]
      BY <2>1
    <3> QED BY <1>0, <2>10, <3>1, <3>2, OtherMoves
  <2>12. MutexOK'
    BY <2>1, <2>10, <2>11, SyncerMutex
  <2> QED BY <2>7, <2>8, <2>9, <2>11, <2>12 DEF LogTypeInv
<1> QED BY <1>2, <1>3

-----------------------------------------------------------------------------
(* Stopping and starting. *)

LEMMA StopType ==
  ASSUME LogTypeInv, Stop, FilesOK', acked' \cup synced' \subseteq written
  PROVE  LogTypeInv'
<1>1. /\ phase' = "stopped" /\ DOMAIN sgms' = {} /\ tree' = <<>> /\ lock' = NoThread
      /\ pc' = [t \in Threads |-> "idle"] /\ loc' = [t \in Threads |-> Idle(0)]
      /\ fault' = fault /\ written' = written
  BY DEF Stop
<1>2. SgmsOK' /\ TreeOK' /\ PhaseOK' /\ HistoryOK'
  BY <1>1 DEF SgmsOK, TreeOK, PhaseOK, HistoryOK, LogTypeInv
<1>3. MutexOK'
  BY <1>1 DEF MutexOK, Threads, Labels, WriterLabels, ReaderLabels, SyncerLabels
<1>4. LocalsOK'
  <2>1. Idle(0) \in Locals
    BY IdleType
  <2>2. \A t \in Writers : WriterOK(t)'
    BY <1>1 DEF WriterOK, Threads
  <2> QED BY <1>1, <2>1, <2>2 DEF LocalsOK, Threads
<1> QED BY <1>2, <1>3, <1>4 DEF LogTypeInv

LEMMA CloseType ==
  ASSUME LogTypeInv, mqlog_close
  PROVE  LogTypeInv'
<1>1. /\ Stop /\ UNCHANGED <<files, acked>>
      /\ disk' = [b \in DOMAIN disk |->
                    IF b \in DOMAIN sgms THEN SegmentSynced(disk[b], files[b], sgms[b]) ELSE disk[b]]
      /\ synced' = synced \cup UNION {SyncedIn(b) : b \in DOMAIN sgms}
  BY DEF mqlog_close
<1>2. \A b \in DOMAIN sgms : IsFile(SegmentSynced(disk[b], files[b], sgms[b]))
  BY SegmentSyncedType DEF LogTypeInv, FilesOK, SgmsOK
<1>3. FilesOK'
  BY <1>1, <1>2 DEF LogTypeInv, FilesOK
<1>4. acked' \cup synced' \subseteq written
  BY <1>1 DEF LogTypeInv, HistoryOK, SyncedIn
<1> QED BY <1>1, <1>3, <1>4, StopType

LEMMA CrashType ==
  ASSUME LogTypeInv, Crash
  PROVE  LogTypeInv'
<1>1. Stop /\ UNCHANGED <<files, disk, acked, synced>>
  BY DEF Crash
<1>2. FilesOK' /\ acked' \cup synced' \subseteq written
  BY <1>1 DEF LogTypeInv, FilesOK, HistoryOK
<1> QED BY <1>1, <1>2, StopType

LEMMA MachineCrashType ==
  ASSUME LogTypeInv, MachineCrash
  PROVE  LogTypeInv'
<1>1. PICK gone, whole :
        files' = [b \in DOMAIN files \ gone |-> IF b \in whole THEN files[b] ELSE disk[b]]
  BY DEF MachineCrash
<1>2. Stop /\ disk' = files' /\ acked' = {} /\ synced' = synced
  BY DEF MachineCrash
<1>3. FilesOK'
  <2>1. IsFiniteSet(DOMAIN files \ gone)
    BY FS_Difference DEF LogTypeInv, FilesOK
  <2> QED BY <1>1, <1>2, <2>1 DEF LogTypeInv, FilesOK
<1>4. acked' \cup synced' \subseteq written
  BY <1>2 DEF LogTypeInv, HistoryOK
<1> QED BY <1>2, <1>3, <1>4, StopType

LEMMA OpenType ==
  ASSUME LogTypeInv, NEW ord \in SetToSeqs(DOMAIN files), mqlog_open(ord)
  PROVE  LogTypeInv'
<1>0. /\ UNCHANGED <<files, disk, lock, pc, loc, fault, written, acked, synced>>
      /\ phase \in {"stopped", "failed"}
  BY DEF mqlog_open
<1>1. /\ \A t \in Threads : pc[t] = "idle"
      /\ Writers \subseteq Threads /\ Readers \subseteq Threads /\ Syncers \subseteq Threads
  BY <1>0 DEF LogTypeInv, PhaseOK, Threads
<1>2. FilesOK' /\ MutexOK' /\ HistoryOK'
  BY <1>0 DEF LogTypeInv, FilesOK, MutexOK, HistoryOK
<1>3. LocalsOK'
  <2>1. \A t \in Writers : WriterOK(t)'
    BY <1>0, <1>1 DEF WriterOK
  <2> QED BY <1>0, <1>1, <2>1 DEF LogTypeInv, LocalsOK
<1>4. CASE phase' = "failed" /\ UNCHANGED <<tree, sgms>>
  BY <1>0, <1>2, <1>3, <1>4 DEF LogTypeInv, SgmsOK, TreeOK, PhaseOK
<1>5. CASE /\ phase' = "open"
           /\ tree' = [i \in DOMAIN ord |-> [key |-> ord[i], sgm |-> ord[i]]]
           /\ sgms' = [b \in DOMAIN files |->
                         Opened(find_w_offset_pair(files[b].buffer, files[b].index, Size).pair)]
  <2> DEFINE T == [key : Nat, sgm : Nat \cup {NULL}]
  <2>1. \A b \in DOMAIN files :
          Opened(find_w_offset_pair(files[b].buffer, files[b].index, Size).pair) \in OpenSegment
    BY FoundType DEF LogTypeInv, FilesOK
  <2>2. SgmsOK' /\ DOMAIN sgms' = DOMAIN files
    BY <1>0, <1>5, <2>1 DEF SgmsOK
  <2>3. ord \in [1 .. Cardinality(DOMAIN files) -> DOMAIN files]
    BY DEF SetToSeqs
  <2>4. DOMAIN files \subseteq Nat
    BY DEF LogTypeInv, FilesOK
  <2>5. \A i \in DOMAIN ord : [key |-> ord[i], sgm |-> ord[i]] \in T
    BY <2>3, <2>4
  <2>6. tree' \in Seq(T)
    <3>1. PICK n : n = Cardinality(DOMAIN files)
      OBVIOUS
    <3>2. DOMAIN ord = 1 .. n
      BY <2>3, <3>1
    <3>3. n \in Nat
      BY <3>1, FS_CardinalityType DEF LogTypeInv, FilesOK
    <3> HIDE DEF T
    <3> QED BY <1>5, <2>5, <3>2, <3>3
  <2>7. DOMAIN tree' = DOMAIN ord /\ \A i \in DOMAIN ord : tree'[i].key = ord[i] /\ tree'[i].sgm = ord[i]
    BY <1>5
  <2>8. \A i \in DOMAIN tree' : tree'[i].sgm = tree'[i].key /\ tree'[i].key \in DOMAIN sgms'
    BY <2>2, <2>3, <2>7
  <2>9. TreeOK'
    BY <2>6, <2>8 DEF TreeOK
  <2>10. PhaseOK'
    BY <1>0, <1>5 DEF LogTypeInv, PhaseOK
  <2> QED BY <1>2, <1>3, <2>2, <2>9, <2>10 DEF LogTypeInv
<1> QED BY <1>4, <1>5 DEF mqlog_open

-----------------------------------------------------------------------------
(* The theorems. *)

LEMMA InitType == Init => LogTypeInv
<1> SUFFICES ASSUME Init PROVE LogTypeInv
  OBVIOUS
<1>1. Idle(0) \in Locals
  BY IdleType
<1>2. FilesOK /\ SgmsOK /\ TreeOK /\ HistoryOK /\ PhaseOK
  <2>1. /\ DOMAIN files = {} /\ DOMAIN disk = {} /\ DOMAIN sgms = {} /\ tree = <<>>
        /\ written = {} /\ acked = {} /\ synced = {} /\ phase = "open" /\ fault = FALSE
    BY DEF Init
  <2>2. FilesOK /\ SgmsOK /\ HistoryOK
    BY <2>1, FS_EmptySet DEF FilesOK, SgmsOK, HistoryOK
  <2>3. TreeOK
    BY <2>1 DEF TreeOK
  <2>4. PhaseOK
    BY <2>1 DEF PhaseOK
  <2> QED BY <2>2, <2>3, <2>4
<1>3. MutexOK
  BY DEF Init, MutexOK, Threads, Labels, WriterLabels, ReaderLabels, SyncerLabels
<1>4. LocalsOK
  BY <1>1 DEF Init, LocalsOK, WriterOK, Threads
<1> QED BY <1>2, <1>3, <1>4 DEF LogTypeInv

LEMMA NextLogType ==
  ASSUME LogTypeInv, [Next]_vars
  PROVE  LogTypeInv'
<1>1. CASE UNCHANGED vars
  <2>1. /\ UNCHANGED <<files, disk, sgms, tree, lock, pc, loc>>
        /\ UNCHANGED <<phase, fault, written, acked, synced>>
    BY <1>1 DEF vars, held, life
  <2>2. \A t : WriterOK(t)' = WriterOK(t)
    BY <2>1 DEF WriterOK, NextBase
  <2> QED BY <2>1, <2>2 DEF LogTypeInv, FilesOK, SgmsOK, TreeOK, MutexOK, PhaseOK, LocalsOK, HistoryOK
<1>2. ASSUME NEW t \in Writers, WriterStep(t) PROVE LogTypeInv'
  BY <1>2, LastValueType, CreateType, SegmentOpenType, SegmentWriteStepType,
     AppendRefusedType, AppendType, StoreValueType, UnlockType DEF WriterStep
<1>3. ASSUME NEW t \in Writers, NEW p \in Payloads, mqlog_write(t, p) PROVE LogTypeInv'
  BY <1>3, WriteType
<1>4. ASSUME NEW t \in Readers, ReaderStep(t) PROVE LogTypeInv'
  BY <1>4, LeafFloorType, SegmentReadStepType DEF ReaderStep
<1>5. ASSUME NEW t \in Readers, NEW off \in 0 .. MaxWrites, mqlog_read(t, off) PROVE LogTypeInv'
  BY <1>5, ReadType
<1>6. ASSUME NEW t \in Syncers, mqlog_sync(t) \/ segment_sync(t) PROVE LogTypeInv'
  BY <1>6, SyncType, SegmentSyncType
<1>7. ASSUME mqlog_close \/ Crash \/ MachineCrash PROVE LogTypeInv'
  BY <1>7, CloseType, CrashType, MachineCrashType
<1>8. ASSUME NEW ord \in SetToSeqs(DOMAIN files), mqlog_open(ord) PROVE LogTypeInv'
  BY <1>8, OpenType
<1> QED BY <1>1, <1>2, <1>3, <1>4, <1>5, <1>6, <1>7, <1>8 DEF Next

LEMMA LogTypeInvariant == Spec => []LogTypeInv
<1>1. LogTypeInv /\ [Next]_vars => LogTypeInv'
  BY NextLogType
<1> QED BY <1>1, InitType, PTL DEF Spec

(* Every variable of the log keeps its type, for any number of threads,    *)
(* payloads and sizes, through any number of closes, deaths, crashes of    *)
(* the machine and reopenings; every segment of the tree is open and its   *)
(* files exist, and its value is missing only while mbptree_append runs.   *)
THEOREM LogTypeCorrect == Spec => []TypeOK
<1>1. LogTypeInv => TypeOK
  <2> SUFFICES ASSUME LogTypeInv PROVE TypeOK
    OBVIOUS
  <2>1. \A b \in DOMAIN files : /\ files[b].sized \in BOOLEAN
                                /\ IsBuffer(files[b].buffer)
                                /\ files[b].index \in [Entry -> Nat]
    BY DEF LogTypeInv, FilesOK, IsFile
  <2>2. \A b \in DOMAIN sgms : sgms[b].w \in Pair /\ sgms[b].s \in Pair
    BY DEF LogTypeInv, SgmsOK, OpenSegment
  <2>3. ASSUME NEW i \in DOMAIN tree
        PROVE  /\ tree[i].key \in Nat
               /\ tree[i].sgm \in {NULL} \cup DOMAIN sgms
               /\ tree[i].sgm = NULL => \E t \in Writers : pc[t] = "store_value"
    <3> DEFINE T == [key : Nat, sgm : Nat \cup {NULL}]
    <3>1. tree \in Seq(T)
      BY DEF LogTypeInv, TreeOK
    <3>2. tree[i] \in T
      <4> HIDE DEF T
      <4> QED BY <3>1
    <3>3. tree[i].key \in Nat
      BY <3>2
    <3>4. NULL \notin Nat
      BY DEF NULL
    <3> QED BY <3>3, <3>4 DEF LogTypeInv, TreeOK
  <2>4. lock \in Threads \cup {NoThread} /\ pc \in [Threads -> Labels]
    BY DEF LogTypeInv, MutexOK, Threads
  <2> QED BY <2>1, <2>2, <2>3, <2>4 DEF TypeOK, LogTypeInv, FilesOK, SgmsOK, PhaseOK, HistoryOK
<1> QED BY <1>1, LogTypeInvariant, PTL

(* Until a producer gives the mutex back, the segment that mqlog_trywrite  *)
(* has picked is still the last of the index and is open, and a segment it *)
(* adds begins where that one ends, whatever the other threads do and      *)
(* whichever call has failed before.                                       *)
THEOREM PickStaysLast == Spec => []PickedIsLast
<1>1. LogTypeInv => PickedIsLast
  <2> SUFFICES ASSUME LogTypeInv, NEW t \in Writers
               PROVE  /\ At(t, "segment_write") /\ ~ loc[t].fresh =>
                           loc[t].sgm \in DOMAIN sgms /\ loc[t].sgm = Last(tree).sgm
                      /\ pc[t] \in {"create_segment", "segment_open", "mbptree_append"} =>
                           /\ loc[t].sgm = NextBase
                           /\ tree # <<>> => Last(tree).key \in DOMAIN sgms
    BY DEF PickedIsLast, NextBase
  <2>1. WriterOK(t)
    BY DEF LogTypeInv, LocalsOK
  <2>2. ASSUME pc[t] = "segment_write", ~ loc[t].fresh
        PROVE  loc[t].sgm \in DOMAIN sgms /\ loc[t].sgm = Last(tree).sgm
    <3>1. \A i \in DOMAIN tree : tree[i].sgm = tree[i].key /\ tree[i].key \in DOMAIN sgms
      BY <2>2, InMutex, TreeFull
    <3> QED BY <2>1, <2>2, <3>1, LastType DEF WriterOK
  <2>3. ASSUME pc[t] \in {"create_segment", "segment_open", "mbptree_append"}, tree # <<>>
        PROVE  Last(tree).key \in DOMAIN sgms
    <3>1. \A i \in DOMAIN tree : tree[i].sgm = tree[i].key /\ tree[i].key \in DOMAIN sgms
      BY <2>3, InMutex, TreeFull
    <3> QED BY <2>3, <3>1, LastType
  <2> QED BY <2>1, <2>2, <2>3 DEF WriterOK, At
<1> QED BY <1>1, LogTypeInvariant, PTL

(* No thread returns from mqlog_write or mqlog_read with the mutex locked, *)
(* except from mqlog_read when mbptree_leaf_floor fails.                   *)
THEOREM MutexGivenBack == Spec => LockReleased
<1> DEFINE Released == \A t \in Threads : pc[t] # "idle" /\ pc'[t] = "idle" =>
                         lock' # t \/ (t \in Readers /\ loc'[t].rc = ELALLC)
<1>1. ASSUME LogTypeInv, [Next]_vars PROVE [Released]_vars
  <2>0. /\ pc \in [Threads -> Labels] /\ NoThread \notin Threads
        /\ Writers \subseteq Threads /\ Readers \subseteq Threads /\ Syncers \subseteq Threads
        /\ Readers \cap Syncers = {} /\ Writers \cap Syncers = {} /\ Writers \cap Readers = {}
    BY <1>1, LogAssumption DEF LogTypeInv, MutexOK, Threads
  <2>1. CASE UNCHANGED vars
    BY <2>1
  <2>2. ASSUME NEW t \in Writers, WriterStep(t) PROVE Released
    <3>1. CASE WriteUnlock(t)
      BY <2>0, <3>1 DEF WriteUnlock
    <3>2. CASE Crashes
      BY <3>2 DEF Crashes
    <3>3. CASE \E l \in Labels \ {"idle"} : Goto(t, l)
      BY <2>0, <3>3 DEF Goto
    <3>4. {"unlock", "create_segment", "segment_open", "segment_write", "mbptree_append",
           "store_value"} \subseteq Labels \ {"idle"}
      BY DEF Labels
    <3>5. WriteUnlock(t) \/ Crashes \/ \E l \in Labels \ {"idle"} : Goto(t, l)
      BY <2>2, <3>4 DEF WriterStep, LastValue, create_segment, segment_open, segment_write,
                        AppendRefused, mbptree_append, StoreValue, TryWriteReturns
    <3> QED BY <3>1, <3>2, <3>3, <3>5
  <2>3. ASSUME NEW t \in Writers, NEW p \in Payloads, mqlog_write(t, p) PROVE Released
    BY <2>0, <2>3 DEF mqlog_write, Goto
  <2>4. ASSUME NEW t \in Readers, leaf_floor(t) PROVE Released
    <3>1. loc \in [Threads -> Locals]
      BY <1>1 DEF LogTypeInv, LocalsOK
    <3>2. CASE lock' = NoThread
      BY <2>0, <3>2
    <3>3. CASE ReadReturns(t, ELALLC, NoPayload)
      <4>1. loc'[t].rc = ELALLC
        BY <2>0, <3>1, <3>3 DEF ReadReturns, Idle
      <4> QED BY <2>0, <3>3, <4>1 DEF ReadReturns, Goto
    <3> QED BY <2>4, <3>2, <3>3 DEF leaf_floor, NothingFound
  <2>5. ASSUME NEW t \in Readers, segment_read(t) PROVE Released
    <3>1. pc[t] = "segment_read" /\ lock' = lock /\ Goto(t, "idle")
      BY <2>5 DEF segment_read, At, ReadReturns
    <3>2. lock # t
      BY <1>1, <3>1 DEF LogTypeInv, MutexOK
    <3> QED BY <2>0, <3>1, <3>2 DEF Goto
  <2>6. ASSUME NEW t \in Readers, NEW off \in 0 .. MaxWrites, mqlog_read(t, off) PROVE Released
    BY <2>0, <2>6 DEF mqlog_read, Goto
  <2>7. ASSUME NEW t \in Syncers, mqlog_sync(t) \/ segment_sync(t) PROVE Released
    <3>1. lock' = lock /\ lock # t
      BY <1>1, <2>0, <2>7 DEF mqlog_sync, segment_sync, Crashes, LogTypeInv, MutexOK
    <3>2. \A u \in Threads \ {t} : pc'[u] = pc[u]
      BY <2>0, <2>7 DEF mqlog_sync, segment_sync, Crashes, Goto
    <3> QED BY <3>1, <3>2
  <2>8. ASSUME mqlog_close \/ Crash \/ MachineCrash PROVE Released
    BY <2>0, <2>8 DEF mqlog_close, Crash, MachineCrash, Stop
  <2>9. ASSUME NEW ord \in SetToSeqs(DOMAIN files), mqlog_open(ord) PROVE Released
    BY <2>9 DEF mqlog_open
  <2> HIDE DEF Released
  <2> QED BY <1>1, <2>1, <2>2, <2>3, <2>4, <2>5, <2>6, <2>7, <2>8, <2>9 DEF Next, ReaderStep
<1> QED BY <1>1, LogTypeInvariant, PTL DEF Spec, LockReleased
=============================================================================
