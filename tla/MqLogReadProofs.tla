--------------------------- MODULE MqLogReadProofs ---------------------------
(***************************************************************************)
(* ReadsWritten, SegmentsAbut, AckedReadable and SyncedReadable of MqLog,  *)
(* and why mqlog_open fails (OpenFailsOnlyIf): for any number of threads   *)
(* and writes, and through any number of closes, deaths of the process,    *)
(* crashes of the machine and reopenings.                                  *)
(*                                                                         *)
(* StoreInv relates three views of a segment: its files, the pair in       *)
(* memory, and the history of what was written.  It is what lets           *)
(* find_w_offset_pair find, in the files alone, the pair that was lost.    *)
(* OnDisk relates the files to the disk: what was synced is there, with    *)
(* all that lies before it.  Both hold until a crash of the machine leaves *)
(* a segment torn; AfterTear then says what remains of its order, and      *)
(* holds until the log is stopped again.                                   *)
(***************************************************************************)
EXTENDS MqLogProofs

(* Entry i of the file's index leads to a frame of p. *)
Present(f, i, p) ==
  /\ i \in Entry
  /\ i # 0 => f.index[i] # 0
  /\ HeaderAt(f.buffer, f.index[i]) = [flags |-> "READY", size |-> FrameSize(p), payload |-> p]

(* The segment at b holds n frames, which end at x, and each of them was   *)
(* written at its offset.                                                  *)
Chain(b, f, n, x, hist) ==
  /\ n <= MappedEntries(Size)
  /\ \A i \in Entry : i >= n => f.index[i] = 0
  /\ \A i \in Entry : i < n =>
       \E p \in Payloads : /\ Present(f, i, p)
                           /\ <<b + i, p>> \in hist
                           /\ f.index[i] + FrameSize(p) <= x
  /\ IF n = 0 THEN x = 0 /\ HeaderAt(f.buffer, 0) \in {ZeroHeader, EosHeader}
     ELSE /\ f.index[0] = 0
          /\ x = f.index[n - 1] + HeaderAt(f.buffer, f.index[n - 1]).size

(* The pair in memory of a segment that may take more frames; of one that  *)
(* was ended since it was opened; and of one that was ended before it had  *)
(* a frame, and opened after that: the EOS header at offset 0 then counts  *)
(* as a frame.                                                             *)
Growing(b, f, w, hist) == Chain(b, f, w.index, w.data, hist)

Sealed(b, f, w, hist) ==
  /\ w.data >= HeaderSize
  /\ Chain(b, f, w.index, w.data - HeaderSize, hist)
  /\ HeaderAt(f.buffer, w.data - HeaderSize) = EosHeader

Barren(b, f, w, hist) ==
  /\ w = [index |-> 1, data |-> HeaderSize]
  /\ Chain(b, f, 0, 0, hist)
  /\ HeaderAt(f.buffer, 0) = EosHeader

Holds(b, f, w, hist) == Growing(b, f, w, hist) \/ Sealed(b, f, w, hist) \/ Barren(b, f, w, hist)

(* The segment at b, written up to w, ends where the next one begins. *)
Ends(b, w) ==
  \A c \in DOMAIN files : c > b =>
    /\ c >= b + w.index
    /\ ~ crashed => w.index >= 1 /\ b + w.index \in DOMAIN files

LaidOut ==
  \A b \in DOMAIN files :
    \E w \in Pair : /\ Holds(b, files[b], w, written)
                    /\ Ends(b, w)
                    /\ b \in DOMAIN sgms => w = sgms[b].w

LastSealed == tree # <<>> => EosAt(files[Last(tree).key], sgms[Last(tree).key].w)

(* The tree has the open segments in order, and all the files but those of *)
(* a segment that is being added or that could not be.                     *)
Indexed ==
  phase = "open" =>
    /\ \A b \in DOMAIN sgms : \E i \in DOMAIN tree : tree[i].key = b
    /\ \A i \in DOMAIN tree : tree[i].key \in DOMAIN files
    /\ \A i, j \in DOMAIN tree : i < j => tree[i].key < tree[j].key
    /\ \A c \in DOMAIN files :
         \/ \E i \in DOMAIN tree : tree[i].key = c
         \/ c = NextBase /\ LastSealed /\ \A i \in DOMAIN tree : tree[i].sgm # NULL

(* A producer that adds a segment: the one before it has ended, and the    *)
(* segment_t it has made agrees with the files.                            *)
Adding(t) ==
  /\ pc[t] \in {"create_segment", "segment_open", "segment_write", "mbptree_append"} /\ loc[t].fresh =>
       LastSealed
  /\ pc[t] \in {"segment_write", "mbptree_append", "store_value"} /\ loc[t].fresh =>
       Holds(loc[t].sgm, files[loc[t].sgm], loc[t].new.w, written)
  /\ pc[t] = "segment_write" /\ loc[t].fresh /\ loc[t].sgm \in DOMAIN sgms =>
       EosAt(files[loc[t].sgm], loc[t].new.w)
  /\ pc[t] = "store_value" => loc[t].fresh
  /\ pc[t] \in {"mbptree_append", "store_value"} => loc[t].sgm \notin DOMAIN sgms
  /\ pc[t] \in {"mbptree_append", "store_value"} /\ loc[t].rc > 0 =>
       /\ loc[t].off >= loc[t].sgm
       /\ Present(files[loc[t].sgm], loc[t].off - loc[t].sgm, loc[t].buf)
  /\ pc[t] = "unlock" /\ loc[t].rc > 0 =>
       \E b \in DOMAIN sgms : b <= loc[t].off /\ Present(files[b], loc[t].off - b, loc[t].buf)

AckedKept ==
  \A a \in acked :
    \E b \in DOMAIN files : /\ b <= a[1] /\ Present(files[b], a[1] - b, a[2])
                            /\ phase = "open" => b \in DOMAIN sgms

ReadsBack ==
  \A t \in Readers : pc[t] = "idle" /\ loc[t].rc > 0 => <<loc[t].off, loc[t].buf>> \in written

StoreInv == LaidOut /\ Indexed /\ (\A t \in Writers : Adding(t)) /\ AckedKept /\ ReadsBack

-----------------------------------------------------------------------------
(* What a segment's files hold. *)

USE DEF HeaderSize, EntrySize

LEMMA ChainFacts ==
  ASSUME NEW b \in Nat, NEW f, IsFile(f), NEW n \in Nat, NEW x \in Nat, NEW hist, Chain(b, f, n, x, hist)
  PROVE  /\ \A i \in Entry : i < n => f.index[i] \in Nat /\ f.index[i] + 12 <= x
         /\ \A i \in Entry : \A p : Present(f, i, p) => i < n
         /\ n > 0 => /\ HeaderAt(f.buffer, 0).flags = "READY"
                     /\ x >= 12
         /\ n = 0 => x = 0
<1>0. f.index \in [Entry -> Nat]
  BY DEF IsFile
<1>1. ASSUME NEW i \in Entry, i < n PROVE f.index[i] \in Nat /\ f.index[i] + 12 <= x
  <2>1. PICK p \in Payloads : f.index[i] + FrameSize(p) <= x
    BY <1>1 DEF Chain
  <2> QED BY <1>0, <2>1, SizeOfType
<1>2. ASSUME NEW i \in Entry, NEW p, Present(f, i, p), i >= n PROVE FALSE
  <2>1. f.index[i] = 0
    BY <1>2 DEF Chain
  <2>2. i = 0 /\ n = 0
    BY <1>2, <2>1, Entries DEF Present
  <2>3. HeaderAt(f.buffer, 0) \in {ZeroHeader, EosHeader}
    BY <2>2 DEF Chain
  <2>4. HeaderAt(f.buffer, 0).flags = "READY"
    BY <1>2, <2>1, <2>2 DEF Present
  <2> QED BY <2>3, <2>4 DEF ZeroHeader, EosHeader
<1>3. ASSUME n > 0 PROVE HeaderAt(f.buffer, 0).flags = "READY" /\ x >= 12
  <2>1. 0 \in Entry /\ n - 1 \in Entry
    BY <1>3, Entries DEF Chain
  <2>2. PICK p \in Payloads : Present(f, 0, p)
    BY <1>3, <2>1 DEF Chain
  <2>3. f.index[0] = 0
    BY <1>3 DEF Chain
  <2> QED BY <1>1, <1>3, <2>1, <2>2, <2>3 DEF Present
<1>4. n = 0 => x = 0
  BY DEF Chain
<1>5. \A i \in Entry : i \in Nat
  BY Entries
<1> QED BY <1>1, <1>2, <1>3, <1>4, <1>5

LEMMA HistoryGrows ==
  ASSUME NEW b, NEW f, NEW w, NEW hist, NEW hist2, hist \subseteq hist2, Holds(b, f, w, hist)
  PROVE  Holds(b, f, w, hist2)
<1>1. \A n, x : Chain(b, f, n, x, hist) => Chain(b, f, n, x, hist2)
  BY DEF Chain
<1> QED BY <1>1 DEF Holds, Growing, Sealed, Barren

(* Only the bytes matter. *)
LEMMA SameBytes ==
  ASSUME NEW b, NEW f, NEW g, g.buffer = f.buffer, g.index = f.index, NEW w, NEW hist
  PROVE  /\ Holds(b, f, w, hist) => Holds(b, g, w, hist)
         /\ \A i, p : Present(f, i, p) => Present(g, i, p)
         /\ EosAt(f, w) => EosAt(g, w)
<1>1. \A i, p : Present(f, i, p) <=> Present(g, i, p)
  BY DEF Present
<1>2. \A n, x : Chain(b, f, n, x, hist) => Chain(b, g, n, x, hist)
  BY <1>1 DEF Chain
<1> QED BY <1>1, <1>2 DEF Holds, Growing, Sealed, Barren, EosAt

(* The frames behind each of the three kinds of pair. *)
LEMMA HoldsChain ==
  ASSUME NEW b, NEW f, NEW w \in Pair, NEW hist, Holds(b, f, w, hist)
  PROVE  \E n \in Nat, x \in Nat :
           /\ Chain(b, f, n, x, hist) /\ n <= w.index /\ x <= w.data
           /\ \/ w.index = n /\ (w.data = x \/ (w.data = x + 12 /\ HeaderAt(f.buffer, x) = EosHeader))
              \/ w.index = 1 /\ n = 0 /\ HeaderAt(f.buffer, 0) = EosHeader
<1>0. w.index \in Nat /\ w.data \in Nat
  BY DEF Pair
<1>1. CASE Growing(b, f, w, hist)
  BY <1>0, <1>1 DEF Growing
<1>2. CASE Sealed(b, f, w, hist)
  <2>1. PICK x : x = w.data - 12
    OBVIOUS
  <2>2. x \in Nat /\ w.data = x + 12 /\ HeaderAt(f.buffer, x) = EosHeader
    BY <1>0, <1>2, <2>1 DEF Sealed
  <2>3. Chain(b, f, w.index, x, hist)
    BY <1>2, <2>1 DEF Sealed
  <2> QED BY <1>0, <2>2, <2>3
<1>3. CASE Barren(b, f, w, hist)
  BY <1>0, <1>3 DEF Barren
<1> QED BY <1>1, <1>2, <1>3 DEF Holds

(* The frames of a segment lie below the write offset. *)
LEMMA HoldsFacts ==
  ASSUME NEW b \in Nat, NEW f, IsFile(f), NEW w \in Pair, NEW hist, Holds(b, f, w, hist),
         NEW i \in Entry, NEW p, Present(f, i, p)
  PROVE  /\ i < w.index /\ f.index[i] \in Nat /\ f.index[i] < w.data
         /\ <<b + i, p>> \in hist /\ p \in Payloads
<1>0. w.index \in Nat /\ w.data \in Nat
  BY DEF Pair
<1>1. PICK n \in Nat, x \in Nat : Chain(b, f, n, x, hist) /\ n <= w.index /\ x <= w.data
  BY HoldsChain
<1>2. i < n /\ f.index[i] \in Nat /\ f.index[i] + 12 <= x /\ i \in Nat
  BY <1>1, ChainFacts, Entries
<1>3. PICK q \in Payloads : Present(f, i, q) /\ <<b + i, q>> \in hist
  BY <1>1, <1>2 DEF Chain
<1>4. p = q
  BY <1>3 DEF Present
<1> QED BY <1>0, <1>1, <1>2, <1>3, <1>4

(* segment_open finds, in the files alone, a pair that agrees with them,   *)
(* and the number of frames of a segment that is not empty.                *)
LEMMA Recovered ==
  ASSUME NEW b \in Nat, NEW f, IsFile(f), NEW w \in Pair, NEW hist, Holds(b, f, w, hist),
         NEW found, found = find_w_offset_pair(f.buffer, f.index, Size), found.rc = 0
  PROVE  /\ found.pair \in Pair /\ Holds(b, f, found.pair, hist)
         /\ w.index >= 1 => found.pair.index = w.index
         /\ w.index = 0 => found.pair.index <= 1
         /\ w.index = 0 /\ EosAt(f, w) => EosAt(f, found.pair)
<1>0. w.index \in Nat /\ w.data \in Nat
  BY DEF Pair
<1>1. PICK n \in Nat, x \in Nat :
        /\ Chain(b, f, n, x, hist)
        /\ \/ w.index = n /\ (w.data = x \/ (w.data = x + 12 /\ HeaderAt(f.buffer, x) = EosHeader))
           \/ w.index = 1 /\ n = 0 /\ HeaderAt(f.buffer, 0) = EosHeader
  BY HoldsChain
<1>F. PICK free : free = FreeEntries(f.buffer, f.index, Size)
  OBVIOUS
<1>2. free # {}
  <2> SUFFICES ASSUME free = {} PROVE FALSE
    OBVIOUS
  <2>1. found = [rc |-> ELWOFFS, pair |-> [index |-> 0, data |-> 0]]
    BY <1>F, FirstFree
  <2> QED BY <2>1 DEF ELWOFFS
<1>I. PICK i : i = found.pair.index
  OBVIOUS
<1>3. /\ i \in free /\ \A m \in free : i <= m
      /\ found.pair = [index |-> i, data |-> found.pair.data]
      /\ i = 0 => found.pair.data = 0
      /\ i # 0 => found.pair.data = f.index[i - 1] + HeaderAt(f.buffer, f.index[i - 1]).size
  BY <1>F, <1>2, <1>I, FirstFree
<1>4. /\ i \in Nat /\ i < max_index_entries(Size) /\ i \in Entry /\ f.index[i] = 0
      /\ \A m \in Nat : m <= i => m \in Entry
  BY <1>F, <1>3, Entries DEF FreeEntries
<1>5. \A m \in Nat : m < i => m \notin free
  BY <1>3, <1>4
<1>6. CASE n > 0
  <2>1. HeaderAt(f.buffer, 0).flags = "READY"
    BY <1>1, <1>6, ChainFacts
  <2>2. i # 0
    BY <1>F, <1>3, <2>1 DEF FreeEntries, prot_is_header
  <2>3. i >= n
    <3> SUFFICES ASSUME i < n PROVE FALSE
      BY <1>4
    <3>1. PICK p \in Payloads : Present(f, i, p)
      BY <1>1, <1>4 DEF Chain
    <3> QED BY <1>4, <2>2, <3>1 DEF Present
  <2>4. i <= n
    <3> SUFFICES ASSUME n < i PROVE FALSE
      BY <1>4
    <3>1. n \in Entry /\ f.index[n] = 0
      BY <1>1, <1>4 DEF Chain
    <3>2. n \in free
      BY <1>F, <1>4, <1>6, <3>1, Entries DEF FreeEntries
    <3> QED BY <1>5, <3>2
  <2>5. i = n
    BY <1>4, <2>3, <2>4
  <2>6. found.pair = [index |-> n, data |-> x]
    BY <1>1, <1>3, <1>6, <2>5 DEF Chain
  <2> QED BY <1>1, <1>6, <2>6 DEF Holds, Growing, Pair
<1>7. CASE n = 0 /\ HeaderAt(f.buffer, 0) # EosHeader
  <2>1. HeaderAt(f.buffer, 0) = ZeroHeader /\ x = 0
    BY <1>1, <1>7 DEF Chain
  <2>2. 0 \in free
    <3>1. 0 \in Entry /\ f.index[0] = 0
      BY <1>1, <1>4, <1>7 DEF Chain
    <3> QED BY <1>F, <1>4, <2>1, <3>1, Entries DEF FreeEntries, prot_is_header, ZeroHeader
  <2>3. i = 0
    BY <1>4, <1>5, <2>2
  <2>4. found.pair = [index |-> n, data |-> x]
    BY <1>3, <1>7, <2>1, <2>3
  <2>5. ~ EosAt(f, w)
    <3>1. w.data = 0
      BY <1>1, <1>7, <2>1
    <3> QED BY <3>1 DEF EosAt
  <2>6. w.index = 0
    BY <1>1, <1>7
  <2> QED BY <1>1, <2>4, <2>5, <2>6 DEF Holds, Growing, Pair
<1>8. CASE n = 0 /\ HeaderAt(f.buffer, 0) = EosHeader
  <2>1. i # 0
    BY <1>F, <1>3, <1>8 DEF FreeEntries, prot_is_header, EosHeader
  <2>2. i = 1
    <3> SUFFICES ASSUME 1 < i PROVE FALSE
      BY <1>4, <2>1
    <3>1. 1 \in Entry /\ f.index[1] = 0
      BY <1>1, <1>4, <1>8 DEF Chain
    <3>2. 1 \in free
      BY <1>F, <1>4, <3>1, Entries DEF FreeEntries
    <3> QED BY <1>5, <3>2
  <2>3. 0 \in Entry /\ f.index[0] = 0
    BY <1>1, <1>4, <1>8 DEF Chain
  <2>4. found.pair = [index |-> 1, data |-> 12]
    BY <1>3, <1>8, <2>2, <2>3 DEF EosHeader
  <2>5. Chain(b, f, 0, 0, hist)
    BY <1>1, <1>8 DEF Chain
  <2>6. Barren(b, f, found.pair, hist)
    BY <1>8, <2>4, <2>5 DEF Barren
  <2>7. EosAt(f, found.pair)
    BY <1>8, <2>4 DEF EosAt, EosHeader
  <2> QED BY <1>0, <1>1, <1>8, <2>4, <2>6, <2>7 DEF Holds, Pair
<1> QED BY <1>6, <1>7, <1>8

(* A segment that has ended takes no more frames. *)
LEMMA EndedStays ==
  ASSUME NEW f, NEW w, NEW p, EosAt(f, w)
  PROVE  SegmentWrite(f, w, p) = [file |-> f, w |-> w, rc |-> ELEOS]
BY DEF SegmentWrite

LEMMA NotEnded ==
  ASSUME NEW b, NEW f, NEW w, NEW hist, Holds(b, f, w, hist), ~ EosAt(f, w)
  PROVE  Growing(b, f, w, hist)
BY DEF Holds, Sealed, Barren, EosAt, EosHeader

(* Ending a segment: its frames stay, and the pair is that of a sealed one. *)
LEMMA EndSegment ==
  ASSUME NEW b \in Nat, NEW f, IsFile(f), NEW w \in Pair, NEW hist, Holds(b, f, w, hist),
         ~ EosAt(f, w), NEW p \in Payloads, ~ HasRoom(Size, w.data, p),
         NEW res, res = SegmentWrite(f, w, p)
  PROVE  /\ res.rc = ELEOS /\ Holds(b, res.file, res.w, hist) /\ EosAt(res.file, res.w)
         /\ \A i \in Entry : \A q : Present(f, i, q) => Present(res.file, i, q)
<1>0. /\ w.index \in Nat /\ w.data \in Nat /\ w = [index |-> w.index, data |-> w.data]
      /\ f.index \in [Entry -> Nat] /\ IsBuffer(f.buffer)
      /\ f = [sized |-> f.sized, buffer |-> f.buffer, index |-> f.index]
  BY DEF Pair, IsFile
<1>1. PICK n, x : n = w.index /\ x = w.data
  OBVIOUS
<1>2. Chain(b, f, n, x, hist) /\ n \in Nat /\ x \in Nat
  BY <1>0, <1>1, NotEnded DEF Growing
<1>3. PICK g : g = res.file
  OBVIOUS
<1>4. /\ g = [sized |-> f.sized, buffer |-> StoreHeader(f.buffer, x, EosHeader), index |-> f.index]
      /\ res.w = [index |-> n, data |-> x + 12] /\ res.rc = ELEOS
  BY <1>0, <1>1, <1>3 DEF SegmentWrite
<1>5. \A y : HeaderAt(g.buffer, y) = IF y = x THEN EosHeader ELSE HeaderAt(f.buffer, y)
  BY <1>4, StoreHeaderAt
<1>6. \A i \in Entry : i < n => f.index[i] \in Nat /\ f.index[i] < x
  <2>1. \A i \in Entry : i < n => f.index[i] \in Nat /\ f.index[i] + 12 <= x
    BY <1>2, ChainFacts
  <2> QED BY <1>2, <2>1
<1>7. ASSUME NEW i \in Entry, NEW q, Present(f, i, q) PROVE Present(g, i, q)
  <2>1. i < n
    BY <1>2, <1>7, ChainFacts
  <2>2. f.index[i] < x /\ f.index[i] \in Nat
    BY <1>6, <2>1
  <2>3. HeaderAt(g.buffer, f.index[i]) = HeaderAt(f.buffer, f.index[i])
    BY <1>2, <1>5, <2>2
  <2> QED BY <1>4, <1>7, <2>3 DEF Present
<1>8. Chain(b, g, n, x, hist)
  <2>1. \A i \in Entry : i < n =>
          \E q \in Payloads : Present(g, i, q) /\ <<b + i, q>> \in hist /\ g.index[i] + FrameSize(q) <= x
    BY <1>2, <1>4, <1>7 DEF Chain
  <2>2. CASE n = 0
    <3>1. x = 0 /\ HeaderAt(g.buffer, 0) = EosHeader
      BY <1>2, <1>5, <2>2 DEF Chain
    <3> QED BY <1>2, <1>4, <2>1, <2>2, <3>1 DEF Chain
  <2>3. CASE n # 0
    <3>1. n - 1 \in Entry /\ n - 1 < n
      BY <1>2, <2>3, Entries DEF Chain
    <3>2. HeaderAt(g.buffer, f.index[n - 1]) = HeaderAt(f.buffer, f.index[n - 1])
      BY <1>2, <1>5, <1>6, <3>1
    <3> QED BY <1>2, <1>4, <2>1, <2>3, <3>2 DEF Chain
  <2> QED BY <2>2, <2>3
<1>9. HeaderAt(g.buffer, x) = EosHeader
  BY <1>5
<1>10. res.w.index = n /\ res.w.data >= 12 /\ res.w.data - 12 = x
  BY <1>2, <1>4
<1>11. Sealed(b, g, res.w, hist)
  BY <1>8, <1>9, <1>10 DEF Sealed
<1>12. EosAt(g, res.w)
  BY <1>9, <1>10 DEF EosAt, EosHeader
<1> QED BY <1>3, <1>4, <1>7, <1>11, <1>12 DEF Holds

(* Writing a frame: the ones before it stay, and the new one is there. *)
LEMMA WriteFrame ==
  ASSUME NEW b \in Nat, NEW f, IsFile(f), NEW w \in Pair, NEW hist, Holds(b, f, w, hist),
         ~ EosAt(f, w), NEW p \in Payloads, HasRoom(Size, w.data, p), w.index \in Entry,
         NEW res, res = SegmentWrite(f, w, p)
  PROVE  /\ Holds(b, res.file, res.w, hist \cup {<<b + w.index, p>>})
         /\ Present(res.file, w.index, p)
         /\ \A i \in Entry : \A q : Present(f, i, q) => Present(res.file, i, q)
<1>0. /\ w.index \in Nat /\ w.data \in Nat /\ w = [index |-> w.index, data |-> w.data]
      /\ f.index \in [Entry -> Nat] /\ IsBuffer(f.buffer)
      /\ f = [sized |-> f.sized, buffer |-> f.buffer, index |-> f.index]
  BY DEF Pair, IsFile
<1>1. PICK n, x, hdr, hist2 :
        /\ n = w.index /\ x = w.data /\ hist2 = hist \cup {<<b + n, p>>}
        /\ hdr = [flags |-> "READY", size |-> FrameSize(p), payload |-> p]
  OBVIOUS
<1>2. Chain(b, f, n, x, hist) /\ n \in Nat /\ x \in Nat /\ n \in Entry
  BY <1>0, <1>1, NotEnded DEF Growing
<1>3. PICK g : g = res.file
  OBVIOUS
<1>4. /\ g = [sized |-> f.sized, buffer |-> StoreHeader(CopyPayload(f.buffer, x, p), x, hdr),
              index |-> With(f.index, n, x)]
      /\ res.w = [index |-> n + 1, data |-> x + FrameSize(p)]
  BY <1>0, <1>1, <1>3 DEF SegmentWrite
<1>5. /\ HeaderAt(g.buffer, x) = hdr
      /\ \A y \in Nat : y < x => HeaderAt(g.buffer, y) = HeaderAt(f.buffer, y)
  BY <1>0, <1>2, <1>4, StoreHeaderAt, CopyPayloadBelow
<1>6. g.index[n] = x /\ \A i \in Entry : i # n => g.index[i] = f.index[i]
  BY <1>0, <1>2, <1>4 DEF With
<1>7. \A i \in Entry : i < n => f.index[i] \in Nat /\ f.index[i] < x
  <2>1. \A i \in Entry : i < n => f.index[i] \in Nat /\ f.index[i] + 12 <= x
    BY <1>2, ChainFacts
  <2> QED BY <1>2, <2>1
<1>8. (n > 0 => x > 0) /\ (n = 0 => x = 0)
  BY <1>2, ChainFacts
<1>9. ASSUME NEW i \in Entry, NEW q, Present(f, i, q) PROVE Present(g, i, q) /\ i < n
  <2>1. i < n
    BY <1>2, <1>9, ChainFacts
  <2>2. g.index[i] = f.index[i] /\ f.index[i] < x /\ f.index[i] \in Nat
    BY <1>2, <1>6, <1>7, <2>1, Entries
  <2>3. HeaderAt(g.buffer, f.index[i]) = HeaderAt(f.buffer, f.index[i])
    BY <1>5, <2>2
  <2> QED BY <1>9, <2>1, <2>2, <2>3 DEF Present
<1>10. Present(g, n, p)
  BY <1>1, <1>2, <1>5, <1>6, <1>8 DEF Present
<1>11. Chain(b, g, n + 1, x + FrameSize(p), hist2)
  <2>0. FrameSize(p) \in Nat
    BY SizeOfType
  <2>1. n + 1 <= MappedEntries(Size) /\ \A i \in Entry : i \in Nat
    BY <1>2, Entries
  <2>2. \A i \in Entry : i >= n + 1 => g.index[i] = 0
    BY <1>2, <1>6, <2>1 DEF Chain
  <2>3. ASSUME NEW i \in Entry, i < n + 1
        PROVE  \E q \in Payloads : /\ Present(g, i, q) /\ <<b + i, q>> \in hist2
                                   /\ g.index[i] + FrameSize(q) <= x + FrameSize(p)
    <3>1. CASE i = n
      BY <1>1, <1>2, <1>6, <1>10, <2>0, <3>1
    <3>2. CASE i < n
      <4>1. PICK q \in Payloads : /\ Present(f, i, q) /\ <<b + i, q>> \in hist
                                  /\ f.index[i] + FrameSize(q) <= x
        BY <1>2, <3>2 DEF Chain
      <4>2. g.index[i] = f.index[i] /\ f.index[i] \in Nat /\ FrameSize(q) \in Nat
        BY <1>2, <1>6, <1>7, <3>2, SizeOfType
      <4>3. Present(g, i, q)
        BY <1>9, <4>1
      <4> QED BY <1>1, <1>2, <2>0, <4>1, <4>2, <4>3
    <3> QED BY <1>2, <2>1, <2>3, <3>1, <3>2
  <2>4. g.index[0] = 0
    <3>1. CASE n = 0
      BY <1>6, <1>8, <3>1
    <3>2. CASE n # 0
      <4>1. 0 \in Entry
        BY <1>2, Entries
      <4> QED BY <1>2, <1>6, <3>2, <4>1 DEF Chain
    <3> QED BY <3>1, <3>2
  <2>5. n + 1 # 0 /\ (n + 1) - 1 = n
    BY <1>2
  <2>6. x + FrameSize(p) = g.index[(n + 1) - 1] + HeaderAt(g.buffer, g.index[(n + 1) - 1]).size
    BY <1>1, <1>5, <1>6, <2>5
  <2> QED BY <2>1, <2>2, <2>3, <2>4, <2>5, <2>6 DEF Chain
<1>12. Growing(b, g, res.w, hist2)
  BY <1>4, <1>11 DEF Growing
<1> QED BY <1>1, <1>3, <1>9, <1>10, <1>12 DEF Holds

(* segment_read returns a payload only of a frame that was written at the  *)
(* offset it was asked for.                                                *)
LEMMA ReadFrame ==
  ASSUME NEW b \in Nat, NEW f, IsFile(f), NEW g \in OpenSegment, NEW hist, Holds(b, f, g.w, hist),
         NEW rel \in Nat, SegmentRead(f, g, rel).rc > 0
  PROVE  <<b + rel, SegmentRead(f, g, rel).payload>> \in hist
<1>0. g.w \in Pair /\ g.w.index \in Nat /\ g.w.data \in Nat
  BY DEF OpenSegment, Pair
<1>1. PICK phys, hdr : phys = f.index[rel] /\ hdr = HeaderAt(f.buffer, phys)
  OBVIOUS
<1>2. /\ rel < g.w.index /\ ~ (rel # 0 /\ phys = 0) /\ hdr.flags = "READY"
      /\ SegmentRead(f, g, rel).payload = hdr.payload
  BY <1>0, <1>1 DEF SegmentRead, ELNORD, ELEOS, ELINVHD
<1>3. rel \in Entry
  BY <1>0, <1>2, Entries DEF OpenSegment
<1>4. PICK n \in Nat, x \in Nat :
        /\ Chain(b, f, n, x, hist)
        /\ \/ g.w.index = n
           \/ g.w.index = 1 /\ n = 0 /\ HeaderAt(f.buffer, 0) = EosHeader
  BY <1>0, HoldsChain
<1>5. rel < n
  <2> SUFFICES ASSUME rel >= n PROVE FALSE
    BY <1>4
  <2>1. rel = 0 /\ n = 0 /\ HeaderAt(f.buffer, 0) = EosHeader
    BY <1>0, <1>2, <1>4
  <2>2. phys = 0
    BY <1>1, <1>3, <1>4, <2>1 DEF Chain
  <2> QED BY <1>1, <1>2, <2>1, <2>2 DEF EosHeader
<1>6. PICK p \in Payloads : Present(f, rel, p) /\ <<b + rel, p>> \in hist
  BY <1>3, <1>4, <1>5 DEF Chain
<1>7. hdr.payload = p
  BY <1>1, <1>6 DEF Present
<1> QED BY <1>2, <1>6, <1>7

(* segment_read returns a frame that is there. *)
LEMMA ReadPresent ==
  ASSUME NEW f, IsFile(f), NEW g \in OpenSegment, ~ RdCmt, NEW rel \in Entry, NEW p \in Payloads,
         Present(f, rel, p), rel < g.w.index, f.index[rel] < g.w.data
  PROVE  SegmentRead(f, g, rel) = [rc |-> SizeOf[p], payload |-> p]
<1>0. g.w.index \in Nat /\ g.w.data \in Nat /\ rel \in Nat
  BY Entries DEF OpenSegment, Pair
<1>1. PICK phys, hdr : phys = f.index[rel] /\ hdr = HeaderAt(f.buffer, phys)
  OBVIOUS
<1>2. phys \in Nat /\ phys < g.w.data
  BY <1>1 DEF IsFile
<1>3. hdr = [flags |-> "READY", size |-> FrameSize(p), payload |-> p] /\ (rel # 0 => phys # 0)
  BY <1>1 DEF Present
<1>4. hdr.flags = "READY" /\ hdr.size - 12 = SizeOf[p] /\ hdr.payload = p
  BY <1>3, SizeOfType
<1>5. ~ (rel >= g.w.index) /\ ~ ((rel # 0 /\ phys = 0) \/ phys >= g.w.data)
  BY <1>0, <1>2, <1>3
<1> QED BY <1>1, <1>4, <1>5 DEF SegmentRead

-----------------------------------------------------------------------------
(* What most steps leave alone. *)

LEMMA LastOpen ==
  ASSUME LogTypeInv, tree # <<>>, \A i \in DOMAIN tree : tree[i].sgm # NULL
  PROVE  /\ Last(tree).key \in DOMAIN sgms /\ Last(tree).key \in Nat
         /\ Last(tree).key \in DOMAIN files /\ IsFile(files[Last(tree).key])
         /\ sgms[Last(tree).key] \in OpenSegment /\ sgms[Last(tree).key].w.index \in Nat
         /\ Last(tree).sgm = Last(tree).key
         /\ NextBase = Last(tree).key + sgms[Last(tree).key].w.index
<1>1. Len(tree) \in DOMAIN tree /\ Last(tree) = tree[Len(tree)] /\ Last(tree).key \in Nat
  BY LastType
<1>2. PICK b : b = Last(tree).key
  OBVIOUS
<1>3. b \in DOMAIN sgms /\ Last(tree).sgm = b
  BY <1>1, <1>2 DEF LogTypeInv, TreeOK
<1>4. b \in DOMAIN files /\ IsFile(files[b]) /\ sgms[b] \in OpenSegment
  BY <1>3 DEF LogTypeInv, SgmsOK, FilesOK
<1>5. sgms[b].w.index \in Nat
  BY <1>4 DEF OpenSegment, Pair
<1>6. NextBase = b + sgms[b].w.index
  BY <1>2 DEF NextBase, segment_write_offset
<1> QED BY <1>1, <1>2, <1>3, <1>4, <1>5, <1>6

(* A producer that is not storing a value sees them all. *)
LEMMA NoneMissing ==
  ASSUME LogTypeInv, NEW t \in Writers, pc[t] # "idle", pc[t] # "store_value"
  PROVE  \A i \in DOMAIN tree : tree[i].sgm # NULL
<1>1. \A i \in DOMAIN tree : tree[i].sgm = tree[i].key /\ tree[i].key \in DOMAIN sgms
  BY InMutex, TreeFull
<1>2. DOMAIN sgms \subseteq Nat /\ NULL \notin Nat
  BY DEF LogTypeInv, SgmsOK, FilesOK, NULL
<1> QED BY <1>1, <1>2

(* The bytes, the write offsets and the tree stay. *)
Quiet ==
  /\ UNCHANGED <<tree, phase, crashed>>
  /\ DOMAIN files' = DOMAIN files
  /\ \A b \in DOMAIN files : files'[b].buffer = files[b].buffer /\ files'[b].index = files[b].index
  /\ written \subseteq written' /\ acked' = acked
  /\ DOMAIN sgms' = DOMAIN sgms
  /\ \A b \in DOMAIN sgms : sgms'[b].w = sgms[b].w

LEMMA QuietKeeps ==
  ASSUME LogTypeInv, StoreInv, Quiet
  PROVE  /\ LaidOut' /\ Indexed' /\ AckedKept'
         /\ (\A i \in DOMAIN tree : tree[i].sgm # NULL) /\ LastSealed => LastSealed'
<1>1. LaidOut'
  <2> SUFFICES ASSUME NEW b \in DOMAIN files
               PROVE  \E w \in Pair : /\ Holds(b, files'[b], w, written')
                                      /\ Ends(b, w)'
                                      /\ b \in DOMAIN sgms' => w = sgms'[b].w
    BY DEF LaidOut, Quiet
  <2>1. PICK w \in Pair : /\ Holds(b, files[b], w, written) /\ Ends(b, w)
                          /\ b \in DOMAIN sgms => w = sgms[b].w
    BY DEF StoreInv, LaidOut
  <2>2. Holds(b, files'[b], w, written')
    BY <2>1, HistoryGrows, SameBytes DEF Quiet
  <2>3. Ends(b, w)'
    BY <2>1 DEF Ends, Quiet
  <2>4. b \in DOMAIN sgms' => w = sgms'[b].w
    BY <2>1 DEF Quiet
  <2> QED BY <2>2, <2>3, <2>4
<1>2. ASSUME \A i \in DOMAIN tree : tree[i].sgm # NULL
      PROVE  NextBase' = NextBase /\ (LastSealed => LastSealed')
  <2>1. CASE tree = <<>>
    BY <2>1 DEF NextBase, LastSealed, Quiet
  <2>2. CASE tree # <<>>
    <3>1. PICK b : b = Last(tree).key
      OBVIOUS
    <3>2. b \in DOMAIN sgms /\ b \in DOMAIN files
      BY <1>2, <2>2, <3>1, LastOpen
    <3>3. sgms'[b].w = sgms[b].w /\ files'[b].buffer = files[b].buffer
      BY <3>2 DEF Quiet
    <3> QED BY <3>1, <3>3 DEF NextBase, LastSealed, Quiet, segment_write_offset, EosAt
  <2> QED BY <2>1, <2>2
<1>3. Indexed'
  <2> SUFFICES ASSUME phase = "open" PROVE Indexed'
    BY DEF Indexed, Quiet
  <2>1. /\ \A b \in DOMAIN sgms' : \E i \in DOMAIN tree' : tree'[i].key = b
        /\ \A i \in DOMAIN tree' : tree'[i].key \in DOMAIN files'
        /\ \A i, j \in DOMAIN tree' : i < j => tree'[i].key < tree'[j].key
    BY DEF StoreInv, Indexed, Quiet
  <2>2. ASSUME NEW c \in DOMAIN files'
        PROVE  \/ \E i \in DOMAIN tree' : tree'[i].key = c
               \/ c = NextBase' /\ LastSealed' /\ \A i \in DOMAIN tree' : tree'[i].sgm # NULL
    <3>1. \/ \E i \in DOMAIN tree : tree[i].key = c
          \/ c = NextBase /\ LastSealed /\ \A i \in DOMAIN tree : tree[i].sgm # NULL
      BY DEF StoreInv, Indexed, Quiet
    <3> QED BY <1>2, <3>1 DEF Quiet
  <2> QED BY <2>1, <2>2 DEF Indexed
<1>4. AckedKept'
  <2>1. \A b \in DOMAIN files : \A i, p : Present(files[b], i, p) => Present(files'[b], i, p)
    BY SameBytes DEF Quiet
  <2> QED BY <2>1 DEF StoreInv, AckedKept, Quiet
<1> QED BY <1>1, <1>2, <1>3, <1>4

(* A producer that does not move keeps what it has found. *)
LEMMA QuietAdding ==
  ASSUME LogTypeInv, StoreInv, Quiet, NEW u \in Writers, pc'[u] = pc[u], loc'[u] = loc[u]
  PROVE  Adding(u)'
<1>0. Adding(u)
  BY DEF StoreInv
<1>1. ASSUME pc[u] \in {"create_segment", "segment_open", "segment_write", "mbptree_append"}, LastSealed
      PROVE  LastSealed'
  <2>1. \A i \in DOMAIN tree : tree[i].sgm # NULL
    BY <1>1, NoneMissing
  <2> QED BY <1>1, <2>1, QuietKeeps
<1>2. PICK b : b = loc[u].sgm
  OBVIOUS
<1>3. ASSUME b \in DOMAIN files
      PROVE  /\ \A w : Holds(b, files[b], w, written) => Holds(b, files'[b], w, written')
             /\ \A w : EosAt(files[b], w) => EosAt(files'[b], w)
  BY <1>3, HistoryGrows, SameBytes DEF Quiet
<1>4. \A c \in DOMAIN files : \A i, p : Present(files[c], i, p) => Present(files'[c], i, p)
  BY SameBytes DEF Quiet
<1>5. pc[u] \in {"segment_write", "mbptree_append", "store_value"} => b \in DOMAIN files
  BY <1>2 DEF LogTypeInv, LocalsOK, WriterOK
<1>6. DOMAIN sgms' = DOMAIN sgms /\ DOMAIN sgms \subseteq DOMAIN files
  BY DEF Quiet, LogTypeInv, SgmsOK
<1>7. pc[u] = "unlock" /\ loc[u].rc > 0 =>
        \E c \in DOMAIN sgms' : c <= loc[u].off /\ Present(files'[c], loc[u].off - c, loc[u].buf)
  BY <1>0, <1>4, <1>6 DEF Adding
<1> QED BY <1>0, <1>1, <1>2, <1>3, <1>4, <1>5, <1>6, <1>7 DEF Adding

(* What a producer's step may leave to be shown: its own part. *)
LEMMA WriterPart ==
  ASSUME LogTypeInv, StoreInv, NEW t \in Writers,
         \A u \in Writers \ {t} : pc[u] = "idle", NEW l, Goto(t, l),
         NEW v, loc' = [loc EXCEPT ![t] = v], written \subseteq written', Adding(t)'
  PROVE  (\A u \in Writers : Adding(u)') /\ ReadsBack'
<1>0. /\ t \in Threads /\ Writers \subseteq Threads /\ Readers \subseteq Threads /\ t \notin Readers
      /\ pc \in [Threads -> Labels] /\ loc \in [Threads -> Locals]
  BY LogAssumption DEF LogTypeInv, MutexOK, LocalsOK, Threads
<1>1. \A u \in Threads \ {t} : pc'[u] = pc[u] /\ loc'[u] = loc[u]
  BY <1>0 DEF Goto
<1>2. ASSUME NEW u \in Writers \ {t} PROVE Adding(u)'
  <2>1. pc'[u] = "idle"
    BY <1>0, <1>1
  <2> QED BY <2>1 DEF Adding
<1>3. ReadsBack'
  BY <1>0, <1>1 DEF StoreInv, ReadsBack
<1> QED BY <1>2, <1>3

LEMMA QuietWriter ==
  ASSUME LogTypeInv, StoreInv, Quiet, NEW t \in Writers,
         \A u \in Writers \ {t} : pc[u] = "idle", NEW l, Goto(t, l),
         NEW v, loc' = [loc EXCEPT ![t] = v], Adding(t)'
  PROVE  StoreInv'
<1>1. LaidOut' /\ Indexed' /\ AckedKept'
  BY QuietKeeps
<1>2. (\A u \in Writers : Adding(u)') /\ ReadsBack'
  BY WriterPart DEF Quiet
<1> QED BY <1>1, <1>2 DEF StoreInv

-----------------------------------------------------------------------------
(* The steps of mqlog_write. *)

(* A producer on its way out with an error has nothing to show. *)
LEMMA RefusedAdding ==
  ASSUME LogTypeInv, NEW t \in Writers, pc[t] # "idle", NEW rc \in Int, rc <= 0, TryWriteReturns(t, rc)
  PROVE  /\ Adding(t)' /\ Goto(t, "unlock")
         /\ \E v : loc' = [loc EXCEPT ![t] = v]
<1>0. t \in Threads /\ loc[t] \in Locals /\ pc \in [Threads -> Labels] /\ loc \in [Threads -> Locals]
  BY InMutex DEF LogTypeInv, MutexOK, LocalsOK
<1>1. pc'[t] = "unlock" /\ loc'[t].rc = rc
  BY <1>0 DEF TryWriteReturns, Goto, Locals
<1>2. loc' = [loc EXCEPT ![t] = [loc[t] EXCEPT !.rc = rc]]
  BY <1>0 DEF TryWriteReturns
<1>3. Adding(t)'
  BY <1>1 DEF Adding
<1> QED BY <1>2, <1>3 DEF TryWriteReturns

LEMMA LastValueStore ==
  ASSUME LogTypeInv, StoreInv, NEW t \in Writers, LastValue(t)
  PROVE  StoreInv'
<1>0. /\ pc[t] = "last_value" /\ \A u \in Writers \ {t} : pc[u] = "idle"
      /\ t \in Threads /\ loc[t] \in Locals /\ pc \in [Threads -> Labels] /\ loc \in [Threads -> Locals]
  BY InMutex DEF LastValue, At, LogTypeInv, MutexOK, LocalsOK
<1>1. Quiet
  BY DEF LastValue, Quiet, held, life
<1>2. PICK v, l : /\ v = [loc[t] EXCEPT !.sgm = IF tree = <<>> THEN 0 ELSE Last(tree).sgm,
                                        !.fresh = (tree = <<>>)]
                  /\ l = IF tree = <<>> THEN "create_segment" ELSE "segment_write"
  OBVIOUS
<1>3. loc' = [loc EXCEPT ![t] = v] /\ Goto(t, l) /\ pc'[t] = l /\ loc'[t] = v
  BY <1>0, <1>2 DEF LastValue, Goto
<1>4. v.fresh = (tree = <<>>)
  BY <1>0, <1>2 DEF Locals
<1>5. Adding(t)'
  <2>1. CASE tree = <<>>
    BY <1>1, <1>2, <1>3, <2>1 DEF Adding, LastSealed, Quiet
  <2>2. CASE tree # <<>>
    BY <1>2, <1>3, <1>4, <2>2 DEF Adding
  <2> QED BY <2>1, <2>2
<1> QED BY <1>0, <1>1, <1>3, <1>5, QuietWriter

LEMMA AppendRefusedStore ==
  ASSUME LogTypeInv, StoreInv, NEW t \in Writers, AppendRefused(t)
  PROVE  StoreInv'
<1>0. /\ pc[t] = "mbptree_append" /\ \A u \in Writers \ {t} : pc[u] = "idle"
  BY InMutex DEF AppendRefused, At
<1>1. Quiet
  BY DEF AppendRefused, Quiet, life
<1>2. ELIDXOP \in Int /\ ELIDXOP <= 0 /\ TryWriteReturns(t, ELIDXOP)
  BY DEF ELIDXOP, AppendRefused
<1>3. Adding(t)' /\ Goto(t, "unlock") /\ \E v : loc' = [loc EXCEPT ![t] = v]
  BY <1>0, <1>2, RefusedAdding
<1>4. PICK v : loc' = [loc EXCEPT ![t] = v]
  BY <1>3
<1> QED BY <1>0, <1>1, <1>3, <1>4, QuietWriter

LEMMA WriteStore ==
  ASSUME LogTypeInv, StoreInv, NEW t \in Writers, NEW p \in Payloads, mqlog_write(t, p)
  PROVE  StoreInv'
<1>0. /\ pc[t] = "idle" /\ t \in Threads /\ pc \in [Threads -> Labels] /\ loc \in [Threads -> Locals]
  BY DEF mqlog_write, At, LogTypeInv, MutexOK, LocalsOK, Threads
<1>1. Quiet
  BY DEF mqlog_write, Quiet, held, life
<1>2. CASE UNCHANGED <<lock, pc, loc>>
  <2>1. \A u \in Writers : Adding(u)'
    BY <1>1, <1>2, QuietAdding
  <2>2. ReadsBack'
    BY <1>1, <1>2 DEF StoreInv, ReadsBack, Quiet
  <2> QED BY <1>1, <2>1, <2>2, QuietKeeps DEF StoreInv
<1>3. CASE /\ ~ Busy /\ Goto(t, "last_value")
           /\ loc' = [loc EXCEPT ![t] = [Idle(0) EXCEPT !.buf = p]]
  <2>1. \A u \in Writers \ {t} : pc[u] = "idle"
    <3>1. \A u \in Writers : u # NoThread
      BY LogAssumption DEF Threads
    <3> QED BY <1>3, <3>1 DEF Busy, LogTypeInv, MutexOK
  <2>2. pc'[t] = "last_value"
    BY <1>0, <1>3 DEF Goto
  <2>3. Adding(t)'
    BY <2>2 DEF Adding
  <2> QED BY <1>1, <1>3, <2>1, <2>3, QuietWriter
<1> QED BY <1>2, <1>3 DEF mqlog_write

(* No file is behind the place of the next segment. *)
LEMMA NextBaseTop ==
  ASSUME LogTypeInv, StoreInv, phase = "open", \A i \in DOMAIN tree : tree[i].sgm # NULL
  PROVE  /\ NextBase \in Nat
         /\ \A c \in DOMAIN files : c <= NextBase
         /\ tree # <<>> => \A i \in DOMAIN tree : tree[i].key <= Last(tree).key
         /\ tree # <<>> => \A c \in DOMAIN files : c = NextBase \/ c <= Last(tree).key
<1>0. DOMAIN files \subseteq Nat
  BY DEF LogTypeInv, FilesOK
<1>1. CASE tree = <<>>
  BY <1>0, <1>1 DEF NextBase, StoreInv, Indexed
<1>2. CASE tree # <<>>
  <2>1. /\ Last(tree).key \in Nat /\ NextBase \in Nat /\ NextBase >= Last(tree).key
        /\ Len(tree) \in DOMAIN tree /\ Last(tree) = tree[Len(tree)]
        /\ DOMAIN tree = 1 .. Len(tree) /\ Len(tree) \in Nat
    BY <1>2, LastOpen, LastType
  <2>2. ASSUME NEW i \in DOMAIN tree PROVE tree[i].key <= Last(tree).key /\ tree[i].key \in Nat
    <3>1. i = Len(tree) \/ i < Len(tree)
      BY <2>1
    <3>2. tree[i].key \in Nat
      BY <1>0 DEF StoreInv, Indexed
    <3>3. i < Len(tree) => tree[i].key < Last(tree).key
      BY <2>1 DEF StoreInv, Indexed
    <3> QED BY <2>1, <3>1, <3>2, <3>3
  <2>3. \A c \in DOMAIN files : (\E i \in DOMAIN tree : tree[i].key = c) \/ c = NextBase
    BY DEF StoreInv, Indexed
  <2>4. \A c \in DOMAIN files : c = NextBase \/ c <= Last(tree).key
    BY <2>2, <2>3
  <2> QED BY <1>0, <2>1, <2>2, <2>4
<1> QED BY <1>1, <1>2

LEMMA NewFile ==
  ASSUME NEW b, NEW hist
  PROVE  Holds(b, Unsized, [index |-> 0, data |-> 0], hist)
<1>1. HeaderAt(Unsized.buffer, 0) = ZeroHeader
  BY DEF HeaderAt, Unsized
<1>2. \A i \in Entry : Unsized.index[i] = 0 /\ ~ (i < 0)
  BY Entries DEF Unsized
<1>3. Chain(b, Unsized, 0, 0, hist)
  BY <1>1, <1>2, Entries DEF Chain
<1> QED BY <1>3 DEF Holds, Growing

LEMMA CreateStore ==
  ASSUME LogTypeInv, StoreInv, NEW t \in Writers, create_segment(t)
  PROVE  StoreInv'
<1>0. /\ pc[t] = "create_segment" /\ \A u \in Writers \ {t} : pc[u] = "idle"
      /\ t \in Threads /\ loc[t] \in Locals /\ pc \in [Threads -> Labels] /\ loc \in [Threads -> Locals]
      /\ WriterOK(t) /\ Adding(t) /\ phase = "open"
      /\ \A i \in DOMAIN tree : tree[i].sgm # NULL
  BY InMutex, NoneMissing DEF create_segment, At, LogTypeInv, MutexOK, LocalsOK, StoreInv
<1>1. PICK b : b = loc[t].sgm
  OBVIOUS
<1>2. b = NextBase /\ b \in Nat /\ LastSealed /\ loc[t].fresh
  BY <1>0, <1>1 DEF WriterOK, Adding, Locals
<1>3. /\ UNCHANGED <<sgms, tree, phase, crashed, written, acked>>
      /\ files' = files \/ (b \notin DOMAIN files /\ files' = With(files, b, Unsized))
      /\ \/ files' = (IF b \in DOMAIN files THEN files ELSE With(files, b, Unsized))
            /\ Goto(t, "segment_open") /\ UNCHANGED loc
         \/ TryWriteReturns(t, ELFLEOP)
  BY <1>1 DEF create_segment, life
<1>4. /\ \E v : loc' = [loc EXCEPT ![t] = v]
      /\ \E l : Goto(t, l)
      /\ LastSealed' => Adding(t)'
  <2>1. CASE TryWriteReturns(t, ELFLEOP)
    <3>1. ELFLEOP \in Int /\ ELFLEOP <= 0
      BY DEF ELFLEOP
    <3> QED BY <1>0, <2>1, <3>1, RefusedAdding
  <2>2. CASE Goto(t, "segment_open") /\ UNCHANGED loc
    <3>1. pc'[t] = "segment_open" /\ loc' = [loc EXCEPT ![t] = loc[t]]
      BY <1>0, <2>2 DEF Goto
    <3> QED BY <2>2, <3>1 DEF Adding
  <2> QED BY <1>3, <2>1, <2>2
<1>5. CASE files' = files
  <2>1. Quiet
    BY <1>3, <1>5 DEF Quiet
  <2>2. LastSealed'
    BY <1>0, <1>2, <2>1, QuietKeeps
  <2>3. Adding(t)'
    BY <1>4, <2>2
  <2>4. PICK v, l : loc' = [loc EXCEPT ![t] = v] /\ Goto(t, l)
    BY <1>4
  <2> QED BY <1>0, <2>1, <2>3, <2>4, QuietWriter
<1>6. CASE b \notin DOMAIN files /\ files' = With(files, b, Unsized)
  <2>1. /\ DOMAIN files' = DOMAIN files \cup {b} /\ files'[b] = Unsized
        /\ \A c \in DOMAIN files : files'[c] = files[c] /\ c \in Nat /\ c < b
    <3>1. \A c \in DOMAIN files : c \in Nat /\ c <= b /\ c # b
      BY <1>0, <1>2, <1>6, NextBaseTop DEF LogTypeInv, FilesOK
    <3> QED BY <1>2, <1>6, <3>1 DEF With
  <2>2. DOMAIN sgms \subseteq DOMAIN files
    BY DEF LogTypeInv, SgmsOK
  <2>3. ASSUME NEW c \in DOMAIN files, NEW w \in Pair, Ends(c, w), c \in DOMAIN sgms => w = sgms[c].w
        PROVE  Ends(c, w)'
    <3>0. w.index \in Nat
      BY DEF Pair
    <3>1. b >= c + w.index /\ (~ crashed => w.index >= 1 /\ c + w.index \in DOMAIN files')
      <4>1. tree # <<>>
        <5> SUFFICES ASSUME tree = <<>> PROVE FALSE
          OBVIOUS
        <5>1. c = NextBase
          BY <1>0 DEF StoreInv, Indexed
        <5> QED BY <1>2, <1>6, <5>1
      <4>2. PICK last : last = Last(tree).key
        OBVIOUS
      <4>3. /\ last \in DOMAIN sgms /\ last \in DOMAIN files /\ last \in Nat
            /\ b = last + sgms[last].w.index
        BY <1>0, <1>2, <4>1, <4>2, LastOpen
      <4>4. c <= last
        BY <1>0, <1>2, <1>6, <4>1, <4>2, NextBaseTop
      <4>5. CASE c = last
        <5>1. b = c + w.index
          BY <2>3, <4>3, <4>5
        <5> QED BY <2>1, <3>0, <5>1
      <4>6. CASE c < last
        <5>1. last >= c + w.index /\ (~ crashed => w.index >= 1 /\ c + w.index \in DOMAIN files)
          BY <2>3, <4>3, <4>6 DEF Ends
        <5> QED BY <1>2, <2>1, <3>0, <4>3, <5>1
      <4> QED BY <2>1, <4>3, <4>4, <4>5, <4>6
    <3>2. ASSUME NEW d \in DOMAIN files', d > c
          PROVE  d >= c + w.index /\ (~ crashed => w.index >= 1 /\ c + w.index \in DOMAIN files')
      <4>1. CASE d = b
        BY <3>1, <4>1
      <4>2. CASE d \in DOMAIN files
        BY <2>1, <2>3, <3>2, <4>2 DEF Ends
      <4> QED BY <2>1, <4>1, <4>2
    <3> QED BY <1>3, <3>2 DEF Ends
  <2>4. LaidOut'
    <3>1. ASSUME NEW c \in DOMAIN files
          PROVE  \E w \in Pair : /\ Holds(c, files'[c], w, written')
                                 /\ Ends(c, w)'
                                 /\ c \in DOMAIN sgms' => w = sgms'[c].w
      <4>1. PICK w \in Pair : /\ Holds(c, files[c], w, written) /\ Ends(c, w)
                              /\ c \in DOMAIN sgms => w = sgms[c].w
        BY DEF StoreInv, LaidOut
      <4>2. Ends(c, w)'
        BY <2>3, <4>1
      <4> QED BY <1>3, <2>1, <4>1, <4>2
    <3>2. \E w \in Pair : /\ Holds(b, files'[b], w, written')
                          /\ Ends(b, w)'
                          /\ b \in DOMAIN sgms' => w = sgms'[b].w
      <4>1. [index |-> 0, data |-> 0] \in Pair
        BY DEF Pair
      <4>2. Ends(b, [index |-> 0, data |-> 0])'
        BY <1>2, <2>1 DEF Ends
      <4>3. b \notin DOMAIN sgms'
        BY <1>3, <1>6, <2>2
      <4> QED BY <1>3, <2>1, <4>1, <4>2, <4>3, NewFile
    <3> QED BY <2>1, <3>1, <3>2 DEF LaidOut
  <2>5. LastSealed' /\ NextBase' = NextBase
    <3>1. CASE tree = <<>>
      BY <1>3, <3>1 DEF LastSealed, NextBase
    <3>2. CASE tree # <<>>
      <4>1. PICK last : last = Last(tree).key
        OBVIOUS
      <4>2. last \in DOMAIN files
        BY <1>0, <3>2, <4>1, LastOpen
      <4>3. files'[last] = files[last]
        BY <2>1, <4>2
      <4> QED BY <1>2, <1>3, <4>1, <4>3 DEF LastSealed, NextBase
    <3> QED BY <3>1, <3>2
  <2>6. Indexed'
    <3>1. /\ \A c \in DOMAIN sgms' : \E i \in DOMAIN tree' : tree'[i].key = c
          /\ \A i \in DOMAIN tree' : tree'[i].key \in DOMAIN files'
          /\ \A i, j \in DOMAIN tree' : i < j => tree'[i].key < tree'[j].key
      BY <1>0, <1>3, <2>1 DEF StoreInv, Indexed
    <3>2. ASSUME NEW c \in DOMAIN files'
          PROVE  \/ \E i \in DOMAIN tree' : tree'[i].key = c
                 \/ c = NextBase' /\ LastSealed' /\ \A i \in DOMAIN tree' : tree'[i].sgm # NULL
      <4>1. CASE c = b
        BY <1>0, <1>2, <1>3, <2>5, <4>1
      <4>2. CASE c \in DOMAIN files
        BY <1>0, <1>3, <2>5, <4>2 DEF StoreInv, Indexed
      <4> QED BY <2>1, <4>1, <4>2
    <3> QED BY <3>1, <3>2 DEF Indexed
  <2>7. AckedKept'
    BY <1>3, <2>1 DEF StoreInv, AckedKept
  <2>8. Adding(t)'
    BY <1>4, <2>5
  <2>9. PICK v, l : loc' = [loc EXCEPT ![t] = v] /\ Goto(t, l)
    BY <1>4
  <2>10. (\A u \in Writers : Adding(u)') /\ ReadsBack'
    <3>1. written \subseteq written'
      BY <1>3
    <3> QED BY <1>0, <2>8, <2>9, <3>1, WriterPart
  <2> QED BY <2>4, <2>6, <2>7, <2>10 DEF StoreInv
<1> QED BY <1>3, <1>5, <1>6

LEMMA SegmentOpenStore ==
  ASSUME LogTypeInv, StoreInv, NEW t \in Writers, segment_open(t)
  PROVE  StoreInv'
<1>0. /\ pc[t] = "segment_open" /\ \A u \in Writers \ {t} : pc[u] = "idle"
      /\ t \in Threads /\ loc[t] \in Locals /\ pc \in [Threads -> Labels] /\ loc \in [Threads -> Locals]
      /\ WriterOK(t) /\ Adding(t) /\ phase = "open"
      /\ \A i \in DOMAIN tree : tree[i].sgm # NULL
  BY InMutex, NoneMissing DEF segment_open, At, LogTypeInv, MutexOK, LocalsOK, StoreInv
<1>1. PICK b, found : b = loc[t].sgm /\ found = find_w_offset_pair(files[b].buffer, files[b].index, Size)
  OBVIOUS
<1>2. b = NextBase /\ b \in Nat /\ LastSealed /\ loc[t].fresh /\ b \in DOMAIN files /\ IsFile(files[b])
  BY <1>0, <1>1 DEF WriterOK, Adding, Locals, LogTypeInv, FilesOK
<1>3. /\ UNCHANGED <<sgms, tree, phase, crashed, written, acked>>
      /\ files' = [files EXCEPT ![b].sized = TRUE]
      /\ \/ found.rc # 0 /\ TryWriteReturns(t, found.rc)
         \/ TryWriteReturns(t, ELMADV)
         \/ /\ found.rc = 0
            /\ loc' = [loc EXCEPT ![t].new = Opened(found.pair)]
            /\ Goto(t, "segment_write")
  BY <1>1 DEF segment_open, life
<1>4. files'[b].buffer = files[b].buffer /\ files'[b].index = files[b].index
  BY <1>2, <1>3 DEF IsFile
<1>5. Quiet
  BY <1>2, <1>3, <1>4 DEF Quiet
<1>6. LastSealed'
  BY <1>0, <1>2, <1>5, QuietKeeps
<1>7. CASE TryWriteReturns(t, found.rc) \/ TryWriteReturns(t, ELMADV)
  <2>1. ELMADV \in Int /\ ELMADV <= 0 /\ found.rc \in Int /\ found.rc <= 0
    BY <1>1, <1>2, FoundType DEF ELMADV
  <2>2. Adding(t)' /\ Goto(t, "unlock") /\ \E v : loc' = [loc EXCEPT ![t] = v]
    BY <1>0, <1>7, <2>1, RefusedAdding
  <2>3. PICK v : loc' = [loc EXCEPT ![t] = v]
    BY <2>2
  <2> QED BY <1>0, <1>5, <2>2, <2>3, QuietWriter
<1>8. CASE /\ found.rc = 0
           /\ loc' = [loc EXCEPT ![t].new = Opened(found.pair)]
           /\ Goto(t, "segment_write")
  <2>1. PICK v : v = [loc[t] EXCEPT !.new = Opened(found.pair)]
    OBVIOUS
  <2>2. /\ loc' = [loc EXCEPT ![t] = v] /\ loc'[t] = v /\ pc'[t] = "segment_write"
        /\ v.sgm = b /\ v.fresh = loc[t].fresh /\ v.new.w = found.pair
    BY <1>0, <1>1, <1>8, <2>1 DEF Goto, Locals, Opened
  <2>3. PICK w \in Pair : Holds(b, files[b], w, written) /\ (b \in DOMAIN sgms => w = sgms[b].w)
    BY <1>2 DEF StoreInv, LaidOut
  <2>4. /\ Holds(b, files[b], found.pair, written)
        /\ w.index = 0 /\ EosAt(files[b], w) => EosAt(files[b], found.pair)
    BY <1>1, <1>2, <1>8, <2>3, Recovered
  <2>5. Holds(b, files'[b], found.pair, written')
    <3>1. PICK g, w2 : g = files'[b] /\ w2 = found.pair
      OBVIOUS
    <3>2. g.buffer = files[b].buffer /\ g.index = files[b].index
      BY <1>4, <3>1
    <3>3. Holds(b, g, w2, written)
      BY <2>4, <3>1, <3>2, SameBytes
    <3> QED BY <1>3, <3>1, <3>3
  <2>6. b \in DOMAIN sgms => EosAt(files'[b], found.pair)
    <3> SUFFICES ASSUME b \in DOMAIN sgms PROVE EosAt(files'[b], found.pair)
      OBVIOUS
    <3>0. PICK i \in DOMAIN tree : tree[i].key = b
      BY <1>0 DEF StoreInv, Indexed
    <3>1. tree # <<>>
      BY <3>0
    <3>2. PICK last : last = Last(tree).key
      OBVIOUS
    <3>3. /\ last \in Nat /\ sgms[last].w.index \in Nat /\ b = last + sgms[last].w.index
          /\ b <= last /\ EosAt(files[last], sgms[last].w)
      BY <1>0, <1>2, <3>0, <3>1, <3>2, LastOpen, NextBaseTop DEF LastSealed
    <3>4. b = last /\ sgms[b].w.index = 0
      BY <1>2, <3>3
    <3> QED BY <1>4, <2>3, <2>4, <3>3, <3>4, SameBytes
  <2>7. DOMAIN sgms' = DOMAIN sgms
    BY <1>3
  <2>8. Adding(t)'
    BY <1>6, <2>2, <2>5, <2>6, <2>7 DEF Adding
  <2> QED BY <1>0, <1>5, <1>8, <2>2, <2>8, QuietWriter
<1> QED BY <1>3, <1>7, <1>8

(* One segment's files change and its old frames stay. *)
LEMMA Rewritten ==
  ASSUME LogTypeInv, StoreInv, NEW b \in DOMAIN files, NEW g, NEW w \in Pair,
         UNCHANGED <<tree, phase, crashed, acked>>, written \subseteq written',
         files' = [files EXCEPT ![b] = g],
         DOMAIN sgms' = DOMAIN sgms,
         \A c \in DOMAIN sgms : c # b => sgms'[c].w = sgms[c].w,
         b \in DOMAIN sgms => sgms'[b].w = w,
         \A i \in Entry : \A q : Present(files[b], i, q) => Present(g, i, q),
         Holds(b, g, w, written'), Ends(b, w)
  PROVE  LaidOut' /\ AckedKept'
<1>0. /\ DOMAIN files' = DOMAIN files /\ files'[b] = g
      /\ \A c \in DOMAIN files : c # b => files'[c] = files[c]
  OBVIOUS
<1>1. LaidOut'
  <2>1. ASSUME NEW c \in DOMAIN files
        PROVE  \E v \in Pair : /\ Holds(c, files'[c], v, written')
                               /\ Ends(c, v)'
                               /\ c \in DOMAIN sgms' => v = sgms'[c].w
    <3>1. CASE c = b
      <4>1. Ends(b, w)'
        BY <1>0 DEF Ends
      <4> QED BY <1>0, <3>1, <4>1
    <3>2. CASE c # b
      <4>1. PICK v \in Pair : /\ Holds(c, files[c], v, written) /\ Ends(c, v)
                              /\ c \in DOMAIN sgms => v = sgms[c].w
        BY DEF StoreInv, LaidOut
      <4>2. Holds(c, files[c], v, written')
        BY <4>1, HistoryGrows
      <4>3. Ends(c, v)'
        BY <1>0, <4>1 DEF Ends
      <4> QED BY <1>0, <3>2, <4>1, <4>2, <4>3
    <3> QED BY <3>1, <3>2
  <2> QED BY <1>0, <2>1 DEF LaidOut
<1>2. AckedKept'
  <2> SUFFICES ASSUME NEW a \in acked
               PROVE  \E c \in DOMAIN files' : /\ c <= a[1] /\ Present(files'[c], a[1] - c, a[2])
                                               /\ phase' = "open" => c \in DOMAIN sgms'
    BY DEF AckedKept
  <2>1. PICK c \in DOMAIN files : /\ c <= a[1] /\ Present(files[c], a[1] - c, a[2])
                                  /\ phase = "open" => c \in DOMAIN sgms
    BY DEF StoreInv, AckedKept
  <2>2. Present(files'[c], a[1] - c, a[2])
    BY <1>0, <2>1 DEF Present
  <2> QED BY <1>0, <2>1, <2>2
<1> QED BY <1>1, <1>2

(* The tree and the sets of files and segments stay, and so does the place *)
(* of the next segment if somebody has begun to add it.                    *)
LEMMA IndexStays ==
  ASSUME LogTypeInv, StoreInv, UNCHANGED <<tree, phase>>,
         DOMAIN files' = DOMAIN files, DOMAIN sgms' = DOMAIN sgms,
         LastSealed /\ (\A i \in DOMAIN tree : tree[i].sgm # NULL) => LastSealed' /\ NextBase' = NextBase
  PROVE  Indexed'
<1> SUFFICES ASSUME phase = "open" PROVE Indexed'
  BY DEF Indexed
<1>1. /\ \A b \in DOMAIN sgms' : \E i \in DOMAIN tree' : tree'[i].key = b
      /\ \A i \in DOMAIN tree' : tree'[i].key \in DOMAIN files'
      /\ \A i, j \in DOMAIN tree' : i < j => tree'[i].key < tree'[j].key
  BY DEF StoreInv, Indexed
<1>2. ASSUME NEW c \in DOMAIN files'
      PROVE  \/ \E i \in DOMAIN tree' : tree'[i].key = c
             \/ c = NextBase' /\ LastSealed' /\ \A i \in DOMAIN tree' : tree'[i].sgm # NULL
  BY DEF StoreInv, Indexed
<1> QED BY <1>1, <1>2 DEF Indexed

LEMMA QuietStays ==
  ASSUME LogTypeInv, StoreInv, Quiet, UNCHANGED <<pc, loc>>
  PROVE  StoreInv'
<1>1. \A u \in Writers : Adding(u)'
  BY QuietAdding
<1>2. ReadsBack'
  BY DEF StoreInv, ReadsBack, Quiet
<1> QED BY <1>1, <1>2, QuietKeeps DEF StoreInv

(* What a producer knows when it calls segment_write: the segment's files  *)
(* agree with the pair it uses; they are the last ones if the segment is   *)
(* new or has not ended.                                                   *)
LEMMA WriteSite ==
  ASSUME LogTypeInv, StoreInv, NEW t \in Writers, pc[t] = "segment_write",
         NEW b, b = loc[t].sgm, NEW sgm, sgm = IF loc[t].fresh THEN loc[t].new ELSE sgms[b]
  PROVE  /\ b \in DOMAIN files /\ b \in Nat /\ IsFile(files[b])
         /\ sgm \in OpenSegment /\ sgm.w \in Pair
         /\ Holds(b, files[b], sgm.w, written)
         /\ ~ loc[t].fresh => /\ b \in DOMAIN sgms /\ tree # <<>> /\ b = Last(tree).key
                              /\ Ends(b, sgm.w)
         /\ loc[t].fresh => LastSealed
         /\ loc[t].fresh /\ ~ EosAt(files[b], sgm.w) => b \notin DOMAIN sgms
         /\ loc[t].fresh \/ ~ EosAt(files[b], sgm.w) => \A c \in DOMAIN files : c <= b
<1>0. /\ loc[t] \in Locals /\ WriterOK(t) /\ Adding(t) /\ phase = "open"
      /\ \A i \in DOMAIN tree : tree[i].sgm # NULL
  BY InMutex, NoneMissing DEF StoreInv
<1>1. b \in DOMAIN files /\ b \in Nat /\ IsFile(files[b])
  BY <1>0 DEF WriterOK, LogTypeInv, FilesOK
<1>2. CASE loc[t].fresh
  <2>1. sgm = loc[t].new
    BY <1>2
  <2>2. sgm \in OpenSegment /\ sgm.w \in Pair
    BY <1>0, <2>1 DEF Locals, OpenSegment
  <2>3. /\ Holds(b, files[b], sgm.w, written) /\ LastSealed
        /\ b \in DOMAIN sgms => EosAt(files[b], sgm.w)
    BY <1>0, <1>2, <2>1 DEF Adding
  <2>4. \A c \in DOMAIN files : c <= b
    BY <1>0, <1>2, NextBaseTop DEF WriterOK
  <2> QED BY <1>1, <1>2, <2>2, <2>3, <2>4
<1>3. CASE ~ loc[t].fresh
  <2>1. sgm = sgms[b] /\ tree # <<>> /\ b = Last(tree).key /\ b \in DOMAIN sgms
    BY <1>0, <1>3, LastOpen DEF WriterOK
  <2>2. sgm \in OpenSegment /\ sgm.w \in Pair
    BY <2>1 DEF LogTypeInv, SgmsOK, OpenSegment
  <2>3. Holds(b, files[b], sgm.w, written) /\ Ends(b, sgm.w)
    BY <1>1, <2>1 DEF StoreInv, LaidOut
  <2>4. ASSUME ~ EosAt(files[b], sgm.w), NEW c \in DOMAIN files PROVE c <= b
    <3>1. ~ LastSealed
      BY <2>1, <2>4 DEF LastSealed
    <3>2. PICK i \in DOMAIN tree : tree[i].key = c
      BY <1>0, <3>1 DEF StoreInv, Indexed
    <3> QED BY <1>0, <2>1, <3>2, NextBaseTop
  <2> QED BY <1>1, <1>3, <2>1, <2>2, <2>3, <2>4
<1> QED BY <1>2, <1>3

(* A change in the files of a segment that is not open does not reach the  *)
(* last segment of the tree.                                               *)
LEMMA LastUntouched ==
  ASSUME LogTypeInv, \A i \in DOMAIN tree : tree[i].sgm # NULL,
         UNCHANGED <<tree, sgms>>, NEW b \in DOMAIN files, b \notin DOMAIN sgms, NEW g,
         files' = [files EXCEPT ![b] = g]
  PROVE  NextBase' = NextBase /\ (LastSealed => LastSealed')
<1>1. CASE tree = <<>>
  BY <1>1 DEF NextBase, LastSealed
<1>2. CASE tree # <<>>
  <2>1. PICK last : last = Last(tree).key
    OBVIOUS
  <2>2. last \in DOMAIN sgms /\ last \in DOMAIN files
    BY <1>2, <2>1, LastOpen
  <2>3. files'[last] = files[last]
    BY <2>2
  <2> QED BY <2>1, <2>3 DEF NextBase, LastSealed
<1> QED BY <1>1, <1>2

(* A call of segment_write that does not crash: what it does to the files, *)
(* and the three ways the producer goes on.                                *)
Outcome(t, b, sgm, res) ==
  LET fresh == loc[t].fresh
      next  == b + sgm.w.index
      mine  == loc'[t]
  IN  /\ UNCHANGED <<tree, phase, crashed, acked, synced>> /\ written \subseteq written'
      /\ files' = [files EXCEPT ![b] = res.file]
      /\ sgms' = (IF fresh THEN sgms ELSE [sgms EXCEPT ![b].w = res.w])
      /\ loc' = [loc EXCEPT ![t] = mine]
      /\ \/ /\ res.rc # ELEOS /\ sgm.w.index \in Entry
            /\ written' = written \cup {<<next, loc[t].buf>>}
            /\ mine.sgm = b /\ mine.buf = loc[t].buf /\ mine.off = next /\ mine.fresh = fresh
            /\ fresh => mine.new = [loc[t].new EXCEPT !.w = res.w] /\ mine.new.w = res.w
            /\ Goto(t, IF fresh THEN "mbptree_append" ELSE "unlock") /\ UNCHANGED disk
         \/ /\ res.rc = ELEOS /\ ~ fresh /\ written' = written
            /\ mine.fresh = TRUE /\ mine.sgm = next
            /\ Goto(t, "create_segment") /\ UNCHANGED disk
         \/ /\ res.rc = ELEOS /\ fresh /\ TryWriteReturns(t, ELNOWCP) /\ written' = written
            /\ disk' = [disk EXCEPT ![b] = SegmentSynced(disk[b], res.file, sgm)]

LEMMA WriteOutcome ==
  ASSUME LogTypeInv, NEW t \in Writers, segment_write(t),
         NEW b, b = loc[t].sgm, NEW sgm, sgm = IF loc[t].fresh THEN loc[t].new ELSE sgms[b],
         NEW res, res = SegmentWrite(files[b], sgm.w, loc[t].buf)
  PROVE  Crashes \/ Outcome(t, b, sgm, res)
<1>0. /\ t \in Threads /\ loc[t] \in Locals /\ loc \in [Threads -> Locals]
      /\ loc[t].new \in [w : Pair, s : Pair, from : Nat]
  BY DEF LogTypeInv, LocalsOK, Threads, Locals, OpenSegment
<1> SUFFICES ASSUME ~ Crashes PROVE Outcome(t, b, sgm, res)
  OBVIOUS
<1>1. PICK next, new : /\ next = b + sgm.w.index
                       /\ new = IF loc[t].fresh THEN [loc[t].new EXCEPT !.w = res.w] ELSE loc[t].new
  OBVIOUS
<1>2. /\ UNCHANGED <<tree, phase, crashed, acked, synced>>
      /\ res.rc = ELEOS \/ sgm.w.index \in Entry
      /\ files' = [files EXCEPT ![b] = res.file]
      /\ sgms' = (IF loc[t].fresh THEN sgms ELSE [sgms EXCEPT ![b].w = res.w])
      /\ \/ /\ res.rc # ELEOS
            /\ loc' = [loc EXCEPT ![t].off = next, ![t].rc = res.rc, ![t].new = new]
            /\ written' = written \cup {<<next, loc[t].buf>>}
            /\ Goto(t, IF loc[t].fresh THEN "mbptree_append" ELSE "unlock") /\ UNCHANGED disk
         \/ /\ res.rc = ELEOS /\ ~ loc[t].fresh /\ written' = written
            /\ loc' = [loc EXCEPT ![t].sgm = next, ![t].fresh = TRUE]
            /\ Goto(t, "create_segment") /\ UNCHANGED disk
         \/ /\ res.rc = ELEOS /\ loc[t].fresh /\ TryWriteReturns(t, ELNOWCP) /\ written' = written
            /\ disk' = [disk EXCEPT ![b] = SegmentSynced(disk[b], res.file, sgm)]
  BY <1>1 DEF segment_write, segment_write_offset, life
<1>3. CASE res.rc # ELEOS
  <2>1. PICK v : v = [loc[t] EXCEPT !.off = next, !.rc = res.rc, !.new = new]
    OBVIOUS
  <2>2. loc' = [loc EXCEPT ![t] = v] /\ loc'[t] = v
    BY <1>0, <1>2, <1>3, <2>1
  <2>3. /\ v.sgm = loc[t].sgm /\ v.buf = loc[t].buf /\ v.off = next /\ v.fresh = loc[t].fresh
        /\ v.new = new
    BY <1>0, <2>1 DEF Locals
  <2>4. loc[t].fresh => new = [loc[t].new EXCEPT !.w = res.w] /\ new.w = res.w
    BY <1>0, <1>1
  <2> QED BY <1>1, <1>2, <1>3, <2>2, <2>3, <2>4 DEF Outcome
<1>4. CASE res.rc = ELEOS /\ ~ loc[t].fresh
  <2>1. PICK v : v = [loc[t] EXCEPT !.sgm = next, !.fresh = TRUE]
    OBVIOUS
  <2>2. loc' = [loc EXCEPT ![t] = v] /\ loc'[t] = v
    BY <1>0, <1>2, <1>4, <2>1
  <2>3. v.sgm = next /\ v.fresh = TRUE
    BY <1>0, <2>1 DEF Locals
  <2> QED BY <1>1, <1>2, <1>4, <2>2, <2>3 DEF Outcome
<1>5. CASE res.rc = ELEOS /\ loc[t].fresh
  <2>1. loc' = [loc EXCEPT ![t] = loc'[t]]
    BY <1>0, <1>2, <1>5 DEF TryWriteReturns
  <2> QED BY <1>2, <1>5, <2>1 DEF Outcome
<1> QED BY <1>3, <1>4, <1>5

LEMMA SegmentWriteStore ==
  ASSUME LogTypeInv, StoreInv, NEW t \in Writers, segment_write(t)
  PROVE  StoreInv'
<1>0. /\ pc[t] = "segment_write" /\ \A u \in Writers \ {t} : pc[u] = "idle"
      /\ t \in Threads /\ loc[t] \in Locals /\ pc \in [Threads -> Labels]
      /\ loc[t].buf \in Payloads /\ \A i \in DOMAIN tree : tree[i].sgm # NULL
  BY InMutex, NoneMissing DEF segment_write, At, LogTypeInv, MutexOK, WriterOK
<1>1. PICK b, p : b = loc[t].sgm /\ p = loc[t].buf
  OBVIOUS
<1>2. PICK sgm : sgm = IF loc[t].fresh THEN loc[t].new ELSE sgms[b]
  OBVIOUS
<1>3. PICK f, w : f = files[b] /\ w = sgm.w
  OBVIOUS
<1>4. PICK res : res = SegmentWrite(f, w, p)
  OBVIOUS
<1>5. /\ b \in DOMAIN files /\ b \in Nat /\ IsFile(f) /\ w \in Pair /\ w.index <= MappedEntries(Size)
      /\ Holds(b, f, w, written) /\ p \in Payloads
      /\ ~ loc[t].fresh => b \in DOMAIN sgms /\ tree # <<>> /\ b = Last(tree).key /\ Ends(b, w)
      /\ loc[t].fresh => LastSealed
      /\ loc[t].fresh /\ ~ EosAt(f, w) => b \notin DOMAIN sgms
      /\ loc[t].fresh \/ ~ EosAt(f, w) => \A c \in DOMAIN files : c <= b
  BY <1>0, <1>1, <1>2, <1>3, WriteSite DEF OpenSegment
<1>6. CASE Crashes
  BY <1>6, QuietStays DEF Crashes, Quiet, held, life
<1>7. ASSUME Outcome(t, b, sgm, res) PROVE StoreInv'
  <2>0. /\ UNCHANGED <<tree, phase, crashed, acked>> /\ written \subseteq written'
        /\ files' = [files EXCEPT ![b] = res.file]
        /\ sgms' = (IF loc[t].fresh THEN sgms ELSE [sgms EXCEPT ![b].w = res.w])
        /\ loc' = [loc EXCEPT ![t] = loc'[t]]
        /\ res.rc = ELEOS => written' = written
    BY <1>7 DEF Outcome
  <2>1. /\ DOMAIN files' = DOMAIN files /\ files'[b] = res.file
        /\ \A c \in DOMAIN files : c # b => files'[c] = files[c]
        /\ DOMAIN sgms' = DOMAIN sgms
        /\ \A c \in DOMAIN sgms : c # b => sgms'[c].w = sgms[c].w
        /\ ~ loc[t].fresh => sgms'[b].w = res.w
    <3>1. ~ loc[t].fresh => sgms[b] \in OpenSegment
      BY <1>5 DEF LogTypeInv, SgmsOK
    <3> QED BY <1>5, <2>0, <3>1 DEF OpenSegment
  <2>2. \E l : Goto(t, l)
    BY <1>7 DEF Outcome, TryWriteReturns
  <2>3. PICK l : Goto(t, l)
    BY <2>2
  \* A new segment that is at its end: nothing is left of the call.
  <2>4. ASSUME res.rc = ELEOS, loc[t].fresh PROVE Adding(t)'
    <3>1. TryWriteReturns(t, ELNOWCP) /\ ELNOWCP \in Int /\ ELNOWCP <= 0
      BY <1>7, <2>4 DEF Outcome, ELNOWCP
    <3> QED BY <1>0, <3>1, RefusedAdding
  \* The last segment is at its end, and a new one is created.
  <2>5. ASSUME res.rc = ELEOS, ~ loc[t].fresh, EosAt(res.file, res.w) PROVE Adding(t)'
    <3>1. pc'[t] = "create_segment"
      BY <1>0, <1>7, <2>5 DEF Outcome, Goto
    <3>2. LastSealed'
      BY <1>5, <2>0, <2>1, <2>5 DEF LastSealed
    <3> QED BY <3>1, <3>2 DEF Adding
  <2>6. CASE EosAt(f, w)
    <3>1. res = [file |-> f, w |-> w, rc |-> ELEOS]
      BY <1>4, <2>6, EndedStays
    <3>2. res.file = f /\ res.w = w /\ res.rc = ELEOS
      BY <3>1
    <3>3. \A c \in DOMAIN files : files'[c] = files[c]
      BY <1>3, <2>1, <3>2
    <3>4. \A c \in DOMAIN sgms : sgms'[c].w = sgms[c].w
      BY <1>2, <1>3, <2>0, <2>1, <3>2
    <3>5. Quiet
      BY <2>0, <2>1, <3>3, <3>4 DEF Quiet
    <3>6. Adding(t)'
      BY <2>4, <2>5, <2>6, <3>2
    <3> QED BY <1>0, <2>0, <2>3, <3>5, <3>6, QuietWriter
  <2>7. CASE ~ EosAt(f, w) /\ ~ HasRoom(Size, w.data, p)
    <3>1. /\ res.rc = ELEOS /\ Holds(b, res.file, res.w, written) /\ EosAt(res.file, res.w)
          /\ \A i \in Entry : \A q : Present(f, i, q) => Present(res.file, i, q)
      BY <1>4, <1>5, <2>7, EndSegment
    <3>2. res.w \in Pair /\ res.w.index = w.index
      BY <1>4, <1>5, <3>1, SegmentWriteType
    <3>3. Ends(b, res.w)
      <4>1. CASE ~ loc[t].fresh
        BY <1>5, <3>2, <4>1 DEF Ends
      <4>2. CASE loc[t].fresh
        <5>1. \A c \in DOMAIN files : c \in Nat /\ ~ (c > b)
          BY <1>5, <4>2 DEF LogTypeInv, FilesOK
        <5> QED BY <5>1 DEF Ends
      <4> QED BY <4>1, <4>2
    <3>4. b \in DOMAIN sgms => sgms'[b].w = res.w
      BY <1>5, <2>1, <2>7
    <3>5. Holds(b, res.file, res.w, written')
      BY <2>0, <3>1, HistoryGrows
    <3>6. \A i \in Entry : \A q : Present(files[b], i, q) => Present(res.file, i, q)
      BY <1>3, <3>1
    <3>7. LaidOut' /\ AckedKept'
      BY <1>5, <2>0, <2>1, <3>2, <3>3, <3>4, <3>5, <3>6, Rewritten
    <3>8. LastSealed => LastSealed' /\ NextBase' = NextBase
      <4>1. CASE ~ loc[t].fresh
        BY <1>2, <1>3, <1>5, <2>7, <4>1 DEF LastSealed
      <4>2. CASE loc[t].fresh
        BY <1>0, <1>5, <2>0, <2>7, <4>2, LastUntouched
      <4> QED BY <4>1, <4>2
    <3>9. Indexed'
      BY <2>0, <2>1, <3>8, IndexStays
    <3>10. Adding(t)'
      BY <2>4, <2>5, <3>1
    <3>11. (\A u \in Writers : Adding(u)') /\ ReadsBack'
      BY <1>0, <2>0, <2>3, <3>10, WriterPart
    <3> QED BY <3>7, <3>9, <3>11 DEF StoreInv
  <2>8. CASE ~ EosAt(f, w) /\ HasRoom(Size, w.data, p)
    <3>1. res.rc = SizeOf[p] /\ res.rc # ELEOS
      <4>1. res.rc = SizeOf[p]
        BY <1>4, <2>8 DEF SegmentWrite
      <4> QED BY <1>5, <4>1, SizeOfType DEF ELEOS
    <3>2. /\ w.index \in Entry /\ w.index \in Nat
          /\ written' = written \cup {<<b + w.index, p>>}
          /\ loc'[t].sgm = b /\ loc'[t].buf = p /\ loc'[t].off = b + w.index
          /\ loc'[t].fresh = loc[t].fresh
          /\ loc[t].fresh => loc'[t].new.w = res.w
          /\ Goto(t, IF loc[t].fresh THEN "mbptree_append" ELSE "unlock")
      BY <1>1, <1>3, <1>7, <3>1, Entries DEF Outcome
    <3>3. /\ Holds(b, res.file, res.w, written')
          /\ Present(res.file, w.index, p)
          /\ \A i \in Entry : \A q : Present(f, i, q) => Present(res.file, i, q)
      <4>1. PICK hist : hist = written
        OBVIOUS
      <4>2. /\ Holds(b, res.file, res.w, hist \cup {<<b + w.index, p>>})
            /\ Present(res.file, w.index, p)
            /\ \A i \in Entry : \A q : Present(f, i, q) => Present(res.file, i, q)
        <5>1. b \in Nat /\ IsFile(f) /\ w \in Pair /\ Holds(b, f, w, hist) /\ p \in Payloads
          BY <1>5, <4>1
        <5>2. ~ EosAt(f, w) /\ HasRoom(Size, w.data, p) /\ w.index \in Entry
          BY <2>8, <3>2
        <5> QED BY <1>4, <5>1, <5>2, WriteFrame
      <4> QED BY <3>2, <4>1, <4>2
    <3>4. res.w \in Pair
      BY <1>4, <1>5, <3>1, <3>2, SegmentWriteType
    <3>5. Ends(b, res.w)
      <4>1. \A c \in DOMAIN files : c \in Nat /\ ~ (c > b)
        BY <1>5, <2>8 DEF LogTypeInv, FilesOK
      <4> QED BY <4>1 DEF Ends
    <3>6. b \in DOMAIN sgms => sgms'[b].w = res.w
      BY <1>5, <2>1, <2>8
    <3>7. \A i \in Entry : \A q : Present(files[b], i, q) => Present(res.file, i, q)
      BY <1>3, <3>3
    <3>8. LaidOut' /\ AckedKept'
      BY <1>5, <2>0, <2>1, <3>3, <3>4, <3>5, <3>6, <3>7, Rewritten
    <3>9. LastSealed => LastSealed' /\ NextBase' = NextBase
      <4>1. CASE ~ loc[t].fresh
        BY <1>2, <1>3, <1>5, <2>8, <4>1 DEF LastSealed
      <4>2. CASE loc[t].fresh
        BY <1>0, <1>5, <2>0, <2>8, <4>2, LastUntouched
      <4> QED BY <4>1, <4>2
    <3>10. Indexed'
      BY <2>0, <2>1, <3>9, IndexStays
    <3>11. (b + w.index) - b = w.index /\ b <= b + w.index /\ b + w.index >= b
      BY <1>5, <3>2
    <3>12. CASE ~ loc[t].fresh
      <4>1. pc'[t] = "unlock"
        BY <1>0, <3>2, <3>12 DEF Goto
      <4>2. b \in DOMAIN sgms' /\ Present(files'[b], w.index, p)
        BY <1>5, <2>1, <3>3, <3>12
      <4>3. Adding(t)'
        BY <3>2, <3>11, <4>1, <4>2 DEF Adding
      <4>4. (\A u \in Writers : Adding(u)') /\ ReadsBack'
        BY <1>0, <2>0, <2>3, <4>3, WriterPart
      <4> QED BY <3>8, <3>10, <4>4 DEF StoreInv
    <3>13. CASE loc[t].fresh
      <4>1. pc'[t] = "mbptree_append"
        BY <1>0, <3>2, <3>13 DEF Goto
      <4>2. b \notin DOMAIN sgms' /\ LastSealed'
        BY <1>5, <2>1, <2>8, <3>9, <3>13
      <4>3. Holds(b, files'[b], loc'[t].new.w, written') /\ Present(files'[b], w.index, p)
        BY <2>1, <3>2, <3>3, <3>13
      <4>4. Adding(t)'
        BY <3>2, <3>11, <4>1, <4>2, <4>3 DEF Adding
      <4>5. (\A u \in Writers : Adding(u)') /\ ReadsBack'
        BY <1>0, <2>0, <2>3, <4>4, WriterPart
      <4> QED BY <3>8, <3>10, <4>5 DEF StoreInv
    <3> QED BY <3>12, <3>13
  <2> QED BY <2>6, <2>7, <2>8
<1> QED BY <1>1, <1>2, <1>3, <1>4, <1>6, <1>7, WriteOutcome

LEMMA AppendStore ==
  ASSUME LogTypeInv, StoreInv, NEW t \in Writers, mbptree_append(t)
  PROVE  StoreInv'
<1>0. /\ pc[t] = "mbptree_append" /\ \A u \in Writers \ {t} : pc[u] = "idle"
      /\ t \in Threads /\ loc[t] \in Locals /\ pc \in [Threads -> Labels] /\ loc \in [Threads -> Locals]
      /\ WriterOK(t) /\ Adding(t) /\ phase = "open"
      /\ \A i \in DOMAIN tree : tree[i].sgm # NULL
  BY InMutex, NoneMissing DEF mbptree_append, At, LogTypeInv, MutexOK, LocalsOK, StoreInv
<1>1. PICK b, n : b = loc[t].sgm /\ n = Len(tree)
  OBVIOUS
<1>2. /\ UNCHANGED <<files, sgms, phase, crashed, written, acked, loc>> /\ Monotonic(b)
      /\ tree' = Append(tree, [key |-> b, sgm |-> NULL]) /\ Goto(t, "store_value")
  BY <1>1 DEF mbptree_append, life
<1>3. /\ b = NextBase /\ b \in Nat /\ b \in DOMAIN files /\ loc[t].fresh
      /\ Holds(b, files[b], loc[t].new.w, written) /\ b \notin DOMAIN sgms
      /\ loc[t].rc > 0 => loc[t].off >= b /\ Present(files[b], loc[t].off - b, loc[t].buf)
  BY <1>0, <1>1 DEF WriterOK, Adding, Locals
<1>4. /\ n \in Nat /\ DOMAIN tree = 1 .. n /\ DOMAIN tree' = 1 .. n + 1
      /\ \A i \in 1 .. n : tree'[i] = tree[i]
      /\ tree'[n + 1] = [key |-> b, sgm |-> NULL]
  <2> DEFINE T == [key : Nat, sgm : Nat \cup {NULL}]
  <2>1. tree \in Seq(T)
    BY DEF LogTypeInv, TreeOK
  <2>2. PICK e : e = [key |-> b, sgm |-> NULL]
    OBVIOUS
  <2>3. e \in T /\ tree' = Append(tree, e)
    BY <1>2, <1>3, <2>2
  <2> HIDE DEF T
  <2> QED BY <1>1, <2>1, <2>2, <2>3
<1>5. LaidOut' /\ AckedKept'
  BY <1>2 DEF StoreInv, LaidOut, AckedKept, Ends
<1>6. \A i \in 1 .. n : tree[i].key \in Nat /\ tree[i].key < b
  <2> SUFFICES ASSUME NEW i \in 1 .. n PROVE tree[i].key \in Nat /\ tree[i].key < b
    OBVIOUS
  <2>1. tree # <<>>
    BY <1>4
  <2>2. Last(tree).key < b /\ Last(tree).key \in Nat /\ tree[i].key <= Last(tree).key
    BY <1>0, <1>2, <1>3, <1>4, <2>1, NextBaseTop, LastType DEF Monotonic
  <2>3. tree[i].key \in Nat
    BY <1>0, <1>4 DEF StoreInv, Indexed, LogTypeInv, FilesOK
  <2> QED BY <1>3, <2>2, <2>3
<1>7. Indexed'
  <2>1. ASSUME NEW c \in DOMAIN sgms PROVE \E i \in DOMAIN tree' : tree'[i].key = c
    <3>1. PICK i \in DOMAIN tree : tree[i].key = c
      BY <1>0 DEF StoreInv, Indexed
    <3> QED BY <1>4, <3>1
  <2>2. ASSUME NEW i \in DOMAIN tree' PROVE tree'[i].key \in DOMAIN files
    <3>1. CASE i = n + 1
      BY <1>3, <1>4, <3>1
    <3>2. CASE i \in 1 .. n
      BY <1>0, <1>4, <3>2 DEF StoreInv, Indexed
    <3> QED BY <1>4, <3>1, <3>2
  <2>3. ASSUME NEW i \in DOMAIN tree', NEW j \in DOMAIN tree', i < j PROVE tree'[i].key < tree'[j].key
    <3>0. i \in 1 .. n
      BY <1>4, <2>3
    <3>1. CASE j = n + 1
      BY <1>4, <1>6, <3>0, <3>1
    <3>2. CASE j \in 1 .. n
      BY <1>0, <1>4, <2>3, <3>0, <3>2 DEF StoreInv, Indexed
    <3> QED BY <1>4, <3>1, <3>2
  <2>4. ASSUME NEW c \in DOMAIN files PROVE \E i \in DOMAIN tree' : tree'[i].key = c
    <3>1. CASE c = b
      BY <1>4, <3>1
    <3>2. CASE \E i \in DOMAIN tree : tree[i].key = c
      BY <1>4, <3>2
    <3> QED BY <1>0, <1>3, <3>1, <3>2 DEF StoreInv, Indexed
  <2> QED BY <1>2, <2>1, <2>2, <2>3, <2>4 DEF Indexed
<1>8. Adding(t)'
  <2>1. pc'[t] = "store_value"
    BY <1>0, <1>2 DEF Goto
  <2> QED BY <1>1, <1>2, <1>3, <2>1 DEF Adding
<1>9. loc' = [loc EXCEPT ![t] = loc[t]] /\ written \subseteq written'
  BY <1>0, <1>2
<1>10. (\A u \in Writers : Adding(u)') /\ ReadsBack'
  BY <1>0, <1>2, <1>8, <1>9, WriterPart
<1> QED BY <1>5, <1>7, <1>10 DEF StoreInv

LEMMA StoreValueStore ==
  ASSUME LogTypeInv, StoreInv, NEW t \in Writers, StoreValue(t)
  PROVE  StoreInv'
<1>0. /\ pc[t] = "store_value" /\ \A u \in Writers \ {t} : pc[u] = "idle"
      /\ t \in Threads /\ loc[t] \in Locals /\ pc \in [Threads -> Labels] /\ loc \in [Threads -> Locals]
      /\ WriterOK(t) /\ Adding(t) /\ phase = "open"
  BY InMutex DEF StoreValue, At, LogTypeInv, MutexOK, LocalsOK, StoreInv
<1>1. PICK b, n : b = loc[t].sgm /\ n = Len(tree)
  OBVIOUS
<1>2. /\ UNCHANGED <<files, phase, crashed, written, acked, loc>> /\ Goto(t, "unlock")
      /\ tree' = [tree EXCEPT ![n].sgm = b] /\ sgms' = With(sgms, b, loc[t].new)
  BY <1>1 DEF StoreValue, NewSlot, life
<1>3. /\ b \in Nat /\ b \in DOMAIN files /\ loc[t].fresh /\ loc[t].new.w \in Pair
      /\ Holds(b, files[b], loc[t].new.w, written) /\ b \notin DOMAIN sgms
      /\ loc[t].rc > 0 => loc[t].off >= b /\ Present(files[b], loc[t].off - b, loc[t].buf)
      /\ tree # <<>> /\ Last(tree) = [key |-> b, sgm |-> NULL] /\ loc[t].off \in Nat
  BY <1>0, <1>1 DEF WriterOK, Adding, Locals, OpenSegment
<1>4. /\ n \in DOMAIN tree /\ tree[n].key = b /\ tree[n].sgm = NULL
      /\ DOMAIN tree = 1 .. n /\ n \in Nat
  BY <1>1, <1>3, LastType
<1>5. DOMAIN tree' = DOMAIN tree /\ \A i \in DOMAIN tree : tree'[i].key = tree[i].key
  <2> DEFINE T == [key : Nat, sgm : Nat \cup {NULL}]
  <2>1. tree \in Seq(T)
    BY DEF LogTypeInv, TreeOK
  <2>2. \A i \in DOMAIN tree : tree[i] \in T
    <3> HIDE DEF T
    <3> QED BY <2>1
  <2>3. DOMAIN tree' = DOMAIN tree
    BY <1>2
  <2>4. ASSUME NEW i \in DOMAIN tree PROVE tree'[i].key = tree[i].key
    <3>1. tree[i] \in T
      BY <2>2
    <3>2. CASE i # n
      BY <1>2, <3>2
    <3>3. CASE i = n
      <4>1. tree'[i] = [tree[i] EXCEPT !.sgm = b]
        BY <1>2, <3>3
      <4> QED BY <3>1, <4>1
    <3> QED BY <3>2, <3>3
  <2> QED BY <2>3, <2>4
<1>6. DOMAIN sgms' = DOMAIN sgms \cup {b} /\ sgms'[b] = loc[t].new
      /\ \A c \in DOMAIN sgms : sgms'[c] = sgms[c] /\ c # b
  BY <1>2, <1>3 DEF With
<1>7. \A c \in DOMAIN files : /\ \E i \in DOMAIN tree : tree[i].key = c
                              /\ c \in Nat /\ ~ (c > b)
  <2> SUFFICES ASSUME NEW c \in DOMAIN files
               PROVE  (\E i \in DOMAIN tree : tree[i].key = c) /\ c \in Nat /\ ~ (c > b)
    OBVIOUS
  <2>1. PICK i \in DOMAIN tree : tree[i].key = c
    BY <1>0, <1>4 DEF StoreInv, Indexed
  <2>2. c \in Nat
    BY DEF LogTypeInv, FilesOK
  <2>3. i = n \/ i < n
    BY <1>4
  <2>4. i < n => c < b
    BY <1>0, <1>4, <2>1 DEF StoreInv, Indexed
  <2> QED BY <1>3, <1>4, <2>1, <2>2, <2>3, <2>4
<1>8. LaidOut'
  <2> SUFFICES ASSUME NEW c \in DOMAIN files
               PROVE  \E w \in Pair : /\ Holds(c, files[c], w, written)
                                      /\ Ends(c, w)'
                                      /\ c \in DOMAIN sgms' => w = sgms'[c].w
    BY <1>2 DEF LaidOut
  <2>1. CASE c = b
    <3>1. Ends(b, loc[t].new.w)'
      BY <1>2, <1>7 DEF Ends
    <3>2. PICK w : w = loc[t].new.w
      OBVIOUS
    <3> QED BY <1>2, <1>3, <1>6, <2>1, <3>1, <3>2
  <2>2. CASE c # b
    <3>1. PICK w \in Pair : /\ Holds(c, files[c], w, written) /\ Ends(c, w)
                            /\ c \in DOMAIN sgms => w = sgms[c].w
      BY DEF StoreInv, LaidOut
    <3>2. Ends(c, w)'
      BY <1>2, <3>1 DEF Ends
    <3> QED BY <1>6, <2>2, <3>1, <3>2
  <2> QED BY <2>1, <2>2
<1>9. Indexed'
  <2>1. ASSUME NEW c \in DOMAIN sgms' PROVE \E i \in DOMAIN tree' : tree'[i].key = c
    <3>1. c \in DOMAIN files
      BY <1>3, <1>6 DEF LogTypeInv, SgmsOK
    <3> QED BY <1>5, <1>7, <3>1
  <2>2. \A i \in DOMAIN tree' : tree'[i].key \in DOMAIN files
    BY <1>0, <1>5 DEF StoreInv, Indexed
  <2>3. \A i, j \in DOMAIN tree' : i < j => tree'[i].key < tree'[j].key
    BY <1>0, <1>5 DEF StoreInv, Indexed
  <2>4. \A c \in DOMAIN files : \E i \in DOMAIN tree' : tree'[i].key = c
    BY <1>5, <1>7
  <2> QED BY <1>2, <2>1, <2>2, <2>3, <2>4 DEF Indexed
<1>10. AckedKept'
  BY <1>2, <1>6 DEF StoreInv, AckedKept
<1>11. Adding(t)'
  <2>1. pc'[t] = "unlock"
    BY <1>0, <1>2 DEF Goto
  <2>2. b \in DOMAIN sgms' /\ (loc[t].rc > 0 => b <= loc[t].off)
    BY <1>3, <1>6
  <2> QED BY <1>1, <1>2, <1>3, <2>1, <2>2 DEF Adding
<1>12. loc' = [loc EXCEPT ![t] = loc[t]] /\ written \subseteq written'
  BY <1>0, <1>2
<1>13. (\A u \in Writers : Adding(u)') /\ ReadsBack'
  BY <1>0, <1>2, <1>11, <1>12, WriterPart
<1> QED BY <1>8, <1>9, <1>10, <1>13 DEF StoreInv

LEMMA UnlockStore ==
  ASSUME LogTypeInv, StoreInv, NEW t \in Writers, WriteUnlock(t)
  PROVE  StoreInv'
<1>0. /\ pc[t] = "unlock" /\ \A u \in Writers \ {t} : pc[u] = "idle"
      /\ t \in Threads /\ pc \in [Threads -> Labels] /\ Adding(t) /\ phase = "open"
  BY InMutex DEF WriteUnlock, At, LogTypeInv, MutexOK, StoreInv
<1>1. /\ UNCHANGED <<files, sgms, tree, phase, crashed, written>>
      /\ acked' = IF loc[t].rc > 0 THEN acked \cup {<<loc[t].off, loc[t].buf>>} ELSE acked
      /\ loc' = [loc EXCEPT ![t] = Idle(0)] /\ Goto(t, "idle")
  BY DEF WriteUnlock, held, life
<1>2. LaidOut' /\ Indexed'
  BY <1>1 DEF StoreInv, LaidOut, Indexed, Ends, LastSealed, NextBase
<1>3. AckedKept'
  <2> SUFFICES ASSUME NEW a \in acked'
               PROVE  \E b \in DOMAIN files : /\ b <= a[1] /\ Present(files[b], a[1] - b, a[2])
                                              /\ b \in DOMAIN sgms
    BY <1>1 DEF AckedKept
  <2>1. CASE a \in acked
    BY <1>0, <2>1 DEF StoreInv, AckedKept
  <2>2. CASE a = <<loc[t].off, loc[t].buf>> /\ loc[t].rc > 0
    <3>1. PICK b \in DOMAIN sgms : b <= loc[t].off /\ Present(files[b], loc[t].off - b, loc[t].buf)
      BY <1>0, <2>2 DEF Adding
    <3>2. b \in DOMAIN files
      BY DEF LogTypeInv, SgmsOK
    <3> QED BY <2>2, <3>1, <3>2
  <2> QED BY <1>1, <2>1, <2>2
<1>4. Adding(t)'
  <2>1. pc'[t] = "idle"
    BY <1>0, <1>1 DEF Goto
  <2> QED BY <2>1 DEF Adding
<1>5. written \subseteq written'
  BY <1>1
<1>6. (\A u \in Writers : Adding(u)') /\ ReadsBack'
  BY <1>0, <1>1, <1>4, <1>5, WriterPart
<1> QED BY <1>2, <1>3, <1>6 DEF StoreInv

-----------------------------------------------------------------------------
(* The steps of mqlog_read and mqlog_sync. *)

LEMMA QuietOther ==
  ASSUME LogTypeInv, StoreInv, Quiet, NEW t \in Threads, t \notin Writers,
         NEW l, Goto(t, l), NEW v, loc' = [loc EXCEPT ![t] = v],
         t \in Readers /\ l = "idle" /\ v.rc > 0 => <<v.off, v.buf>> \in written
  PROVE  StoreInv'
<1>0. /\ Writers \subseteq Threads /\ Readers \subseteq Threads
      /\ pc \in [Threads -> Labels] /\ loc \in [Threads -> Locals]
  BY DEF LogTypeInv, MutexOK, LocalsOK, Threads
<1>1. /\ \A u \in Threads \ {t} : pc'[u] = pc[u] /\ loc'[u] = loc[u]
      /\ pc'[t] = l /\ loc'[t] = v
  BY <1>0 DEF Goto
<1>2. \A u \in Writers : Adding(u)'
  BY <1>0, <1>1, QuietAdding
<1>3. ReadsBack'
  BY <1>0, <1>1 DEF StoreInv, ReadsBack, Quiet
<1> QED BY <1>2, <1>3, QuietKeeps DEF StoreInv

LEMMA ReadStore ==
  ASSUME LogTypeInv, StoreInv, NEW t \in Readers, NEW off \in 0 .. MaxWrites, mqlog_read(t, off)
  PROVE  StoreInv'
<1>0. t \in Threads /\ t \notin Writers /\ pc[t] = "idle" /\ pc \in [Threads -> Labels]
  BY LogAssumption DEF mqlog_read, At, LogTypeInv, MutexOK, Threads
<1>1. Quiet
  BY DEF mqlog_read, Quiet, held, life
<1>2. CASE loc' = [loc EXCEPT ![t] = Idle(ELLOCK)] /\ UNCHANGED pc
  <2>1. Goto(t, "idle")
    BY <1>0, <1>2 DEF Goto
  <2>2. ~ (Idle(ELLOCK).rc > 0)
    BY DEF Idle, ELLOCK
  <2> QED BY <1>0, <1>1, <1>2, <2>1, <2>2, QuietOther
<1>3. CASE Goto(t, "leaf_floor") /\ loc' = [loc EXCEPT ![t] = [Idle(0) EXCEPT !.off = off]]
  BY <1>0, <1>1, <1>3, QuietOther
<1> QED BY <1>2, <1>3 DEF mqlog_read

LEMMA FloorStore ==
  ASSUME LogTypeInv, StoreInv, NEW t \in Readers, leaf_floor(t)
  PROVE  StoreInv'
<1>0. /\ t \in Threads /\ t \notin Writers /\ loc \in [Threads -> Locals]
  BY LogAssumption DEF LogTypeInv, LocalsOK, Threads
<1>1. Quiet
  BY DEF leaf_floor, Quiet, held, life
<1>2. CASE \E s : loc' = [loc EXCEPT ![t].sgm = s] /\ Goto(t, "segment_read")
  <2>1. PICK s : loc' = [loc EXCEPT ![t].sgm = s] /\ Goto(t, "segment_read")
    BY <1>2
  <2>2. PICK v : v = [loc[t] EXCEPT !.sgm = s]
    OBVIOUS
  <2>3. PICK l : l = "segment_read"
    OBVIOUS
  <2>4. loc' = [loc EXCEPT ![t] = v] /\ Goto(t, l) /\ l # "idle"
    BY <1>0, <2>1, <2>2, <2>3
  <2> QED BY <1>0, <1>1, <2>4, QuietOther
<1>3. CASE \E rc \in Int : rc <= 0 /\ ReadReturns(t, rc, NoPayload)
  <2>1. PICK rc \in Int : rc <= 0 /\ ReadReturns(t, rc, NoPayload)
    BY <1>3
  <2>2. PICK v \in Locals : loc' = [loc EXCEPT ![t] = v] /\ Goto(t, "idle") /\ v.rc = rc
    BY <1>0, <2>1, ReturnedType
  <2>3. ~ (v.rc > 0)
    BY <2>1, <2>2
  <2> QED BY <1>0, <1>1, <2>2, <2>3, QuietOther
<1>4. /\ ELNORD \in Int /\ ELNORD <= 0 /\ ELALLC \in Int /\ ELALLC <= 0
  BY DEF ELNORD, ELALLC
<1> QED BY <1>2, <1>3, <1>4 DEF leaf_floor, NothingFound

LEMMA SegmentReadStore ==
  ASSUME LogTypeInv, StoreInv, NEW t \in Readers, segment_read(t)
  PROVE  StoreInv'
<1>0. /\ pc[t] = "segment_read" /\ t \in Threads /\ t \notin Writers /\ loc[t] \in Locals
  BY LogAssumption DEF segment_read, At, LogTypeInv, LocalsOK, Threads
<1>1. Quiet
  BY DEF segment_read, Quiet, held, life
<1>2. PICK b, rel : b = loc[t].sgm /\ rel = loc[t].off - b
  OBVIOUS
<1>3. PICK f, g : f = files[b] /\ g = sgms[b]
  OBVIOUS
<1>4. /\ b \in DOMAIN sgms /\ b \in DOMAIN files /\ b \in Nat /\ g \in OpenSegment /\ IsFile(f)
      /\ rel \in Nat /\ b + rel = loc[t].off
  BY <1>0, <1>2, <1>3 DEF LogTypeInv, LocalsOK, SgmsOK, FilesOK, Locals
<1>5. PICK res : res = SegmentRead(f, g, rel)
  OBVIOUS
<1>6. ReadReturns(t, res.rc, res.payload)
  BY <1>2, <1>3, <1>5 DEF segment_read, relative_offset
<1>7. res.rc \in Int /\ res.payload \in Payloads \cup {NoPayload}
  BY <1>4, <1>5, SegmentReadType
<1>8. PICK v \in Locals : /\ loc' = [loc EXCEPT ![t] = v] /\ Goto(t, "idle")
                          /\ v.rc = res.rc /\ v.buf = res.payload
                          /\ v.off = IF res.rc > 0 THEN loc[t].off ELSE 0
  BY <1>0, <1>6, <1>7, ReturnedType
<1>9. Holds(b, f, g.w, written)
  BY <1>3, <1>4 DEF StoreInv, LaidOut
<1>10. ASSUME v.rc > 0 PROVE <<v.off, v.buf>> \in written
  <2>1. SegmentRead(f, g, rel).rc > 0
    BY <1>5, <1>8, <1>10
  <2>2. <<b + rel, SegmentRead(f, g, rel).payload>> \in written
    BY <1>4, <1>9, <2>1, ReadFrame
  <2> QED BY <1>4, <1>5, <1>8, <1>10, <2>2
<1> QED BY <1>0, <1>1, <1>8, <1>10, QuietOther

LEMMA SyncStore ==
  ASSUME LogTypeInv, StoreInv, NEW t \in Syncers, mqlog_sync(t)
  PROVE  StoreInv'
<1>0. t \in Threads /\ t \notin Writers /\ t \notin Readers
  BY LogAssumption DEF Threads
<1>1. Quiet
  BY DEF mqlog_sync, Quiet, held, life
<1>2. PICK l, v : Goto(t, l) /\ loc' = [loc EXCEPT ![t] = v]
  BY DEF mqlog_sync
<1> QED BY <1>0, <1>1, <1>2, QuietOther

LEMMA SegmentSyncStore ==
  ASSUME LogTypeInv, StoreInv, NEW t \in Syncers, segment_sync(t)
  PROVE  StoreInv'
<1>0. t \in Threads /\ t \notin Writers /\ t \notin Readers
  BY LogAssumption DEF Threads
<1>1. CASE Crashes
  BY <1>1, QuietStays DEF Crashes, Quiet, held, life
<1>2. ASSUME ~ Crashes PROVE StoreInv'
  <2>1. PICK b : b = tree[loc[t].off].sgm
    OBVIOUS
  <2>2. /\ UNCHANGED <<files, tree, phase, crashed, written, acked>>
        /\ sgms' = [sgms EXCEPT ![b].s = sgms[b].w]
        /\ loc' = [loc EXCEPT ![t] = Idle(0)] /\ Goto(t, "idle")
    BY <1>2, <2>1 DEF segment_sync, life
  <2>3. \A c \in DOMAIN sgms : sgms'[c].w = sgms[c].w
    <3> SUFFICES ASSUME NEW c \in DOMAIN sgms PROVE sgms'[c].w = sgms[c].w
      OBVIOUS
    <3>1. sgms[c] \in [w : Pair, s : Pair, from : Nat]
      BY DEF LogTypeInv, SgmsOK, OpenSegment
    <3>2. CASE c # b
      BY <2>2, <3>2
    <3>3. CASE c = b
      <4>1. sgms'[c] = [sgms[c] EXCEPT !.s = sgms[c].w]
        BY <2>2, <3>3
      <4> QED BY <3>1, <4>1
    <3> QED BY <3>2, <3>3
  <2>4. Quiet
    BY <2>2, <2>3 DEF Quiet
  <2> QED BY <1>0, <2>2, <2>4, QuietOther
<1> QED BY <1>1, <1>2

-----------------------------------------------------------------------------
(* Stopping and starting. *)

(* Closing the log or the death of the process: the files stay. *)
LEMMA StopStore ==
  ASSUME LogTypeInv, StoreInv, Stop, UNCHANGED <<files, crashed, acked>>
  PROVE  StoreInv'
<1>0. /\ Writers \subseteq Threads /\ Readers \subseteq Threads
      /\ UNCHANGED <<files, crashed, acked, written>> /\ DOMAIN sgms' = {} /\ phase' = "stopped"
      /\ pc' = [t \in Threads |-> "idle"] /\ loc' = [t \in Threads |-> Idle(0)]
  BY DEF Stop, Threads
<1>1. LaidOut'
  BY <1>0 DEF StoreInv, LaidOut, Ends
<1>2. Indexed' /\ AckedKept'
  BY <1>0 DEF StoreInv, Indexed, AckedKept
<1>3. \A t \in Writers : Adding(t)'
  BY <1>0 DEF Adding
<1>4. ReadsBack'
  BY <1>0 DEF ReadsBack, Idle
<1> QED BY <1>1, <1>2, <1>3, <1>4 DEF StoreInv

(* The order in which load_segments meets the directory's entries has each *)
(* of them; if every one is above the last, then all are in order.         *)
LEMMA InOrder ==
  ASSUME NEW S, S \subseteq Nat, IsFiniteSet(S), NEW ord \in SetToSeqs(S)
  PROVE  /\ DOMAIN ord = 1 .. Len(ord) /\ Len(ord) \in Nat
         /\ \A i \in DOMAIN ord : ord[i] \in S
         /\ \A c \in S : \E i \in DOMAIN ord : ord[i] = c
         /\ (\A i \in 2 .. Len(ord) : ord[i - 1] < ord[i]) =>
              \A i, j \in DOMAIN ord : i < j => ord[i] < ord[j]
<1>1. PICK n : n = Cardinality(S)
  OBVIOUS
<1>2. n \in Nat
  BY <1>1, FS_CardinalityType
<1>3. ord \in [1 .. n -> S] /\ \A i, j \in 1 .. n : i # j => ord[i] # ord[j]
  BY <1>1 DEF SetToSeqs
<1>4. DOMAIN ord = 1 .. n /\ Len(ord) = n
  BY <1>2, <1>3
<1>5. ord \in Surjection(1 .. n, S)
  <2>1. ord \in Injection(1 .. n, S)
    BY <1>3 DEF Injection, IsInjective
  <2>2. Cardinality(1 .. n) = n
    BY <1>2, FS_Interval
  <2> QED BY <1>1, <2>1, <2>2, FS_Injection
<1>6. \A c \in S : \E i \in DOMAIN ord : ord[i] = c
  BY <1>4, <1>5 DEF Surjection
<1>7. ASSUME \A i \in 2 .. n : ord[i - 1] < ord[i], NEW i \in 1 .. n, NEW k \in 1 .. n, i < k,
             ~ (ord[i] < ord[k])
      PROVE  FALSE
  <2> DEFINE Bad == {j \in 1 .. n : i < j /\ ~ (ord[i] < ord[j])}
  <2>1. Bad \subseteq Nat /\ Bad # {}
    BY <1>2, <1>7
  <2>2. PICK j \in Bad : \A m \in Bad : j <= m
    <3> HIDE DEF Bad
    <3> QED BY <2>1, LeastExists
  <2>3. j \in 2 .. n /\ j - 1 \in 1 .. n /\ j - 1 \notin Bad /\ ord[j - 1] < ord[j]
    BY <1>2, <1>7, <2>2
  <2>4. ord[i] \in Nat /\ ord[j] \in Nat /\ ord[j - 1] \in Nat
    BY <1>3, <2>2, <2>3
  <2>5. CASE j - 1 = i
    BY <2>2, <2>3, <2>5
  <2>6. CASE i < j - 1
    <3>1. ord[i] < ord[j - 1]
      BY <2>3, <2>6
    <3> QED BY <2>2, <2>3, <2>4, <3>1
  <2> QED BY <1>2, <2>2, <2>5, <2>6
<1> QED BY <1>2, <1>3, <1>4, <1>6, <1>7

LEMMA OpenStore ==
  ASSUME LogTypeInv, StoreInv, NEW ord \in SetToSeqs(DOMAIN files), mqlog_open(ord)
  PROVE  StoreInv'
<1>0. /\ UNCHANGED <<files, pc, loc, crashed, written, acked>>
      /\ phase # "open" /\ Writers \subseteq Threads
      /\ \A t \in Threads : pc[t] = "idle"
  BY DEF mqlog_open, LogTypeInv, PhaseOK, Threads
<1>1. (\A t \in Writers : Adding(t)') /\ ReadsBack'
  <2>1. \A t \in Writers : pc'[t] = "idle"
    BY <1>0
  <2>2. \A t \in Writers : Adding(t)'
    BY <2>1 DEF Adding
  <2>3. ReadsBack'
    BY <1>0 DEF StoreInv, ReadsBack
  <2> QED BY <2>2, <2>3
<1>2. CASE phase' = "failed" /\ UNCHANGED <<tree, sgms>>
  <2>1. LaidOut'
    BY <1>0, <1>2 DEF StoreInv, LaidOut, Ends
  <2>2. Indexed' /\ AckedKept'
    BY <1>0, <1>2 DEF StoreInv, Indexed, AckedKept
  <2> QED BY <1>1, <2>1, <2>2 DEF StoreInv
<1>3. CASE /\ Loads(ord) /\ phase' = "open"
           /\ tree' = [i \in DOMAIN ord |-> [key |-> ord[i], sgm |-> ord[i]]]
           /\ sgms' = [b \in DOMAIN files |->
                         Opened(find_w_offset_pair(files[b].buffer, files[b].index, Size).pair)]
  <2>0. DOMAIN files \subseteq Nat /\ IsFiniteSet(DOMAIN files) /\ \A b \in DOMAIN files : IsFile(files[b])
    BY DEF LogTypeInv, FilesOK
  <2>1. /\ \A i \in DOMAIN ord : ord[i] \in DOMAIN files
        /\ \A c \in DOMAIN files : \E i \in DOMAIN ord : ord[i] = c
        /\ \A i, j \in DOMAIN ord : i < j => ord[i] < ord[j]
    <3>1. PICK S : S = DOMAIN files
      OBVIOUS
    <3>2. \A i \in 2 .. Len(ord) : ord[i - 1] < ord[i]
      BY <1>3 DEF Loads
    <3> QED BY <2>0, <3>1, <3>2, InOrder
  <2>2. DOMAIN tree' = DOMAIN ord /\ \A i \in DOMAIN ord : tree'[i].key = ord[i]
    BY <1>3
  <2>3. Indexed'
    <3>1. DOMAIN sgms' = DOMAIN files
      BY <1>3
    <3> QED BY <1>0, <2>1, <2>2, <3>1 DEF Indexed
  <2>4. AckedKept'
    BY <1>0, <1>3 DEF StoreInv, AckedKept
  <2>5. ASSUME NEW b \in DOMAIN files
        PROVE  \E w \in Pair : /\ Holds(b, files[b], w, written) /\ Ends(b, w)' /\ w = sgms'[b].w
    <3>1. PICK f, found : f = files[b] /\ found = find_w_offset_pair(f.buffer, f.index, Size)
      OBVIOUS
    <3>2. found.rc = 0
      <4>1. PICK i \in DOMAIN ord : ord[i] = b
        BY <2>1
      <4> QED BY <1>3, <3>1, <4>1 DEF Loads
    <3>3. PICK w \in Pair : Holds(b, f, w, written) /\ Ends(b, w)
      BY <3>1 DEF StoreInv, LaidOut
    <3>4. /\ found.pair \in Pair /\ Holds(b, f, found.pair, written)
          /\ w.index >= 1 => found.pair.index = w.index
          /\ w.index = 0 => found.pair.index <= 1
      BY <2>0, <3>1, <3>2, <3>3, Recovered
    <3>5. Ends(b, found.pair)'
      <4>0. w.index \in Nat /\ found.pair.index \in Nat
        BY <3>4 DEF Pair
      <4>1. CASE w.index >= 1
        BY <1>0, <3>3, <3>4, <4>1 DEF Ends
      <4>2. CASE w.index = 0
        <5>1. ASSUME NEW c \in DOMAIN files, c > b PROVE crashed /\ c >= b + found.pair.index
          BY <2>0, <3>3, <3>4, <4>0, <4>2, <5>1 DEF Ends
        <5> QED BY <1>0, <5>1 DEF Ends
      <4> QED BY <4>0, <4>1, <4>2
    <3>6. sgms'[b].w = found.pair
      BY <1>3, <3>1 DEF Opened
    <3> QED BY <3>1, <3>4, <3>5, <3>6
  <2>6. LaidOut'
    BY <1>0, <2>5 DEF LaidOut
  <2> QED BY <1>1, <2>3, <2>4, <2>6 DEF StoreInv
<1> QED BY <1>2, <1>3 DEF mqlog_open

-----------------------------------------------------------------------------
(* What is on disk of a segment's files. *)

(* Entry j of the files f, and the frame it leads to, are in d.  The index *)
(* file ends in front of the last mapped entries.                          *)
AtDisk(d, f, j) ==
  /\ j < max_index_entries(Size) => d.index[j] = f.index[j]
  /\ HeaderAt(d.buffer, f.index[j]) = HeaderAt(f.buffer, f.index[j])

(* Everything below the sync offsets is on disk, and what is to be synced  *)
(* lies behind them.                                                       *)
SyncedTo(d, f, g) ==
  /\ g.s.index <= g.w.index /\ g.s.data <= g.w.data
  /\ \A j \in Entry : j < g.s.index => AtDisk(d, f, j)
  /\ \A j \in Entry : g.s.index <= j /\ j < g.w.index => f.index[j] >= g.s.data

(* The frames follow one another in the order of their entries. *)
Ordered(f) ==
  \A i, j \in Entry : i < j /\ f.index[j] # 0 =>
    f.index[i] + HeaderAt(f.buffer, f.index[i]).size <= f.index[j]

Ready(f, x) == HeaderAt(f.buffer, x).flags = "READY"

(* A frame's header is found nowhere but where an entry leads. *)
ReadyIsFrame(f) ==
  \A x \in Nat : Ready(f, x) => \E i \in Entry, p \in Payloads : f.index[i] = x /\ Present(f, i, p)

(* The disk has nothing else than what the files have, or had before a     *)
(* frame was written there.                                                *)
Older(d, f) ==
  /\ \A j \in Entry : d.index[j] \in {0, f.index[j]}
  /\ \A x \in Nat : Ready(d, x) => HeaderAt(d.buffer, x) = HeaderAt(f.buffer, x)
  /\ HeaderAt(d.buffer, 0) \in {ZeroHeader, EosHeader, HeaderAt(f.buffer, 0)}

Sound(d, f) == Ordered(f) /\ ReadyIsFrame(f) /\ Older(d, f)

SyncedKept(a) ==
  \E b \in DOMAIN files : /\ b <= a[1] /\ Present(files[b], a[1] - b, a[2])
                          /\ \A j \in Entry : j <= a[1] - b => AtDisk(disk[b], files[b], j)
                          /\ phase = "open" => b \in DOMAIN sgms

(* A segment_t that the tree does not have yet has not been synced. *)
Unsynced(t) ==
  pc[t] \in {"segment_write", "mbptree_append", "store_value"} /\ loc[t].fresh /\ loc[t].new.from = 0 =>
    loc[t].new.s = [index |-> 0, data |-> 0]

(* The synced frames are on disk with all that lies before them, and so    *)
(* are the frames below the sync offsets of a segment that was opened      *)
(* empty.                                                                  *)
OnDisk ==
  /\ \A b \in DOMAIN files : Sound(disk[b], files[b])
  /\ \A a \in synced : SyncedKept(a)
  /\ \A b \in DOMAIN sgms : sgms[b].from = 0 => SyncedTo(disk[b], files[b], sgms[b])
  /\ \A t \in Writers : Unsynced(t)

LEMMA Aligned ==
  ASSUME NEW n \in Nat
  PROVE  page_aligned_addr(n) \in Nat /\ page_aligned_addr(n) <= n
BY PageAssumption DEF page_aligned_addr

(* Only the bytes matter. *)
LEMMA SameSound ==
  ASSUME NEW d, NEW f, NEW g, g.buffer = f.buffer, g.index = f.index
  PROVE  /\ Sound(d, f) => Sound(d, g)
         /\ \A j : AtDisk(d, f, j) => AtDisk(d, g, j)
         /\ \A s : SyncedTo(d, f, s) => SyncedTo(d, g, s)
<1>1. \A i, p : Present(f, i, p) <=> Present(g, i, p)
  BY DEF Present
<1>2. Ordered(f) => Ordered(g)
  BY DEF Ordered
<1>3. ReadyIsFrame(f) => ReadyIsFrame(g)
  BY <1>1 DEF ReadyIsFrame, Ready
<1>4. Older(d, f) => Older(d, g)
  BY DEF Older, Ready
<1>5. \A j : AtDisk(d, f, j) <=> AtDisk(d, g, j)
  BY DEF AtDisk
<1>6. \A s : SyncedTo(d, f, s) => SyncedTo(d, g, s)
  BY <1>5 DEF SyncedTo
<1> QED BY <1>2, <1>3, <1>4, <1>5, <1>6 DEF Sound

(* segment_sync: what was on disk stays, and if everything below the sync  *)
(* offsets was there, then everything below the write offsets is.          *)
LEMMA SyncKeeps ==
  ASSUME NEW d, IsFile(d), NEW f, IsFile(f), NEW g \in OpenSegment, Sound(d, f),
         NEW e, e = SegmentSynced(d, f, g)
  PROVE  /\ Sound(e, f)
         /\ \A j \in Entry : AtDisk(d, f, j) => AtDisk(e, f, j)
         /\ SyncedTo(d, f, g) => \A j \in Entry : j < g.w.index => AtDisk(e, f, j)
<1>0. /\ g.s.data \in Nat /\ g.s.index \in Nat /\ g.w.index \in Nat
      /\ f.index \in [Entry -> Nat] /\ DOMAIN f.buffer \subseteq Nat
      /\ \A j \in Entry : j \in Nat
  BY Entries DEF OpenSegment, Pair, IsFile, IsBuffer
<1>1. PICK x0, j0 : x0 = page_aligned_addr(g.s.data) /\ j0 = page_aligned_addr(g.s.index * 8)
  OBVIOUS
<1>2. x0 \in Nat /\ j0 \in Nat /\ x0 <= g.s.data /\ j0 <= g.s.index * 8
  BY <1>0, <1>1, Aligned
<1>3. ASSUME NEW x
      PROVE  /\ HeaderAt(e.buffer, x) \in {HeaderAt(f.buffer, x), HeaderAt(d.buffer, x)}
             /\ x \in Nat /\ x >= g.s.data => HeaderAt(e.buffer, x) = HeaderAt(f.buffer, x)
  <2>1. e.buffer = [y \in DOMAIN f.buffer |-> IF y >= x0 THEN f.buffer[y] ELSE HeaderAt(d.buffer, y)]
    BY <1>1 DEF SegmentSynced
  <2>2. CASE x \notin DOMAIN f.buffer
    BY <2>1, <2>2 DEF HeaderAt
  <2>3. CASE x \in DOMAIN f.buffer
    <3>1. HeaderAt(e.buffer, x) = IF x >= x0 THEN f.buffer[x] ELSE HeaderAt(d.buffer, x)
      BY <2>1, <2>3 DEF HeaderAt
    <3>2. x \in Nat /\ HeaderAt(f.buffer, x) = f.buffer[x]
      BY <1>0, <2>3 DEF HeaderAt
    <3>3. x >= g.s.data => x >= x0
      BY <1>0, <1>2, <3>2
    <3> QED BY <3>1, <3>2, <3>3
  <2> QED BY <2>2, <2>3
<1>4. ASSUME NEW j \in Entry
      PROVE  /\ e.index[j] \in {f.index[j], d.index[j]}
             /\ j >= g.s.index /\ j < max_index_entries(Size) => e.index[j] = f.index[j]
  <2>0. e.index = [i \in Entry |-> IF i * 8 >= j0 /\ i < max_index_entries(Size)
                                   THEN f.index[i] ELSE d.index[i]]
    BY <1>1 DEF SegmentSynced
  <2>1. e.index[j] = IF j * 8 >= j0 /\ j < max_index_entries(Size) THEN f.index[j] ELSE d.index[j]
    BY <2>0
  <2>2. j >= g.s.index => j * 8 >= j0
    BY <1>0, <1>2
  <2> QED BY <2>1, <2>2
<1>5. Sound(e, f)
  <2>1. \A j \in Entry : e.index[j] \in {0, f.index[j]}
    BY <1>4 DEF Sound, Older
  <2>2. \A x \in Nat : Ready(e, x) => HeaderAt(e.buffer, x) = HeaderAt(f.buffer, x)
    BY <1>3 DEF Sound, Older, Ready
  <2>3. HeaderAt(e.buffer, 0) \in {ZeroHeader, EosHeader, HeaderAt(f.buffer, 0)}
    BY <1>3 DEF Sound, Older
  <2> QED BY <2>1, <2>2, <2>3 DEF Sound, Older
<1>6. ASSUME NEW j \in Entry, AtDisk(d, f, j) PROVE AtDisk(e, f, j)
  BY <1>3, <1>4, <1>6 DEF AtDisk
<1>7. ASSUME SyncedTo(d, f, g), NEW j \in Entry, j < g.w.index PROVE AtDisk(e, f, j)
  <2>1. CASE j < g.s.index
    BY <1>6, <1>7, <2>1 DEF SyncedTo
  <2>2. CASE j >= g.s.index
    <3>1. f.index[j] >= g.s.data /\ f.index[j] \in Nat
      BY <1>0, <1>7, <2>2 DEF SyncedTo
    <3> QED BY <1>3, <1>4, <2>2, <3>1 DEF AtDisk
  <2> QED BY <1>0, <2>1, <2>2
<1> QED BY <1>5, <1>6, <1>7

(* The frames that a file holds lie before the write offset. *)
LEMMA ReadyBelow ==
  ASSUME NEW b \in Nat, NEW f, IsFile(f), NEW w \in Pair, NEW hist, Holds(b, f, w, hist),
         ReadyIsFrame(f), NEW x \in Nat, Ready(f, x)
  PROVE  x < w.data
<1>1. PICK i \in Entry, p \in Payloads : f.index[i] = x /\ Present(f, i, p)
  BY DEF ReadyIsFrame
<1> QED BY <1>1, HoldsFacts

LEMMA CopyPayloadReady ==
  ASSUME NEW buf, NEW off, NEW p, NEW x, x # off, HeaderAt(CopyPayload(buf, off, p), x).flags = "READY"
  PROVE  HeaderAt(buf, x).flags = "READY"
BY DEF HeaderAt, CopyPayload, ZeroHeader

(* segment_write stores nothing over what lies before the write offset, so *)
(* what was on disk is still what the files have.                          *)
LEMMA WriteKeeps ==
  ASSUME NEW b \in Nat, NEW f, IsFile(f), NEW d, NEW w \in Pair, NEW hist, Holds(b, f, w, hist),
         NEW p \in Payloads, NEW res, res = SegmentWrite(f, w, p),
         res.rc = ELEOS \/ w.index \in Entry, Sound(d, f)
  PROVE  /\ Sound(d, res.file)
         /\ \A j \in Entry : j < w.index /\ AtDisk(d, f, j) => AtDisk(d, res.file, j)
         /\ \A g \in OpenSegment : g.w = w /\ SyncedTo(d, f, g) =>
              SyncedTo(d, res.file, [g EXCEPT !.w = res.w])
<1>0. /\ w.index \in Nat /\ w.data \in Nat /\ w = [index |-> w.index, data |-> w.data]
      /\ f.index \in [Entry -> Nat] /\ IsBuffer(f.buffer)
      /\ f = [sized |-> f.sized, buffer |-> f.buffer, index |-> f.index]
      /\ \A j \in Entry : j \in Nat
  BY Entries DEF Pair, IsFile
<1>E. ASSUME NEW g \in OpenSegment, NEW v PROVE [g EXCEPT !.w = v].w = v /\ [g EXCEPT !.w = v].s = g.s
  BY DEF OpenSegment
<1>1. CASE EosAt(f, w)
  <2>1. res.file = f /\ res.w = w
    BY <1>1, EndedStays
  <2>2. ASSUME NEW g \in OpenSegment, g.w = w PROVE [g EXCEPT !.w = w] = g
    BY <2>2 DEF OpenSegment
  <2> QED BY <2>1, <2>2
<1>2. CASE ~ EosAt(f, w)
  <2>1. PICK n, x, g : n = w.index /\ x = w.data /\ g = res.file
    OBVIOUS
  <2>2. Chain(b, f, n, x, hist) /\ n \in Nat /\ x \in Nat
    BY <1>0, <1>2, <2>1, NotEnded DEF Growing
  <2>3. /\ \A i \in Entry : i < n => f.index[i] \in Nat /\ f.index[i] + 12 <= x
        /\ \A i \in Entry : i >= n => f.index[i] = 0
        /\ n = 0 => x = 0 /\ HeaderAt(f.buffer, 0) \in {ZeroHeader, EosHeader}
        /\ n > 0 => x >= 12
    <3>1. /\ \A i \in Entry : i < n => f.index[i] \in Nat /\ f.index[i] + 12 <= x
          /\ n > 0 => x >= 12
      BY <2>2, ChainFacts
    <3>2. /\ \A i \in Entry : i >= n => f.index[i] = 0
          /\ n = 0 => x = 0 /\ HeaderAt(f.buffer, 0) \in {ZeroHeader, EosHeader}
      BY <2>2 DEF Chain
    <3> QED BY <3>1, <3>2
  <2>4. ASSUME NEW i \in Entry, i < n
        PROVE  f.index[i] + HeaderAt(f.buffer, f.index[i]).size <= x
    <3>1. PICK q \in Payloads : Present(f, i, q) /\ f.index[i] + FrameSize(q) <= x
      BY <2>2, <2>4 DEF Chain
    <3> QED BY <3>1 DEF Present
  <2>5. \A y \in Nat : Ready(f, y) => y < x
    BY <2>1, ReadyBelow DEF Sound
  \* The new file: below x nothing changes, and at most one entry is new.
  <2>6. /\ \A y \in Nat : y < x => HeaderAt(g.buffer, y) = HeaderAt(f.buffer, y)
        /\ \A y \in Nat : y > x => ~ Ready(g, y)
        /\ \A i \in Entry : i # n => g.index[i] = f.index[i]
        /\ \A i \in Entry : \A q : Present(f, i, q) => Present(g, i, q)
        /\ res.w \in Pair
        /\ \/ /\ g.index = f.index /\ HeaderAt(g.buffer, x) = EosHeader
              /\ res.w.index = n /\ res.w.data >= x
           \/ /\ n \in Entry /\ Present(g, n, p) /\ g.index[n] = x
              /\ res.w.index = n + 1 /\ res.w.data >= x
    <3>1. CASE ~ HasRoom(Size, x, p)
      <4>0. /\ g = [sized |-> f.sized, buffer |-> StoreHeader(f.buffer, x, EosHeader), index |-> f.index]
            /\ res.w = [index |-> n, data |-> x + 12]
        BY <1>0, <1>2, <2>1, <3>1 DEF SegmentWrite
      <4>1. /\ g.index = f.index /\ g.buffer = StoreHeader(f.buffer, x, EosHeader)
            /\ res.w = [index |-> n, data |-> x + 12]
        BY <4>0
      <4>2. \A y : HeaderAt(g.buffer, y) = IF y = x THEN EosHeader ELSE HeaderAt(f.buffer, y)
        BY <4>1, StoreHeaderAt
      <4>3. \A y \in Nat : y > x => ~ Ready(g, y)
        BY <2>2, <2>5, <4>2 DEF Ready
      <4>4. \A i \in Entry : \A q : Present(f, i, q) => Present(g, i, q)
        BY <1>2, <2>1, <3>1, EndSegment
      <4>5. \A y \in Nat : y < x => HeaderAt(g.buffer, y) = HeaderAt(f.buffer, y)
        BY <2>2, <4>2
      <4> QED BY <2>2, <4>1, <4>2, <4>3, <4>4, <4>5 DEF Pair
    <3>2. CASE HasRoom(Size, x, p)
      <4>0. res.rc # ELEOS
        <5>1. res.rc = SizeOf[p]
          BY <1>2, <2>1, <3>2 DEF SegmentWrite
        <5> QED BY <5>1, SizeOfType DEF ELEOS
      <4>1. n \in Entry
        BY <2>1, <4>0
      <4>2. PICK hdr : hdr = [flags |-> "READY", size |-> FrameSize(p), payload |-> p]
        OBVIOUS
      <4>3. /\ g.buffer = StoreHeader(CopyPayload(f.buffer, x, p), x, hdr)
            /\ g.index = With(f.index, n, x)
            /\ res.w = [index |-> n + 1, data |-> x + FrameSize(p)]
        BY <1>0, <1>2, <2>1, <3>2, <4>2 DEF SegmentWrite
      <4>4. /\ Present(g, n, p) /\ \A i \in Entry : \A q : Present(f, i, q) => Present(g, i, q)
        BY <1>2, <2>1, <3>2, <4>1, WriteFrame
      <4>5. \A y \in Nat : y < x => HeaderAt(g.buffer, y) = HeaderAt(f.buffer, y)
        BY <1>0, <2>2, <4>3, StoreHeaderAt, CopyPayloadBelow
      <4>6. ASSUME NEW y \in Nat, y > x, Ready(g, y) PROVE FALSE
        <5>1. y # x
          BY <2>2, <4>6
        <5>2. HeaderAt(g.buffer, y) = HeaderAt(CopyPayload(f.buffer, x, p), y)
          BY <4>3, <5>1, StoreHeaderAt
        <5>3. Ready(f, y)
          BY <4>6, <5>1, <5>2, CopyPayloadReady DEF Ready
        <5> QED BY <2>2, <2>5, <4>6, <5>3
      <4>7. g.index[n] = x /\ \A i \in Entry : i # n => g.index[i] = f.index[i]
        BY <1>0, <4>1, <4>3 DEF With
      <4>8. res.w \in Pair /\ res.w.index = n + 1 /\ res.w.data >= x
        BY <2>2, <4>3, SizeOfType DEF Pair
      <4> QED BY <4>1, <4>4, <4>5, <4>6, <4>7, <4>8
    <3> QED BY <3>1, <3>2
  <2>7. ASSUME NEW i \in Entry, i < n
        PROVE  /\ g.index[i] = f.index[i]
               /\ HeaderAt(g.buffer, f.index[i]) = HeaderAt(f.buffer, f.index[i])
    <3>1. i # n /\ f.index[i] \in Nat /\ f.index[i] < x
      BY <1>0, <2>2, <2>3, <2>7
    <3> QED BY <2>6, <3>1
  <2>8. Ordered(g)
    <3> SUFFICES ASSUME NEW i \in Entry, NEW j \in Entry, i < j, g.index[j] # 0
                 PROVE  g.index[i] + HeaderAt(g.buffer, g.index[i]).size <= g.index[j]
      BY DEF Ordered
    <3>0. i \in Nat /\ j \in Nat
      BY <1>0
    <3>1. j <= n
      <4> SUFFICES ASSUME j > n PROVE FALSE
        BY <2>2, <3>0
      <4>1. j # n /\ f.index[j] = 0
        BY <2>2, <2>3, <3>0
      <4> QED BY <2>6, <4>1
    <3>2. i < n
      BY <2>2, <3>0, <3>1
    <3>3. CASE j = n
      <4>1. g.index[j] = x
        BY <2>2, <2>3, <2>6, <3>3
      <4> QED BY <2>4, <2>7, <3>2, <4>1
    <3>4. CASE j < n
      <4>1. g.index[j] = f.index[j]
        BY <2>7, <3>4
      <4> QED BY <2>7, <3>2, <4>1 DEF Sound, Ordered
    <3> QED BY <2>2, <3>0, <3>1, <3>3, <3>4
  <2>9. ReadyIsFrame(g)
    <3> SUFFICES ASSUME NEW y \in Nat, Ready(g, y)
                 PROVE  \E i \in Entry, q \in Payloads : g.index[i] = y /\ Present(g, i, q)
      BY DEF ReadyIsFrame
    <3>1. CASE y < x
      <4>1. Ready(f, y)
        BY <2>6, <3>1 DEF Ready
      <4>2. PICK i \in Entry, q \in Payloads : f.index[i] = y /\ Present(f, i, q)
        BY <4>1 DEF Sound, ReadyIsFrame
      <4>3. i < n
        BY <2>2, <4>2, ChainFacts
      <4> QED BY <2>6, <2>7, <4>2, <4>3
    <3>2. CASE y = x
      BY <2>6, <3>2 DEF Ready, EosHeader
    <3>3. CASE y > x
      BY <2>6, <3>3
    <3> QED BY <2>2, <3>1, <3>2, <3>3
  <2>10. Older(d, g)
    <3>1. ASSUME NEW j \in Entry PROVE d.index[j] \in {0, g.index[j]}
      <4>1. CASE j = n
        BY <2>2, <2>3, <4>1 DEF Sound, Older
      <4>2. CASE j # n
        BY <2>6, <4>2 DEF Sound, Older
      <4> QED BY <4>1, <4>2
    <3>2. ASSUME NEW y \in Nat, Ready(d, y) PROVE HeaderAt(d.buffer, y) = HeaderAt(g.buffer, y)
      <4>1. HeaderAt(d.buffer, y) = HeaderAt(f.buffer, y)
        BY <3>2 DEF Sound, Older
      <4>2. Ready(f, y)
        BY <3>2, <4>1 DEF Ready
      <4> QED BY <2>5, <2>6, <4>1, <4>2
    <3>3. HeaderAt(d.buffer, 0) \in {ZeroHeader, EosHeader, HeaderAt(g.buffer, 0)}
      <4>1. HeaderAt(d.buffer, 0) \in {ZeroHeader, EosHeader, HeaderAt(f.buffer, 0)}
        BY DEF Sound, Older
      <4>2. CASE n = 0
        BY <2>3, <4>1, <4>2
      <4>3. CASE n > 0
        BY <2>2, <2>3, <2>6, <4>1, <4>3
      <4> QED BY <2>2, <4>2, <4>3
    <3> QED BY <3>1, <3>2, <3>3 DEF Older
  <2>11. ASSUME NEW j \in Entry, j < n, AtDisk(d, f, j) PROVE AtDisk(d, g, j)
    BY <2>7, <2>11 DEF AtDisk
  <2>12. ASSUME NEW s \in OpenSegment, s.w = w, SyncedTo(d, f, s)
         PROVE  SyncedTo(d, g, [s EXCEPT !.w = res.w])
    <3>0. s.s.index \in Nat /\ s.s.data \in Nat /\ res.w.index \in Nat /\ res.w.data \in Nat
      BY <2>6 DEF OpenSegment, Pair
    <3>1. s.s.index <= n /\ s.s.data <= x
      BY <2>1, <2>12 DEF SyncedTo
    <3>2. s.s.index <= res.w.index /\ s.s.data <= res.w.data
      BY <2>2, <2>6, <3>0, <3>1
    <3>3. \A j \in Entry : j < s.s.index => AtDisk(d, g, j)
      BY <1>0, <2>2, <2>11, <2>12, <3>0, <3>1 DEF SyncedTo
    <3>4. ASSUME NEW j \in Entry, s.s.index <= j, j < res.w.index PROVE g.index[j] >= s.s.data
      <4>1. CASE j < n
        BY <2>1, <2>7, <2>12, <3>4, <4>1 DEF SyncedTo
      <4>2. CASE j >= n
        <5>1. j = n /\ g.index[j] = x
          BY <1>0, <2>2, <2>6, <3>0, <3>4, <4>2
        <5> QED BY <2>2, <3>0, <3>1, <5>1
      <4> QED BY <1>0, <2>2, <4>1, <4>2
    <3> QED BY <1>E, <3>2, <3>3, <3>4 DEF SyncedTo
  <2> QED BY <2>1, <2>8, <2>9, <2>10, <2>11, <2>12 DEF Sound
<1> QED BY <1>1, <1>2

-----------------------------------------------------------------------------
(* What the steps leave on disk. *)

LEMMA UnsyncedMoves ==
  ASSUME LogTypeInv, OnDisk, NEW t \in Threads, NEW l, Goto(t, l),
         NEW v, loc' = [loc EXCEPT ![t] = v],
         t \in Writers /\ l \in {"segment_write", "mbptree_append", "store_value"} => Unsynced(t)'
  PROVE  \A u \in Writers : Unsynced(u)'
<1>0. Writers \subseteq Threads /\ pc \in [Threads -> Labels] /\ loc \in [Threads -> Locals]
  BY DEF LogTypeInv, MutexOK, LocalsOK, Threads
<1> SUFFICES ASSUME NEW u \in Writers PROVE Unsynced(u)'
  OBVIOUS
<1>1. CASE u # t
  <2>1. pc'[u] = pc[u] /\ loc'[u] = loc[u]
    BY <1>0, <1>1 DEF Goto
  <2> QED BY <2>1 DEF OnDisk, Unsynced
<1>2. CASE u = t
  <2>1. pc'[t] = l
    BY <1>0 DEF Goto
  <2> QED BY <1>2, <2>1 DEF Unsynced
<1> QED BY <1>1, <1>2

(* The bytes, the disk and the segments stay. *)
LEMMA DiskStays ==
  ASSUME LogTypeInv, OnDisk, DOMAIN files' = DOMAIN files,
         \A b \in DOMAIN files : files'[b].buffer = files[b].buffer /\ files'[b].index = files[b].index,
         UNCHANGED <<disk, sgms, phase, synced>>, \A t \in Writers : Unsynced(t)'
  PROVE  OnDisk'
<1>0. DOMAIN sgms \subseteq DOMAIN files
  BY DEF LogTypeInv, SgmsOK
<1>1. ASSUME NEW b \in DOMAIN files
      PROVE  /\ Sound(disk[b], files'[b])
             /\ \A j : AtDisk(disk[b], files[b], j) => AtDisk(disk[b], files'[b], j)
             /\ \A g : SyncedTo(disk[b], files[b], g) => SyncedTo(disk[b], files'[b], g)
             /\ \A i, p : Present(files[b], i, p) => Present(files'[b], i, p)
  <2>1. PICK d, f, g : d = disk[b] /\ f = files[b] /\ g = files'[b]
    OBVIOUS
  <2>2. Sound(d, f)
    BY <2>1 DEF OnDisk
  <2> QED BY <2>1, <2>2, SameSound, SameBytes
<1>2. ASSUME NEW a \in synced PROVE SyncedKept(a)'
  <2>1. PICK b \in DOMAIN files : /\ b <= a[1] /\ Present(files[b], a[1] - b, a[2])
                                  /\ \A j \in Entry : j <= a[1] - b => AtDisk(disk[b], files[b], j)
                                  /\ phase = "open" => b \in DOMAIN sgms
    BY DEF OnDisk, SyncedKept
  <2> QED BY <1>1, <2>1 DEF SyncedKept
<1>3. \A b \in DOMAIN sgms : sgms[b].from = 0 => SyncedTo(disk[b], files'[b], sgms[b])
  BY <1>0, <1>1 DEF OnDisk
<1> QED BY <1>1, <1>2, <1>3 DEF OnDisk

(* One segment is synced. *)
LEMMA DiskSynced ==
  ASSUME LogTypeInv, OnDisk, NEW b \in DOMAIN files, NEW g \in OpenSegment,
         UNCHANGED <<files, sgms, phase, synced>>,
         disk' = [disk EXCEPT ![b] = SegmentSynced(disk[b], files[b], g)],
         \A t \in Writers : Unsynced(t)'
  PROVE  OnDisk'
<1>0. /\ DOMAIN sgms \subseteq DOMAIN files /\ DOMAIN disk = DOMAIN files
      /\ IsFile(files[b]) /\ IsFile(disk[b]) /\ Sound(disk[b], files[b])
  BY DEF LogTypeInv, SgmsOK, FilesOK, OnDisk
<1>1. PICK d, f, e : d = disk[b] /\ f = files[b] /\ e = SegmentSynced(d, f, g)
  OBVIOUS
<1>2. /\ disk'[b] = e /\ \A c \in DOMAIN files : c # b => disk'[c] = disk[c]
  BY <1>0, <1>1
<1>3. Sound(e, f) /\ \A j \in Entry : AtDisk(d, f, j) => AtDisk(e, f, j)
  BY <1>0, <1>1, SyncKeeps
<1>4. ASSUME NEW c \in DOMAIN files
      PROVE  /\ Sound(disk'[c], files[c])
             /\ \A j \in Entry : AtDisk(disk[c], files[c], j) => AtDisk(disk'[c], files[c], j)
  <2>1. CASE c = b
    BY <1>1, <1>2, <1>3, <2>1
  <2>2. CASE c # b
    BY <1>2, <2>2 DEF OnDisk
  <2> QED BY <2>1, <2>2
<1>5. \A a \in synced : SyncedKept(a)'
  BY <1>4 DEF OnDisk, SyncedKept
<1>6. ASSUME NEW c \in DOMAIN sgms, sgms[c].from = 0 PROVE SyncedTo(disk'[c], files[c], sgms[c])
  <2>1. SyncedTo(disk[c], files[c], sgms[c]) /\ c \in DOMAIN files
    BY <1>0, <1>6 DEF OnDisk
  <2> QED BY <1>4, <2>1 DEF SyncedTo
<1> QED BY <1>4, <1>5, <1>6 DEF OnDisk

LEMMA LastValueDisk ==
  ASSUME LogTypeInv, OnDisk, NEW t \in Writers, LastValue(t)
  PROVE  OnDisk'
<1>0. /\ t \in Threads /\ loc[t] \in Locals /\ pc \in [Threads -> Labels] /\ loc \in [Threads -> Locals]
  BY DEF LogTypeInv, MutexOK, LocalsOK, Threads
<1>1. PICK v, l : /\ v = [loc[t] EXCEPT !.sgm = IF tree = <<>> THEN 0 ELSE Last(tree).sgm,
                                        !.fresh = (tree = <<>>)]
                  /\ l = IF tree = <<>> THEN "create_segment" ELSE "segment_write"
  OBVIOUS
<1>2. loc' = [loc EXCEPT ![t] = v] /\ Goto(t, l) /\ pc'[t] = l /\ loc'[t] = v
  BY <1>0, <1>1 DEF LastValue, Goto
<1>3. v.fresh = (tree = <<>>)
  BY <1>0, <1>1 DEF Locals
<1>4. Unsynced(t)'
  BY <1>1, <1>2, <1>3 DEF Unsynced
<1>5. \A u \in Writers : Unsynced(u)'
  BY <1>0, <1>2, <1>4, UnsyncedMoves
<1> QED BY <1>5, DiskStays DEF LastValue, held, life

LEMMA UnsizedSound == Sound(Unsized, Unsized)
<1>1. \A x : HeaderAt(Unsized.buffer, x) = ZeroHeader
  BY DEF HeaderAt, Unsized
<1>2. \A i \in Entry : Unsized.index[i] = 0
  BY DEF Unsized
<1> QED BY <1>1, <1>2 DEF Sound, Ordered, ReadyIsFrame, Older, Ready, ZeroHeader

(* A producer that stops with an error, or only moves. *)
LEMMA RefusedMoves ==
  ASSUME LogTypeInv, NEW t \in Writers, NEW rc, TryWriteReturns(t, rc)
  PROVE  \E v : loc' = [loc EXCEPT ![t] = v] /\ Goto(t, "unlock")
<1>0. t \in Threads /\ loc \in [Threads -> Locals]
  BY DEF LogTypeInv, LocalsOK, Threads
<1> QED BY <1>0 DEF TryWriteReturns

LEMMA RefusedUnsynced ==
  ASSUME LogTypeInv, OnDisk, NEW t \in Writers, NEW rc, TryWriteReturns(t, rc)
  PROVE  \A u \in Writers : Unsynced(u)'
<1>0. t \in Threads
  BY DEF Threads
<1>1. PICK v, l : loc' = [loc EXCEPT ![t] = v] /\ Goto(t, l) /\ l = "unlock"
  BY RefusedMoves
<1>2. ~ (l \in {"segment_write", "mbptree_append", "store_value"})
  BY <1>1
<1> QED BY <1>0, <1>1, <1>2, UnsyncedMoves

LEMMA CreateDisk ==
  ASSUME LogTypeInv, OnDisk, NEW t \in Writers, create_segment(t)
  PROVE  OnDisk'
<1>0. /\ t \in Threads /\ loc \in [Threads -> Locals]
      /\ DOMAIN sgms \subseteq DOMAIN files /\ DOMAIN disk = DOMAIN files
  BY DEF LogTypeInv, LocalsOK, Threads, SgmsOK, FilesOK
<1>1. PICK b : b = loc[t].sgm
  OBVIOUS
<1>2. /\ UNCHANGED <<sgms, phase, synced>>
      /\ files' = files \/ (b \notin DOMAIN files /\ files' = With(files, b, Unsized))
      /\ disk' = [c \in DOMAIN files' |-> IF c \in DOMAIN disk THEN disk[c] ELSE Unsized]
      /\ (Goto(t, "segment_open") /\ UNCHANGED loc) \/ TryWriteReturns(t, ELFLEOP)
  BY <1>1 DEF create_segment, life
<1>3. \E v, l : loc' = [loc EXCEPT ![t] = v] /\ Goto(t, l) /\ l \in {"segment_open", "unlock"}
  <2>1. loc = [loc EXCEPT ![t] = loc[t]]
    BY <1>0
  <2> QED BY <1>2, <2>1, RefusedMoves
<1>4. \A u \in Writers : Unsynced(u)'
  <2>1. PICK v, l : loc' = [loc EXCEPT ![t] = v] /\ Goto(t, l) /\ l \in {"segment_open", "unlock"}
    BY <1>3
  <2> QED BY <1>0, <2>1, UnsyncedMoves
<1>5. ASSUME NEW c \in DOMAIN files
      PROVE  c \in DOMAIN files' /\ files'[c] = files[c] /\ disk'[c] = disk[c]
  BY <1>0, <1>2 DEF With
<1>6. ASSUME NEW c \in DOMAIN files', c \notin DOMAIN files
      PROVE  files'[c] = Unsized /\ disk'[c] = Unsized
  BY <1>0, <1>2, <1>6 DEF With
<1>7. \A c \in DOMAIN files' : Sound(disk'[c], files'[c])
  BY <1>5, <1>6, UnsizedSound DEF OnDisk
<1>8. \A a \in synced : SyncedKept(a)'
  BY <1>2, <1>5 DEF OnDisk, SyncedKept
<1>9. \A c \in DOMAIN sgms : sgms[c].from = 0 => SyncedTo(disk'[c], files'[c], sgms[c])
  BY <1>0, <1>5 DEF OnDisk
<1> QED BY <1>2, <1>4, <1>7, <1>8, <1>9 DEF OnDisk

LEMMA SegmentOpenDisk ==
  ASSUME LogTypeInv, OnDisk, NEW t \in Writers, segment_open(t)
  PROVE  OnDisk'
<1>0. /\ pc[t] = "segment_open" /\ t \in Threads /\ loc[t] \in Locals /\ WriterOK(t)
      /\ pc \in [Threads -> Labels] /\ loc \in [Threads -> Locals]
  BY DEF segment_open, At, LogTypeInv, MutexOK, LocalsOK, Threads
<1>1. PICK b, found : b = loc[t].sgm /\ found = find_w_offset_pair(files[b].buffer, files[b].index, Size)
  OBVIOUS
<1>2. b \in DOMAIN files /\ IsFile(files[b])
  BY <1>0, <1>1 DEF WriterOK, LogTypeInv, FilesOK
<1>3. /\ UNCHANGED <<disk, sgms, phase, synced>>
      /\ files' = [files EXCEPT ![b].sized = TRUE]
      /\ \/ TryWriteReturns(t, found.rc)
         \/ TryWriteReturns(t, ELMADV)
         \/ /\ found.rc = 0
            /\ loc' = [loc EXCEPT ![t].new = Opened(found.pair)]
            /\ Goto(t, "segment_write")
  BY <1>1 DEF segment_open, life
<1>4. \A u \in Writers : Unsynced(u)'
  <2>1. CASE TryWriteReturns(t, found.rc) \/ TryWriteReturns(t, ELMADV)
    BY <2>1, RefusedUnsynced
  <2>2. CASE /\ found.rc = 0
             /\ loc' = [loc EXCEPT ![t].new = Opened(found.pair)]
             /\ Goto(t, "segment_write")
    <3>1. PICK v : v = [loc[t] EXCEPT !.new = Opened(found.pair)]
      OBVIOUS
    <3>2. loc' = [loc EXCEPT ![t] = v] /\ loc'[t] = v
      BY <1>0, <2>2, <3>1
    <3>3. v.new.from = found.pair.index /\ v.new.s = found.pair
      BY <1>0, <3>1 DEF Locals, Opened
    <3>4. found.pair.index = 0 => found.pair = [index |-> 0, data |-> 0]
      <4>1. PICK f, free : f = files[b] /\ free = FreeEntries(f.buffer, f.index, Size)
        OBVIOUS
      <4>2. IsFile(f) /\ found = find_w_offset_pair(f.buffer, f.index, Size)
        BY <1>1, <1>2, <4>1
      <4>3. CASE free = {}
        <5>1. found = [rc |-> ELWOFFS, pair |-> [index |-> 0, data |-> 0]]
          BY ZenonT(60), <4>1, <4>2, <4>3, FirstFree
        <5> QED BY <5>1
      <4>4. CASE free # {}
        <5>1. found.pair = [index |-> found.pair.index, data |-> found.pair.data]
          BY <4>1, <4>2, <4>4, FirstFree
        <5>2. ASSUME found.pair.index = 0 PROVE found.pair.data = 0
          BY ZenonT(60), <4>1, <4>2, <4>4, <5>2, FirstFree
        <5> QED BY <5>1, <5>2
      <4> QED BY <4>3, <4>4
    <3>5. Unsynced(t)'
      BY <3>2, <3>3, <3>4 DEF Unsynced
    <3> QED BY <1>0, <2>2, <3>2, <3>5, UnsyncedMoves
  <2> QED BY <1>3, <2>1, <2>2
<1>5. files'[b].buffer = files[b].buffer /\ files'[b].index = files[b].index
  BY <1>2, <1>3 DEF IsFile
<1>6. /\ DOMAIN files' = DOMAIN files
      /\ \A c \in DOMAIN files : files'[c].buffer = files[c].buffer /\ files'[c].index = files[c].index
  BY <1>2, <1>3, <1>5
<1> QED BY <1>3, <1>4, <1>6, DiskStays

LEMMA AppendRefusedDisk ==
  ASSUME LogTypeInv, OnDisk, NEW t \in Writers, AppendRefused(t)
  PROVE  OnDisk'
<1>0. pc[t] = "mbptree_append" /\ t \in Threads /\ loc[t] \in Locals /\ WriterOK(t)
  BY DEF AppendRefused, At, LogTypeInv, LocalsOK, Threads
<1>1. PICK b, g : b = loc[t].sgm /\ g = loc[t].new
  OBVIOUS
<1>2. b \in DOMAIN files /\ g \in OpenSegment
  BY <1>0, <1>1 DEF WriterOK, Locals
<1>5. \A u \in Writers : Unsynced(u)'
  BY RefusedUnsynced DEF AppendRefused
<1>6. /\ UNCHANGED <<files, sgms, phase, synced>>
      /\ disk' = [disk EXCEPT ![b] = SegmentSynced(disk[b], files[b], g)]
  BY <1>1 DEF AppendRefused, life
<1> QED BY <1>2, <1>5, <1>6, DiskSynced

LEMMA AppendDisk ==
  ASSUME LogTypeInv, OnDisk, NEW t \in Writers, mbptree_append(t)
  PROVE  OnDisk'
<1>0. /\ pc[t] = "mbptree_append" /\ t \in Threads
      /\ pc \in [Threads -> Labels] /\ loc \in [Threads -> Locals]
  BY DEF mbptree_append, At, LogTypeInv, MutexOK, LocalsOK, Threads
<1>1. /\ UNCHANGED <<files, disk, sgms, phase, synced, loc>> /\ Goto(t, "store_value")
  BY DEF mbptree_append, life
<1>2. loc' = [loc EXCEPT ![t] = loc[t]]
  BY <1>0, <1>1
<1>3. Unsynced(t)'
  BY <1>0, <1>1 DEF Unsynced, OnDisk
<1>4. \A u \in Writers : Unsynced(u)'
  BY <1>0, <1>1, <1>2, <1>3, UnsyncedMoves
<1> QED BY <1>1, <1>4, DiskStays

LEMMA StoreValueDisk ==
  ASSUME LogTypeInv, StoreInv, OnDisk, NEW t \in Writers, StoreValue(t)
  PROVE  OnDisk'
<1>0. /\ pc[t] = "store_value" /\ t \in Threads /\ loc[t] \in Locals /\ WriterOK(t) /\ Adding(t)
      /\ pc \in [Threads -> Labels] /\ loc \in [Threads -> Locals]
      /\ DOMAIN sgms \subseteq DOMAIN files /\ Unsynced(t)
  BY DEF StoreValue, At, LogTypeInv, MutexOK, LocalsOK, Threads, SgmsOK, OnDisk, StoreInv
<1>1. PICK b, g : b = loc[t].sgm /\ g = loc[t].new
  OBVIOUS
<1>2. /\ UNCHANGED <<files, disk, phase, synced, loc>> /\ Goto(t, "unlock")
      /\ sgms' = With(sgms, b, g)
  BY <1>1 DEF StoreValue, life
<1>3. \A u \in Writers : Unsynced(u)'
  <2>1. PICK l, v : l = "unlock" /\ v = loc[t]
    OBVIOUS
  <2>2. loc' = [loc EXCEPT ![t] = v] /\ Goto(t, l)
        /\ ~ (l \in {"segment_write", "mbptree_append", "store_value"})
    BY <1>0, <1>2, <2>1
  <2> QED BY <1>0, <2>2, UnsyncedMoves
<1>4. b \in DOMAIN files /\ IsFile(files[b]) /\ g \in OpenSegment /\ loc[t].fresh
  BY <1>0, <1>1 DEF WriterOK, Locals, Adding, LogTypeInv, FilesOK
<1>5. DOMAIN sgms' = DOMAIN sgms \cup {b} /\ sgms'[b] = g /\ \A c \in DOMAIN sgms : c # b => sgms'[c] = sgms[c]
  BY <1>2 DEF With
<1>6. g.from = 0 => SyncedTo(disk[b], files[b], g)
  <2> SUFFICES ASSUME g.from = 0 PROVE SyncedTo(disk[b], files[b], g)
    OBVIOUS
  <2>1. g.s.index = 0 /\ g.s.data = 0 /\ g.w.index \in Nat /\ g.w.data \in Nat
    BY <1>0, <1>1, <1>4 DEF Unsynced, OpenSegment, Pair
  <2>2. \A j \in Entry : files[b].index[j] \in Nat /\ j \in Nat
    BY <1>4, Entries DEF IsFile
  <2> QED BY <2>1, <2>2 DEF SyncedTo
<1>7. ASSUME NEW c \in DOMAIN sgms', sgms'[c].from = 0 PROVE SyncedTo(disk[c], files[c], sgms'[c])
  <2>1. CASE c = b
    BY <1>5, <1>6, <1>7, <2>1
  <2>2. CASE c # b
    BY <1>5, <1>7, <2>2 DEF OnDisk
  <2> QED BY <2>1, <2>2
<1>8. \A a \in synced : SyncedKept(a)'
  BY <1>2, <1>5 DEF OnDisk, SyncedKept
<1> QED BY <1>2, <1>3, <1>7, <1>8 DEF OnDisk

LEMMA SegmentWriteDisk ==
  ASSUME LogTypeInv, StoreInv, OnDisk, NEW t \in Writers, segment_write(t)
  PROVE  OnDisk'
<1>0. /\ pc[t] = "segment_write" /\ t \in Threads /\ loc[t] \in Locals
      /\ pc \in [Threads -> Labels] /\ loc \in [Threads -> Locals]
      /\ loc[t].buf \in Payloads
      /\ DOMAIN sgms \subseteq DOMAIN files /\ DOMAIN disk = DOMAIN files
  BY DEF segment_write, At, LogTypeInv, MutexOK, LocalsOK, Threads, WriterOK, SgmsOK, FilesOK
<1>1. PICK b, p : b = loc[t].sgm /\ p = loc[t].buf
  OBVIOUS
<1>2. PICK sgm : sgm = IF loc[t].fresh THEN loc[t].new ELSE sgms[b]
  OBVIOUS
<1>3. PICK f, w, d : f = files[b] /\ w = sgm.w /\ d = disk[b]
  OBVIOUS
<1>4. PICK res : res = SegmentWrite(f, w, p)
  OBVIOUS
<1>5. /\ b \in DOMAIN files /\ b \in Nat /\ IsFile(f) /\ w \in Pair /\ w.index <= MappedEntries(Size)
      /\ Holds(b, f, w, written) /\ p \in Payloads /\ sgm \in OpenSegment
      /\ ~ loc[t].fresh => b \in DOMAIN sgms
      /\ loc[t].fresh /\ ~ EosAt(f, w) => b \notin DOMAIN sgms
  BY <1>0, <1>1, <1>2, <1>3, WriteSite DEF OpenSegment
<1>6. IsFile(d) /\ Sound(d, f)
  BY <1>3, <1>5 DEF LogTypeInv, FilesOK, OnDisk
<1>7. CASE Crashes
  <2>1. UNCHANGED <<files, disk, sgms, phase, synced, pc, loc>>
    BY <1>7 DEF Crashes, held, life
  <2>2. \A u \in Writers : Unsynced(u)'
    BY <2>1 DEF OnDisk, Unsynced
  <2> QED BY <2>1, <2>2, DiskStays
<1>8. ASSUME Outcome(t, b, sgm, res) PROVE OnDisk'
  <2>0. /\ UNCHANGED <<phase, synced>>
        /\ files' = [files EXCEPT ![b] = res.file]
        /\ sgms' = (IF loc[t].fresh THEN sgms ELSE [sgms EXCEPT ![b].w = res.w])
        /\ loc' = [loc EXCEPT ![t] = loc'[t]]
        /\ res.rc = ELEOS \/ w.index \in Entry
        /\ disk' = disk \/ disk' = [disk EXCEPT ![b] = SegmentSynced(disk[b], res.file, sgm)]
    BY <1>3, <1>8 DEF Outcome
  <2>1. /\ DOMAIN files' = DOMAIN files /\ files'[b] = res.file
        /\ \A c \in DOMAIN files : c # b => files'[c] = files[c] /\ disk'[c] = disk[c]
        /\ DOMAIN sgms' = DOMAIN sgms
        /\ \A c \in DOMAIN sgms : c # b => sgms'[c] = sgms[c]
        /\ ~ loc[t].fresh => sgms'[b] = [sgms[b] EXCEPT !.w = res.w]
        /\ loc[t].fresh => sgms' = sgms
    BY <1>0, <1>5, <2>0
  <2>2. /\ Sound(d, res.file)
        /\ \A j \in Entry : j < w.index /\ AtDisk(d, f, j) => AtDisk(d, res.file, j)
        /\ \A g \in OpenSegment : g.w = w /\ SyncedTo(d, f, g) =>
             SyncedTo(d, res.file, [g EXCEPT !.w = res.w])
    BY <1>4, <1>5, <1>6, <2>0, WriteKeeps
  <2>3. IsFile(res.file)
    BY <1>4, <1>5, <2>0, SegmentWriteType
  <2>4. /\ Sound(disk'[b], res.file)
        /\ \A j \in Entry : AtDisk(d, res.file, j) => AtDisk(disk'[b], res.file, j)
    <3>1. CASE disk' = disk
      BY <1>3, <2>2, <3>1
    <3>2. CASE disk' = [disk EXCEPT ![b] = SegmentSynced(disk[b], res.file, sgm)]
      <4>1. disk'[b] = SegmentSynced(d, res.file, sgm)
        BY <1>0, <1>3, <1>5, <3>2
      <4>2. PICK g, e : g = res.file /\ e = SegmentSynced(d, g, sgm)
        OBVIOUS
      <4>3. Sound(e, g) /\ \A j \in Entry : AtDisk(d, g, j) => AtDisk(e, g, j)
        BY <1>5, <1>6, <2>2, <2>3, <4>2, SyncKeeps
      <4> QED BY <4>1, <4>2, <4>3
    <3> QED BY <2>0, <3>1, <3>2
  <2>5. \A i \in Entry : \A q : Present(f, i, q) => Present(res.file, i, q) /\ i < w.index
    <3>1. CASE EosAt(f, w)
      <4>1. res.file = f
        BY <1>4, <3>1, EndedStays
      <4> QED BY <1>5, <4>1, HoldsFacts
    <3>2. CASE ~ EosAt(f, w) /\ ~ HasRoom(Size, w.data, p)
      BY <1>4, <1>5, <3>2, EndSegment, HoldsFacts
    <3>3. CASE ~ EosAt(f, w) /\ HasRoom(Size, w.data, p)
      <4>1. res.rc = SizeOf[p]
        BY <1>4, <3>3 DEF SegmentWrite
      <4>2. w.index \in Entry
        BY <1>5, <2>0, <4>1, SizeOfType DEF ELEOS
      <4> QED BY <1>4, <1>5, <3>3, <4>2, WriteFrame, HoldsFacts
    <3> QED BY <3>1, <3>2, <3>3
  <2>6. ASSUME NEW a \in synced PROVE SyncedKept(a)'
    <3>1. PICK c \in DOMAIN files : /\ c <= a[1] /\ Present(files[c], a[1] - c, a[2])
                                    /\ \A j \in Entry : j <= a[1] - c => AtDisk(disk[c], files[c], j)
                                    /\ phase = "open" => c \in DOMAIN sgms
      BY DEF OnDisk, SyncedKept
    <3>2. CASE c # b
      BY <2>0, <2>1, <3>1, <3>2 DEF SyncedKept
    <3>3. CASE c = b
      <4>1. a[1] - b \in Entry /\ Present(f, a[1] - b, a[2])
        BY <1>3, <3>1, <3>3 DEF Present
      <4>2. Present(res.file, a[1] - b, a[2]) /\ a[1] - b < w.index
        BY <2>5, <4>1
      <4>3. ASSUME NEW j \in Entry, j <= a[1] - b PROVE AtDisk(disk'[b], res.file, j)
        <5>1. j \in Nat /\ a[1] - b \in Nat /\ w.index \in Nat
          BY <1>5, <4>1, Entries DEF Pair
        <5>2. j < w.index /\ AtDisk(d, f, j)
          BY <1>3, <3>1, <3>3, <4>2, <4>3, <5>1
        <5> QED BY <2>2, <2>4, <5>2
      <4> QED BY <2>0, <2>1, <3>1, <3>3, <4>2, <4>3 DEF SyncedKept
    <3> QED BY <3>2, <3>3
  <2>7. ASSUME NEW c \in DOMAIN sgms, sgms'[c].from = 0 PROVE SyncedTo(disk'[c], files'[c], sgms'[c])
    <3>0. c \in DOMAIN files /\ sgms[c] \in OpenSegment
      BY <1>0 DEF LogTypeInv, SgmsOK
    <3>1. CASE c # b
      BY <2>1, <2>7, <3>0, <3>1 DEF OnDisk
    <3>2. CASE c = b /\ ~ loc[t].fresh
      <4>1. sgm = sgms[b] /\ sgms'[b] = [sgm EXCEPT !.w = res.w]
        BY <1>2, <2>1, <3>2
      <4>2. sgm.from = 0
        BY <1>5, <2>7, <3>2, <4>1 DEF OpenSegment
      <4>3. SyncedTo(d, f, sgm)
        BY <1>3, <2>7, <3>2, <4>1, <4>2 DEF OnDisk
      <4>4. SyncedTo(d, res.file, sgms'[b])
        BY <1>3, <1>5, <2>2, <4>1, <4>3
      <4>5. SyncedTo(disk'[b], res.file, sgms'[b])
        BY <2>4, <4>4 DEF SyncedTo
      <4> QED BY <2>1, <3>2, <4>5
    \* A segment that is open and made anew has ended, and nothing is stored.
    <3>3. CASE c = b /\ loc[t].fresh
      <4>1. EosAt(f, w)
        BY <1>5, <2>7, <3>3
      <4>2. res.file = f
        BY <1>4, <4>1, EndedStays
      <4>3. SyncedTo(d, f, sgms[b])
        BY <1>3, <2>1, <2>7, <3>3 DEF OnDisk
      <4>4. SyncedTo(disk'[b], f, sgms[b])
        BY <2>4, <4>2, <4>3 DEF SyncedTo
      <4> QED BY <2>1, <3>3, <4>2, <4>4
    <3> QED BY <3>1, <3>2, <3>3
  <2>8. \A c \in DOMAIN files : Sound(disk'[c], files'[c])
    BY <2>1, <2>4 DEF OnDisk
  <2>9. \A u \in Writers : Unsynced(u)'
    <3>1. PICK l, v : l = pc'[t] /\ v = loc'[t]
      OBVIOUS
    <3>2. Goto(t, l) /\ loc' = [loc EXCEPT ![t] = v]
      <4>1. \E m : Goto(t, m)
        BY <1>8 DEF Outcome, TryWriteReturns
      <4> QED BY <1>0, <2>0, <3>1, <4>1 DEF Goto
    <3>3. l \in {"segment_write", "mbptree_append", "store_value"} =>
            /\ loc[t].fresh /\ v.fresh = loc[t].fresh /\ v.new = [loc[t].new EXCEPT !.w = res.w]
      BY <1>0, <1>8, <3>1 DEF Outcome, Goto, TryWriteReturns
    <3>4. loc[t].new \in OpenSegment
      BY <1>0 DEF Locals
    <3>5. l \in {"segment_write", "mbptree_append", "store_value"} =>
            v.new.s = loc[t].new.s /\ v.new.from = loc[t].new.from
      BY <3>3, <3>4 DEF OpenSegment
    <3>6. Unsynced(t)
      BY DEF OnDisk
    <3>7. l \in {"segment_write", "mbptree_append", "store_value"} => Unsynced(t)'
      BY <1>0, <3>1, <3>3, <3>5, <3>6 DEF Unsynced
    <3> QED BY <1>0, <3>2, <3>7, UnsyncedMoves
  <2> QED BY <2>0, <2>1, <2>6, <2>7, <2>8, <2>9 DEF OnDisk
<1> QED BY <1>1, <1>2, <1>3, <1>4, <1>7, <1>8, WriteOutcome

LEMMA UnlockDisk ==
  ASSUME LogTypeInv, OnDisk, NEW t \in Writers, WriteUnlock(t)
  PROVE  OnDisk'
<1>0. t \in Threads
  BY DEF Threads
<1>1. PICK v, l : loc' = [loc EXCEPT ![t] = v] /\ Goto(t, l) /\ l = "idle"
  BY DEF WriteUnlock
<1>2. ~ (l \in {"segment_write", "mbptree_append", "store_value"})
  BY <1>1
<1>3. \A u \in Writers : Unsynced(u)'
  BY <1>0, <1>1, <1>2, UnsyncedMoves
<1> QED BY <1>3, DiskStays DEF WriteUnlock, held, life

LEMMA WriteDisk ==
  ASSUME LogTypeInv, OnDisk, NEW t \in Writers, NEW p \in Payloads, mqlog_write(t, p)
  PROVE  OnDisk'
<1>0. t \in Threads
  BY DEF Threads
<1>1. \A u \in Writers : Unsynced(u)'
  <2>1. CASE UNCHANGED <<pc, loc>>
    BY <2>1 DEF OnDisk, Unsynced
  <2>2. CASE /\ Goto(t, "last_value") /\ loc' = [loc EXCEPT ![t] = [Idle(0) EXCEPT !.buf = p]]
    <3>1. PICK v, l : loc' = [loc EXCEPT ![t] = v] /\ Goto(t, l) /\ l = "last_value"
      BY <2>2
    <3>2. ~ (l \in {"segment_write", "mbptree_append", "store_value"})
      BY <3>1
    <3> QED BY <1>0, <3>1, <3>2, UnsyncedMoves
  <2> QED BY <2>1, <2>2 DEF mqlog_write
<1> QED BY <1>1, DiskStays DEF mqlog_write, held, life

(* A consumer, or a thread that syncs, stores nothing that counts here. *)
LEMMA OtherUnsynced ==
  ASSUME LogTypeInv, OnDisk, NEW t \in Threads, t \notin Writers,
         NEW l, Goto(t, l), NEW v, loc' = [loc EXCEPT ![t] = v]
  PROVE  \A u \in Writers : Unsynced(u)'
BY UnsyncedMoves

LEMMA ReaderDisk ==
  ASSUME LogTypeInv, OnDisk, NEW t \in Readers,
         ReaderStep(t) \/ \E off \in 0 .. MaxWrites : mqlog_read(t, off)
  PROVE  OnDisk'
<1>0. /\ t \in Threads /\ t \notin Writers /\ pc[t] = pc[t]
      /\ pc \in [Threads -> Labels] /\ loc \in [Threads -> Locals]
  BY LogAssumption DEF Threads, LogTypeInv, MutexOK, LocalsOK
<1>1. pc = [pc EXCEPT ![t] = pc[t]] /\ \A s : [loc EXCEPT ![t].sgm = s] = [loc EXCEPT ![t] = [loc[t] EXCEPT !.sgm = s]]
  BY <1>0
<1>2. \E l, v : Goto(t, l) /\ loc' = [loc EXCEPT ![t] = v]
  <2>1. CASE \E off \in 0 .. MaxWrites : mqlog_read(t, off)
    BY <1>1, <2>1 DEF mqlog_read, Goto
  <2>2. CASE leaf_floor(t)
    <3>1. CASE \E s : loc' = [loc EXCEPT ![t].sgm = s] /\ Goto(t, "segment_read")
      BY <1>1, <3>1
    <3>2. CASE \E rc : ReadReturns(t, rc, NoPayload)
      BY <3>2 DEF ReadReturns
    <3> QED BY <2>2, <3>1, <3>2 DEF leaf_floor, NothingFound
  <2>3. CASE segment_read(t)
    <3>1. \E rc, p : ReadReturns(t, rc, p)
      BY <2>3 DEF segment_read
    <3> QED BY <3>1 DEF ReadReturns
  <2> QED BY <2>1, <2>2, <2>3 DEF ReaderStep
<1>3. \A u \in Writers : Unsynced(u)'
  BY <1>0, <1>2, OtherUnsynced
<1>4. UNCHANGED <<files, disk, sgms, phase, synced>>
  BY DEF ReaderStep, leaf_floor, segment_read, mqlog_read, held, life
<1> QED BY <1>3, <1>4, DiskStays

LEMMA SyncDisk ==
  ASSUME LogTypeInv, OnDisk, NEW t \in Syncers, mqlog_sync(t)
  PROVE  OnDisk'
<1>0. t \in Threads /\ t \notin Writers
  BY LogAssumption DEF Threads
<1>1. \E l, v : Goto(t, l) /\ loc' = [loc EXCEPT ![t] = v]
  BY DEF mqlog_sync
<1>2. \A u \in Writers : Unsynced(u)'
  BY <1>0, <1>1, OtherUnsynced
<1> QED BY <1>2, DiskStays DEF mqlog_sync, held, life

(* What a sync of the segment at b promises is in that segment, below its  *)
(* write offset.                                                           *)
LEMMA SyncedHere ==
  ASSUME LogTypeInv, StoreInv, phase = "open", NEW b \in DOMAIN sgms, NEW a \in SyncedIn(b)
  PROVE  /\ b \in DOMAIN files /\ b <= a[1] /\ Present(files[b], a[1] - b, a[2])
         /\ a[1] - b < sgms[b].w.index /\ sgms[b].from = 0
<1>0. /\ DOMAIN files \subseteq Nat /\ DOMAIN sgms \subseteq DOMAIN files /\ b \in Nat
      /\ a \in acked /\ sgms[b].from = 0 /\ a[1] \in b .. b + sgms[b].w.index - 1
  BY DEF LogTypeInv, FilesOK, SgmsOK, SyncedIn
<1>1. a[1] \in Nat
  BY <1>0 DEF LogTypeInv, HistoryOK, Frame
<1>2. PICK c \in DOMAIN files : c <= a[1] /\ Present(files[c], a[1] - c, a[2]) /\ c \in DOMAIN sgms
  BY <1>0 DEF StoreInv, AckedKept
<1>3. ASSUME NEW x \in DOMAIN sgms
      PROVE  /\ Ends(x, sgms[x].w) /\ Holds(x, files[x], sgms[x].w, written)
             /\ sgms[x].w \in Pair /\ sgms[x].w.index \in Nat /\ x \in Nat /\ IsFile(files[x])
  <2>1. Ends(x, sgms[x].w) /\ Holds(x, files[x], sgms[x].w, written)
    BY <1>0 DEF StoreInv, LaidOut
  <2>2. sgms[x].w \in Pair /\ x \in Nat /\ IsFile(files[x])
    BY <1>0 DEF LogTypeInv, SgmsOK, FilesOK, OpenSegment
  <2> QED BY <2>1, <2>2 DEF Pair
<1>4. a[1] - c \in Entry /\ a[1] - c < sgms[c].w.index
  <2>1. PICK f, i, w, p : f = files[c] /\ i = a[1] - c /\ w = sgms[c].w /\ p = a[2]
    OBVIOUS
  <2>2. i \in Entry /\ Present(f, i, p)
    BY <1>2, <2>1 DEF Present
  <2>3. i < w.index
    BY <1>2, <1>3, <2>1, <2>2, HoldsFacts
  <2> QED BY <2>1, <2>2, <2>3
<1>5. c = b
  <2>1. ~ (c < b)
    <3> SUFFICES ASSUME c < b PROVE FALSE
      OBVIOUS
    <3>1. b >= c + sgms[c].w.index
      BY <1>0, <1>2, <1>3 DEF Ends
    <3> QED BY <1>0, <1>1, <1>2, <1>3, <1>4, <3>1
  <2>2. ~ (c > b)
    <3> SUFFICES ASSUME c > b PROVE FALSE
      OBVIOUS
    <3>1. c >= b + sgms[b].w.index
      BY <1>0, <1>2, <1>3 DEF Ends
    <3> QED BY <1>0, <1>1, <1>2, <1>3, <3>1
  <2> QED BY <1>0, <1>2, <1>3, <2>1, <2>2
<1> QED BY <1>0, <1>2, <1>4, <1>5

LEMMA SegmentSyncDisk ==
  ASSUME LogTypeInv, StoreInv, OnDisk, NEW t \in Syncers, segment_sync(t)
  PROVE  OnDisk'
<1>0. /\ t \in Threads /\ t \notin Writers /\ pc[t] = "segment_sync" /\ phase = "open"
      /\ DOMAIN sgms \subseteq DOMAIN files /\ DOMAIN disk = DOMAIN files
      /\ loc[t].off \in DOMAIN tree
  BY LogAssumption DEF Threads, segment_sync, At, LogTypeInv, SgmsOK, FilesOK, LocalsOK
<1>1. CASE Crashes
  <2>1. UNCHANGED <<files, disk, sgms, phase, synced, pc, loc>>
    BY <1>1 DEF Crashes, held, life
  <2>2. \A u \in Writers : Unsynced(u)'
    BY <2>1 DEF OnDisk, Unsynced
  <2> QED BY <2>1, <2>2, DiskStays
<1>2. ASSUME ~ Crashes PROVE OnDisk'
  <2>1. PICK b : b = tree[loc[t].off].sgm
    OBVIOUS
  <2>2. /\ UNCHANGED <<files, phase>> /\ b # NULL
        /\ sgms' = [sgms EXCEPT ![b].s = sgms[b].w]
        /\ disk' = [disk EXCEPT ![b] = SegmentSynced(disk[b], files[b], sgms[b])]
        /\ synced' = synced \cup SyncedIn(b)
        /\ loc' = [loc EXCEPT ![t] = Idle(0)] /\ Goto(t, "idle")
    BY <1>2, <2>1 DEF segment_sync, life
  <2>3. b \in DOMAIN sgms /\ b \in DOMAIN files /\ sgms[b] \in OpenSegment
    BY <1>0, <2>1, <2>2 DEF LogTypeInv, TreeOK, SgmsOK
  <2>4. PICK d, f, g, e : d = disk[b] /\ f = files[b] /\ g = sgms[b] /\ e = SegmentSynced(d, f, g)
    OBVIOUS
  <2>5. /\ Sound(e, f)
        /\ \A j \in Entry : AtDisk(d, f, j) => AtDisk(e, f, j)
        /\ SyncedTo(d, f, g) => \A j \in Entry : j < g.w.index => AtDisk(e, f, j)
    <3>1. IsFile(d) /\ IsFile(f) /\ Sound(d, f)
      BY <2>3, <2>4 DEF LogTypeInv, FilesOK, OnDisk
    <3> QED BY <2>3, <2>4, <3>1, SyncKeeps
  <2>6. /\ disk'[b] = e /\ DOMAIN sgms' = DOMAIN sgms
        /\ \A c \in DOMAIN files : c # b => disk'[c] = disk[c]
        /\ \A c \in DOMAIN sgms : c # b => sgms'[c] = sgms[c]
        /\ sgms'[b] = [g EXCEPT !.s = g.w]
    BY <1>0, <2>2, <2>3, <2>4
  <2>7. ASSUME NEW a \in synced' PROVE SyncedKept(a)'
    <3>1. CASE a \in synced
      <4>1. PICK c \in DOMAIN files : /\ c <= a[1] /\ Present(files[c], a[1] - c, a[2])
                                      /\ \A j \in Entry : j <= a[1] - c => AtDisk(disk[c], files[c], j)
                                      /\ phase = "open" => c \in DOMAIN sgms
        BY <3>1 DEF OnDisk, SyncedKept
      <4>2. \A j \in Entry : j <= a[1] - c => AtDisk(disk'[c], files[c], j)
        BY <2>4, <2>5, <2>6, <4>1
      <4> QED BY <2>2, <2>6, <4>1, <4>2 DEF SyncedKept
    <3>2. CASE a \in SyncedIn(b)
      <4>1. /\ b <= a[1] /\ Present(files[b], a[1] - b, a[2])
            /\ a[1] - b < g.w.index /\ g.from = 0
        BY <1>0, <2>3, <2>4, <3>2, SyncedHere
      <4>2. SyncedTo(d, f, g)
        BY <2>3, <2>4, <4>1 DEF OnDisk
      <4>3. ASSUME NEW j \in Entry, j <= a[1] - b PROVE AtDisk(disk'[b], files[b], j)
        <5>1. j \in Nat /\ a[1] - b \in Nat /\ g.w.index \in Nat
          BY <2>3, <2>4, <4>1, Entries DEF OpenSegment, Pair, Present
        <5>2. j < g.w.index
          BY <4>1, <4>3, <5>1
        <5> QED BY <2>4, <2>5, <2>6, <4>2, <5>2
      <4> QED BY <2>2, <2>3, <2>6, <4>1, <4>3 DEF SyncedKept
    <3> QED BY <2>2, <3>1, <3>2
  <2>8. ASSUME NEW c \in DOMAIN sgms, sgms'[c].from = 0 PROVE SyncedTo(disk'[c], files[c], sgms'[c])
    <3>1. CASE c # b
      BY <1>0, <2>6, <2>8, <3>1 DEF OnDisk
    <3>2. CASE c = b
      <4>1. g.w.index \in Nat /\ g.w.data \in Nat
        BY <2>3, <2>4 DEF OpenSegment, Pair
      <4>2. sgms'[b].s = g.w /\ sgms'[b].w = g.w /\ sgms'[b].from = g.from
        BY <2>3, <2>4, <2>6 DEF OpenSegment
      <4>3. SyncedTo(d, f, g)
        BY <2>3, <2>4, <2>8, <3>2, <4>2 DEF OnDisk
      <4>4. \A j \in Entry : j < g.w.index => AtDisk(e, f, j)
        BY <2>5, <4>3
      <4>5. \A j \in Entry : j \in Nat
        BY Entries
      <4>6. PICK h : h = sgms'[b]
        OBVIOUS
      <4>7. h.s = g.w /\ h.w = g.w
        BY <4>2, <4>6
      <4>8. \A j \in Entry : ~ (g.w.index <= j /\ j < g.w.index)
        BY <4>1, <4>5
      <4>9. SyncedTo(e, f, h)
        BY <4>1, <4>4, <4>7, <4>8 DEF SyncedTo
      <4> QED BY <2>4, <2>6, <3>2, <4>6, <4>9
    <3> QED BY <3>1, <3>2
  <2>9. \A c \in DOMAIN files : Sound(disk'[c], files[c])
    BY <2>4, <2>5, <2>6 DEF OnDisk
  <2>10. \A u \in Writers : Unsynced(u)'
    BY <1>0, <2>2, OtherUnsynced
  <2> QED BY <2>2, <2>6, <2>7, <2>8, <2>9, <2>10 DEF OnDisk
<1> QED BY <1>1, <1>2

-----------------------------------------------------------------------------
(* Stopping and starting. *)

LEMMA CloseDisk ==
  ASSUME LogTypeInv, StoreInv, OnDisk, mqlog_close
  PROVE  OnDisk'
<1>0. /\ Writers \subseteq Threads /\ DOMAIN sgms \subseteq DOMAIN files /\ DOMAIN disk = DOMAIN files
      /\ UNCHANGED files /\ phase = "open" /\ phase' = "stopped" /\ DOMAIN sgms' = {}
      /\ pc' = [t \in Threads |-> "idle"]
      /\ disk' = [b \in DOMAIN disk |->
                    IF b \in DOMAIN sgms THEN SegmentSynced(disk[b], files[b], sgms[b]) ELSE disk[b]]
      /\ synced' = synced \cup UNION {SyncedIn(b) : b \in DOMAIN sgms}
  BY DEF mqlog_close, Stop, Threads, LogTypeInv, SgmsOK, FilesOK
<1>1. ASSUME NEW b \in DOMAIN files
      PROVE  /\ Sound(disk'[b], files[b])
             /\ \A j \in Entry : AtDisk(disk[b], files[b], j) => AtDisk(disk'[b], files[b], j)
             /\ b \in DOMAIN sgms /\ SyncedTo(disk[b], files[b], sgms[b]) =>
                  \A j \in Entry : j < sgms[b].w.index => AtDisk(disk'[b], files[b], j)
  <2>1. PICK d, f, g : d = disk[b] /\ f = files[b] /\ g = sgms[b]
    OBVIOUS
  <2>2. IsFile(d) /\ IsFile(f) /\ Sound(d, f) /\ (b \in DOMAIN sgms => g \in OpenSegment)
    BY <2>1 DEF LogTypeInv, FilesOK, SgmsOK, OnDisk
  <2>3. CASE b \in DOMAIN sgms
    <3>1. PICK e : e = SegmentSynced(d, f, g)
      OBVIOUS
    <3>2. disk'[b] = e
      BY <1>0, <2>1, <2>3, <3>1
    <3>3. /\ Sound(e, f)
          /\ \A j \in Entry : AtDisk(d, f, j) => AtDisk(e, f, j)
          /\ SyncedTo(d, f, g) => \A j \in Entry : j < g.w.index => AtDisk(e, f, j)
      BY <2>2, <2>3, <3>1, SyncKeeps
    <3> QED BY <2>1, <3>2, <3>3
  <2>4. CASE b \notin DOMAIN sgms
    BY <1>0, <2>1, <2>2, <2>4
  <2> QED BY <2>3, <2>4
<1>2. ASSUME NEW a \in synced' PROVE SyncedKept(a)'
  <2>1. CASE a \in synced
    <3>1. PICK c \in DOMAIN files : /\ c <= a[1] /\ Present(files[c], a[1] - c, a[2])
                                    /\ \A j \in Entry : j <= a[1] - c => AtDisk(disk[c], files[c], j)
      BY <2>1 DEF OnDisk, SyncedKept
    <3> QED BY <1>0, <1>1, <3>1 DEF SyncedKept
  <2>2. CASE \E b \in DOMAIN sgms : a \in SyncedIn(b)
    <3>1. PICK b \in DOMAIN sgms : a \in SyncedIn(b)
      BY <2>2
    <3>2. /\ b \in DOMAIN files /\ b <= a[1] /\ Present(files[b], a[1] - b, a[2])
          /\ a[1] - b < sgms[b].w.index /\ sgms[b].from = 0
      BY <1>0, <3>1, SyncedHere
    <3>3. \A j \in Entry : j < sgms[b].w.index => AtDisk(disk'[b], files[b], j)
      BY <1>1, <3>2 DEF OnDisk
    <3>4. sgms[b].w.index \in Nat /\ a[1] - b \in Nat /\ \A j \in Entry : j \in Nat
      BY <3>2, Entries DEF LogTypeInv, SgmsOK, OpenSegment, Pair, Present
    <3>5. \A j \in Entry : j <= a[1] - b => AtDisk(disk'[b], files[b], j)
      BY <3>2, <3>3, <3>4
    <3> QED BY <1>0, <3>2, <3>5 DEF SyncedKept
  <2> QED BY <1>0, <2>1, <2>2
<1>3. \A t \in Writers : Unsynced(t)'
  BY <1>0 DEF Unsynced
<1> QED BY <1>0, <1>1, <1>2, <1>3 DEF OnDisk

LEMMA CrashDisk ==
  ASSUME LogTypeInv, OnDisk, Crash
  PROVE  OnDisk'
<1>0. /\ Writers \subseteq Threads
      /\ UNCHANGED <<files, disk, synced>> /\ phase' = "stopped" /\ DOMAIN sgms' = {}
      /\ pc' = [t \in Threads |-> "idle"]
  BY DEF Crash, Stop, Threads
<1>1. \A a \in synced : SyncedKept(a)'
  BY <1>0 DEF OnDisk, SyncedKept
<1>2. \A t \in Writers : Unsynced(t)'
  BY <1>0 DEF Unsynced
<1> QED BY <1>0, <1>1, <1>2 DEF OnDisk

LEMMA OpenDisk ==
  ASSUME LogTypeInv, OnDisk, NEW ord \in SetToSeqs(DOMAIN files), mqlog_open(ord)
  PROVE  OnDisk'
<1>0. /\ UNCHANGED <<files, disk, pc, loc, synced>> /\ phase # "open"
      /\ \A u \in Writers : Unsynced(u)'
  BY DEF mqlog_open, OnDisk, Unsynced
<1>1. CASE phase' = "failed" /\ UNCHANGED <<tree, sgms>>
  <2>1. \A a \in synced : SyncedKept(a)'
    BY <1>0, <1>1 DEF OnDisk, SyncedKept
  <2> QED BY <1>0, <1>1, <2>1 DEF OnDisk
<1>2. CASE /\ phase' = "open"
           /\ sgms' = [b \in DOMAIN files |->
                         Opened(find_w_offset_pair(files[b].buffer, files[b].index, Size).pair)]
  <2>1. \A a \in synced : SyncedKept(a)'
    BY <1>0, <1>2 DEF OnDisk, SyncedKept
  <2>2. ASSUME NEW b \in DOMAIN files, sgms'[b].from = 0
        PROVE  SyncedTo(disk[b], files[b], sgms'[b])
    <3>1. PICK f, found, free : /\ f = files[b] /\ found = find_w_offset_pair(f.buffer, f.index, Size)
                                /\ free = FreeEntries(f.buffer, f.index, Size)
      OBVIOUS
    <3>2. IsFile(f) /\ \A j \in Entry : f.index[j] \in Nat /\ j \in Nat
      BY <3>1, Entries DEF LogTypeInv, FilesOK, IsFile
    <3>3. sgms'[b] = Opened(found.pair)
      BY <1>2, <3>1
    <3>4. found.pair.index = 0
      BY <2>2, <3>3 DEF Opened
    <3>5. found.pair.data = 0
      <4>1. CASE free = {}
        <5>1. found = [rc |-> ELWOFFS, pair |-> [index |-> 0, data |-> 0]]
          BY ZenonT(60), <3>1, <3>2, <4>1, FirstFree
        <5> QED BY <5>1
      <4>2. CASE free # {}
        BY ZenonT(60), <3>1, <3>2, <3>4, <4>2, FirstFree
      <4> QED BY <4>1, <4>2
    <3>6. sgms'[b].s = found.pair /\ sgms'[b].w = found.pair
      BY <3>3 DEF Opened
    <3> QED BY <3>1, <3>2, <3>4, <3>5, <3>6 DEF SyncedTo
  <2> QED BY <1>0, <1>2, <2>1, <2>2 DEF OnDisk
<1> QED BY <1>1, <1>2 DEF mqlog_open

(* An entry in use on disk leads to the frame that it leads to in the      *)
(* files, if the frame is there.                                           *)
LEMMA OlderFrame ==
  ASSUME NEW b \in Nat, NEW f, IsFile(f), NEW d, IsFile(d), NEW n \in Nat, NEW x \in Nat, NEW hist,
         Chain(b, f, n, x, hist), Sound(d, f), NEW i \in Entry, Ready(d, d.index[i]),
         d.index[i] # 0 \/ i = 0, d.index[0] = 0
  PROVE  /\ i < n /\ d.index[i] = f.index[i] /\ d.index[i] \in Nat
         /\ HeaderAt(d.buffer, d.index[i]) = HeaderAt(f.buffer, f.index[i])
         /\ \E p \in Payloads : /\ Present(d, i, p) /\ Present(f, i, p) /\ <<b + i, p>> \in hist
                                /\ HeaderAt(d.buffer, d.index[i]).size = FrameSize(p)
<1>0. d.index \in [Entry -> Nat] /\ f.index \in [Entry -> Nat] /\ i \in Nat
  BY Entries DEF IsFile
<1>1. d.index[i] \in Nat /\ HeaderAt(d.buffer, d.index[i]) = HeaderAt(f.buffer, d.index[i])
  BY <1>0 DEF Sound, Older
<1>2. Ready(f, d.index[i])
  BY <1>1 DEF Ready
<1>3. i < n /\ d.index[i] = f.index[i]
  <2>1. CASE i = 0
    <3>1. n # 0
      <4> SUFFICES ASSUME n = 0 PROVE FALSE
        OBVIOUS
      <4>1. HeaderAt(f.buffer, 0) \in {ZeroHeader, EosHeader}
        BY DEF Chain
      <4> QED BY <1>2, <2>1, <4>1 DEF Ready, ZeroHeader, EosHeader
    <3>2. f.index[0] = 0
      BY <3>1 DEF Chain
    <3> QED BY <2>1, <3>1, <3>2
  <2>2. CASE i # 0
    <3>1. d.index[i] = f.index[i] /\ f.index[i] # 0
      BY <2>2 DEF Sound, Older
    <3>2. i < n
      BY <1>0, <3>1 DEF Chain
    <3> QED BY <3>1, <3>2
  <2> QED BY <2>1, <2>2
<1>4. PICK p \in Payloads : Present(f, i, p) /\ <<b + i, p>> \in hist
  BY <1>3 DEF Chain
<1>5. HeaderAt(d.buffer, d.index[i]) = HeaderAt(f.buffer, f.index[i])
  BY <1>1, <1>3
<1>6. Present(d, i, p) /\ HeaderAt(d.buffer, d.index[i]).size = FrameSize(p)
  BY <1>3, <1>4, <1>5 DEF Present
<1> QED BY <1>1, <1>3, <1>4, <1>5, <1>6

(* What a crash leaves of a segment's files, if it is tidy, is a segment   *)
(* again: the first of its frames.                                         *)
LEMMA TidyChain ==
  ASSUME NEW b \in Nat, NEW f, IsFile(f), NEW d, IsFile(d), NEW w \in Pair, NEW hist,
         Holds(b, f, w, hist), Sound(d, f), Tidy(d)
  PROVE  /\ \E n \in Nat, x \in Nat : n <= w.index /\ Chain(b, d, n, x, hist)
         /\ Sound(d, d)
<1>0. /\ d.index \in [Entry -> Nat] /\ f.index \in [Entry -> Nat] /\ w.index \in Nat
      /\ MappedEntries(Size) \in Nat /\ IsBuffer(d.buffer)
      /\ \A i : i \in Entry <=> i \in Nat /\ i < MappedEntries(Size)
  BY Entries DEF IsFile, Pair
<1>1. PICK m \in Nat, y \in Nat : Chain(b, f, m, y, hist) /\ m <= w.index
  BY HoldsChain
<1>2. /\ \A i \in Entry : d.index[i] # 0 =>
           i # 0 /\ Ready(d, 0) /\ Ready(d, d.index[i]) /\ (i > 1 => d.index[i - 1] # 0)
      /\ \A x \in DOMAIN d.buffer : Ready(d, x) => \E i \in Entry : d.index[i] = x
  BY <1>0 DEF Tidy, Ready
<1>3. ASSUME 0 \in Entry PROVE d.index[0] = 0
  BY <1>2, <1>3
<1>4. ASSUME NEW i \in Entry, d.index[i] # 0 \/ (i = 0 /\ Ready(d, 0))
      PROVE  /\ i < m /\ d.index[i] = f.index[i] /\ d.index[i] \in Nat
             /\ HeaderAt(d.buffer, d.index[i]) = HeaderAt(f.buffer, f.index[i])
             /\ \E p \in Payloads : /\ Present(d, i, p) /\ Present(f, i, p) /\ <<b + i, p>> \in hist
                                    /\ HeaderAt(d.buffer, d.index[i]).size = FrameSize(p)
  <2>1. 0 \in Entry
    BY <1>0
  <2>2. Ready(d, d.index[i]) /\ (d.index[i] # 0 \/ i = 0) /\ d.index[0] = 0
    BY <1>2, <1>3, <1>4, <2>1
  <2> QED BY SMTT(30), <1>1, <2>2, OlderFrame
<1>5. ASSUME NEW i \in Entry, NEW j \in Entry, i < j, d.index[j] # 0
      PROVE  d.index[i] # 0 \/ (i = 0 /\ Ready(d, 0))
  <2> SUFFICES ASSUME i # 0, d.index[i] = 0 PROVE FALSE
    BY <1>2, <1>5
  <2> DEFINE Bad == {k \in Entry : i < k /\ d.index[k] # 0}
  <2>1. Bad \subseteq Nat /\ Bad # {}
    BY <1>0, <1>5
  <2>2. PICK k \in Bad : \A l \in Bad : k <= l
    <3> HIDE DEF Bad
    <3> QED BY <2>1, LeastExists
  <2>3. i \in Nat /\ k \in Nat /\ k > 1 /\ i < k /\ k - 1 \in Entry /\ k - 1 \in Nat
    BY <1>0, <2>2
  <2>4. d.index[k - 1] # 0
    BY <1>2, <2>2, <2>3
  <2>5. i # k - 1 /\ i < k - 1
    BY <2>3, <2>4
  <2> QED BY <2>2, <2>3, <2>4, <2>5
<1>6. Ordered(d)
  <2> SUFFICES ASSUME NEW i \in Entry, NEW j \in Entry, i < j, d.index[j] # 0
               PROVE  d.index[i] + HeaderAt(d.buffer, d.index[i]).size <= d.index[j]
    BY DEF Ordered
  <2>1. d.index[i] # 0 \/ (i = 0 /\ Ready(d, 0))
    BY <1>5
  <2>2. /\ d.index[i] = f.index[i] /\ d.index[j] = f.index[j]
        /\ HeaderAt(d.buffer, d.index[i]) = HeaderAt(f.buffer, f.index[i])
    BY <1>4, <2>1
  <2> QED BY <2>2 DEF Sound, Ordered
<1>7. ReadyIsFrame(d)
  <2> SUFFICES ASSUME NEW x \in Nat, Ready(d, x)
               PROVE  \E i \in Entry, p \in Payloads : d.index[i] = x /\ Present(d, i, p)
    BY DEF ReadyIsFrame
  <2>1. x \in DOMAIN d.buffer
    BY DEF Ready, HeaderAt, ZeroHeader
  <2>2. PICK i \in Entry : d.index[i] = x
    BY <1>2, <2>1
  <2>3. CASE x # 0
    BY <1>4, <2>2, <2>3
  <2>4. CASE x = 0
    <3>1. 0 \in Entry /\ d.index[0] = 0
      BY <1>0, <1>3, <2>2
    <3> QED BY <1>4, <2>4, <3>1
  <2> QED BY <2>3, <2>4
<1>8. Sound(d, d)
  BY <1>6, <1>7 DEF Sound, Older
<1>9. CASE ~ (0 \in Entry /\ Ready(d, 0))
  <2>1. \A i \in Entry : d.index[i] = 0
    <3> SUFFICES ASSUME NEW i \in Entry, d.index[i] # 0 PROVE FALSE
      OBVIOUS
    <3>1. 0 \in Entry /\ Ready(d, 0)
      BY <1>0, <1>2
    <3> QED BY <1>9, <3>1
  <2>2. HeaderAt(d.buffer, 0) \in {ZeroHeader, EosHeader}
    <3> SUFFICES ASSUME HeaderAt(d.buffer, 0) = HeaderAt(f.buffer, 0)
                 PROVE  HeaderAt(d.buffer, 0) \in {ZeroHeader, EosHeader}
      BY DEF Sound, Older
    <3>1. CASE m = 0
      BY <1>1, <3>1 DEF Chain
    <3>2. CASE m # 0
      <4>1. Ready(d, 0)
        BY <1>1, <3>2, ChainFacts DEF Ready
      <4>2. 0 \in Entry
        BY <1>0, <1>1, <3>2 DEF Chain
      <4> QED BY <1>9, <4>1, <4>2
    <3> QED BY <3>1, <3>2
  <2>3. Chain(b, d, 0, 0, hist)
    BY <1>0, <2>1, <2>2 DEF Chain
  <2>4. 0 \in Nat /\ 0 <= w.index
    BY <1>0
  <2> QED BY <1>8, <2>3, <2>4
<1>10. CASE 0 \in Entry /\ Ready(d, 0)
  <2> DEFINE S == {i \in Nat : i > 0 /\ (i \in Entry => d.index[i] = 0)}
  <2>1. S # {} /\ S \subseteq Nat
    <3>1. MappedEntries(Size) > 0 /\ MappedEntries(Size) \notin Entry
      BY <1>0, <1>10
    <3>2. MappedEntries(Size) \in S
      BY <1>0, <3>1
    <3> QED BY <3>2
  <2>2. PICK n \in S : \A k \in S : n <= k
    <3> HIDE DEF S
    <3> QED BY <2>1, LeastExists
  <2>3. /\ n \in Nat /\ n > 0 /\ (n \in Entry => d.index[n] = 0)
        /\ \A k \in Nat : 0 < k /\ k < n => k \in Entry /\ d.index[k] # 0
    <3>1. n \in Nat /\ n > 0 /\ (n \in Entry => d.index[n] = 0)
      BY <2>2
    <3>2. ASSUME NEW k \in Nat, 0 < k, k < n PROVE k \in Entry /\ d.index[k] # 0
      <4>1. k \notin S
        BY <2>2, <3>1, <3>2
      <4> QED BY <3>2, <4>1
    <3> QED BY <3>1, <3>2
  <2> HIDE DEF S
  <2>4. ASSUME NEW i \in Entry, i < n PROVE d.index[i] # 0 \/ (i = 0 /\ Ready(d, 0))
    <3>1. i \in Nat
      BY <1>0
    <3> QED BY <1>10, <2>3, <2>4, <3>1
  <2>5. ASSUME NEW i \in Entry, i >= n PROVE d.index[i] = 0
    <3> SUFFICES ASSUME d.index[i] # 0 PROVE FALSE
      OBVIOUS
    <3>0. i \in Nat
      BY <1>0
    <3>1. i # n /\ n < i /\ n \in Entry
      BY <1>0, <2>3, <2>5, <3>0
    <3>2. d.index[n] # 0 \/ n = 0
      BY <1>5, <3>1
    <3> QED BY <2>3, <3>1, <3>2
  <2>6. PICK l : l = n - 1
    OBVIOUS
  <2>7. l \in Nat /\ l \in Entry /\ l < n
    <3>1. l \in Nat /\ l < n
      BY <2>3, <2>6
    <3>2. l = 0 \/ l \in Entry
      BY <2>3, <3>1
    <3> QED BY <1>10, <3>1, <3>2
  <2>8. PICK x : x = d.index[l] + HeaderAt(d.buffer, d.index[l]).size
    OBVIOUS
  <2>9. x \in Nat /\ d.index[l] \in Nat
    BY <1>0, <2>7, <2>8, HeaderAtType
  <2>10. n <= MappedEntries(Size) /\ n <= w.index
    <3>1. l < m
      BY <1>4, <2>4, <2>7
    <3> QED BY <1>0, <1>1, <2>3, <2>6, <2>7, <3>1
  <2>11. ASSUME NEW i \in Entry, i < n
         PROVE  \E p \in Payloads : Present(d, i, p) /\ <<b + i, p>> \in hist /\ d.index[i] + FrameSize(p) <= x
    <3>1. PICK p \in Payloads : /\ Present(d, i, p) /\ <<b + i, p>> \in hist
                                /\ HeaderAt(d.buffer, d.index[i]).size = FrameSize(p)
      BY <1>4, <2>4, <2>11
    <3>2. CASE i = l
      <4>1. d.index[i] + FrameSize(p) = x
        BY <2>8, <3>1, <3>2
      <4> QED BY <2>9, <3>1, <4>1
    <3>3. CASE i # l
      <4>1. i \in Nat /\ i < l /\ l # 0
        BY <1>0, <2>3, <2>6, <2>7, <2>11, <3>3
      <4>2. d.index[l] # 0
        BY <2>4, <2>7, <4>1
      <4>3. d.index[i] + FrameSize(p) <= d.index[l]
        BY <1>6, <2>7, <3>1, <4>1, <4>2 DEF Ordered
      <4>4. HeaderAt(d.buffer, d.index[l]).size \in Nat /\ d.index[i] \in Nat /\ FrameSize(p) \in Nat
        BY <1>0, HeaderAtType, SizeOfType
      <4>5. d.index[i] + FrameSize(p) <= x
        BY <2>8, <2>9, <4>3, <4>4
      <4> QED BY <3>1, <4>5
    <3> QED BY <3>2, <3>3
  <2>12. n # 0 /\ x = d.index[n - 1] + HeaderAt(d.buffer, d.index[n - 1]).size /\ d.index[0] = 0
    BY <1>3, <1>10, <2>3, <2>6, <2>8
  <2>13. Chain(b, d, n, x, hist)
    BY <2>5, <2>10, <2>11, <2>12 DEF Chain
  <2> QED BY <1>8, <2>3, <2>9, <2>10, <2>13
<1> QED BY <1>9, <1>10

(* A frame that is on disk with its entry, or whose entry can only be      *)
(* there, survives.                                                        *)
LEMMA TidySurvives ==
  ASSUME NEW f, IsFile(f), NEW d, IsFile(d), Sound(d, f), Tidy(d),
         NEW i \in Entry, NEW p \in Payloads, Present(f, i, p), AtDisk(d, f, i),
         i = 0 => f.index[0] = 0
  PROVE  Present(d, i, p)
<1>0. /\ d.index \in [Entry -> Nat] /\ f.index \in [Entry -> Nat] /\ i \in Nat /\ \A k \in Entry : k \in Nat
      /\ IsBuffer(d.buffer)
  BY Entries DEF IsFile
<1>1. HeaderAt(d.buffer, f.index[i]) = [flags |-> "READY", size |-> FrameSize(p), payload |-> p]
  BY DEF Present, AtDisk
<1>2. d.index[i] = f.index[i]
  <2>1. CASE i = 0
    <3>1. d.index[0] = 0
      BY <1>0, <2>1 DEF Tidy
    <3> QED BY <2>1, <3>1
  <2>2. CASE i # 0
    <3>1. PICK x : x = f.index[i]
      OBVIOUS
    <3>2. x \in Nat /\ x # 0 /\ Ready(d, x)
      BY <1>0, <1>1, <2>2, <3>1 DEF Present, Ready
    <3>3. x \in DOMAIN d.buffer
      BY <3>2 DEF Ready, HeaderAt, ZeroHeader
    <3>4. PICK k \in Entry : d.index[k] = x
      BY <3>2, <3>3 DEF Tidy, Ready
    <3>5. f.index[k] = x /\ k \in Nat
      BY <1>0, <3>2, <3>4 DEF Sound, Older
    <3>6. HeaderAt(f.buffer, x).size = FrameSize(p) /\ FrameSize(p) \in Nat /\ FrameSize(p) >= 12
      BY <3>1, SizeOfType DEF Present
    <3>7. ~ (k < i) /\ ~ (i < k)
      <4>1. ASSUME NEW u \in Entry, NEW v \in Entry, u < v, f.index[u] = x, f.index[v] = x PROVE FALSE
        <5>1. x + HeaderAt(f.buffer, x).size <= x
          BY <3>2, <4>1 DEF Sound, Ordered
        <5> QED BY <3>2, <3>6, <5>1
      <4> QED BY <3>1, <3>5, <4>1
    <3>8. k = i
      BY <1>0, <3>5, <3>7
    <3> QED BY <3>1, <3>4, <3>8
  <2> QED BY <2>1, <2>2
<1> QED BY <1>1, <1>2 DEF Present

(* What a crash of the machine leaves: files that are there, as they were  *)
(* or as the disk has them, and no trace of the process.                   *)
LEMMA Survivors ==
  ASSUME LogTypeInv, MachineCrash
  PROVE  /\ phase = "open" /\ phase' = "stopped" /\ crashed' /\ acked' = {} /\ UNCHANGED <<synced, written>>
         /\ DOMAIN sgms' = {} /\ \A t \in Threads : pc'[t] = "idle" /\ loc'[t] = Idle(0)
         /\ disk' = files' /\ torn' = (torn \/ \E b \in DOMAIN files' : ~ Tidy(files'[b]))
         /\ \A b \in DOMAIN files' : b \in DOMAIN files /\ files'[b] \in {files[b], disk[b]}
         /\ \A b \in DOMAIN files : b \notin DOMAIN files' => disk[b] = Unsized
<1>1. PICK gone \in SUBSET {b \in DOMAIN disk : disk[b] = Unsized} :
        \E whole \in SUBSET (DOMAIN files \ gone) :
          files' = [b \in DOMAIN files \ gone |-> IF b \in whole THEN files[b] ELSE disk[b]]
  BY DEF MachineCrash
<1>2. /\ \A b \in DOMAIN files' : b \in DOMAIN files /\ files'[b] \in {files[b], disk[b]}
      /\ \A b \in DOMAIN files : b \notin DOMAIN files' => disk[b] = Unsized
  BY <1>1
<1>3. /\ phase = "open" /\ phase' = "stopped" /\ crashed' /\ acked' = {} /\ UNCHANGED <<synced, written>>
      /\ DOMAIN sgms' = {} /\ \A t \in Threads : pc'[t] = "idle" /\ loc'[t] = Idle(0)
      /\ disk' = files' /\ torn' = (torn \/ \E b \in DOMAIN files' : ~ Tidy(files'[b]))
  BY DEF MachineCrash, Stop
<1> QED BY <1>2, <1>3

(* The files of a synced frame are not gone. *)
LEMMA SyncedRemains ==
  ASSUME LogTypeInv, MachineCrash, NEW b \in DOMAIN files, NEW i, NEW p, Present(files[b], i, p),
         AtDisk(disk[b], files[b], i)
  PROVE  b \in DOMAIN files'
<1> SUFFICES ASSUME disk[b] = Unsized PROVE FALSE
  BY Survivors
<1>1. HeaderAt(Unsized.buffer, files[b].index[i]).flags = "READY"
  BY DEF Present, AtDisk
<1>2. HeaderAt(Unsized.buffer, files[b].index[i]) = ZeroHeader
  BY DEF Unsized, HeaderAt
<1> QED BY <1>1, <1>2 DEF ZeroHeader

LEMMA SoundHere ==
  ASSUME NEW d, NEW f, Sound(d, f)
  PROVE  Sound(f, f)
BY DEF Sound, Older

(* A crash that leaves every segment tidy loses frames that were not       *)
(* synced from the ends of segments, and nothing else.                     *)
LEMMA CrashClean ==
  ASSUME LogTypeInv, StoreInv, OnDisk, MachineCrash, ~ torn'
  PROVE  StoreInv' /\ OnDisk'
<1>0. /\ phase' = "stopped" /\ crashed' /\ acked' = {} /\ UNCHANGED <<synced, written>>
      /\ DOMAIN sgms' = {} /\ \A t \in Threads : pc'[t] = "idle" /\ loc'[t] = Idle(0)
      /\ disk' = files' /\ \A b \in DOMAIN files' : Tidy(files'[b])
      /\ \A b \in DOMAIN files' : b \in DOMAIN files /\ files'[b] \in {files[b], disk[b]}
      /\ Writers \subseteq Threads /\ Readers \subseteq Threads /\ DOMAIN files \subseteq Nat
  BY Survivors DEF Threads, LogTypeInv, FilesOK
<1>1. ASSUME NEW b \in DOMAIN files'
      PROVE  /\ Sound(files'[b], files'[b])
             /\ \E w \in Pair : Holds(b, files'[b], w, written) /\ Ends(b, w)'
             /\ \A i, p : Present(files[b], i, p) /\ AtDisk(disk[b], files[b], i) => Present(files'[b], i, p)
  <2>1. PICK d, f, hist : d = files'[b] /\ f = files[b] /\ hist = written
    OBVIOUS
  <2>2. b \in DOMAIN files /\ b \in Nat /\ Tidy(d) /\ d \in {f, disk[b]}
    BY <1>0, <1>1, <2>1
  <2>3. IsFile(f) /\ IsFile(d) /\ Sound(d, f)
    BY <2>1, <2>2, SoundHere DEF LogTypeInv, FilesOK, OnDisk
  <2>4. PICK w \in Pair : Holds(b, f, w, hist) /\ Ends(b, w)
    BY <2>1, <2>2 DEF StoreInv, LaidOut
  <2>5. Sound(d, d) /\ \E n \in Nat, x \in Nat : n <= w.index /\ Chain(b, d, n, x, hist)
    BY <2>2, <2>3, <2>4, TidyChain
  <2>6. PICK n \in Nat, x \in Nat : n <= w.index /\ Chain(b, d, n, x, hist)
    BY <2>5
  <2>7. PICK v : v = [index |-> n, data |-> x]
    OBVIOUS
  <2>8. v \in Pair /\ Holds(b, d, v, hist)
    BY <2>6, <2>7 DEF Pair, Holds, Growing
  <2>9. Ends(b, v)'
    <3> SUFFICES ASSUME NEW c \in DOMAIN files', c > b PROVE c >= b + v.index
      BY <1>0 DEF Ends
    <3>1. c \in Nat /\ c >= b + w.index
      BY <1>0, <2>4 DEF Ends
    <3>2. v.index = n /\ w.index \in Nat
      BY <2>4, <2>7 DEF Pair
    <3> QED BY <2>2, <2>6, <3>1, <3>2
  <2>10. ASSUME NEW i, NEW p, Present(f, i, p), AtDisk(disk[b], f, i) PROVE Present(d, i, p)
    <3>1. CASE d = f
      BY <2>10, <3>1
    <3>2. CASE d = disk[b]
      <4>1. i \in Entry
        BY <2>10 DEF Present
      <4>2. p \in Payloads
        BY <2>2, <2>3, <2>4, <2>10, <4>1, HoldsFacts
      <4>3. f.index[0] = 0
        <5>1. PICK m \in Nat, y \in Nat : Chain(b, f, m, y, hist)
          BY <2>4, HoldsChain
        <5>2. i < m /\ i \in Nat
          BY <2>2, <2>3, <2>10, <4>1, <5>1, ChainFacts, Entries
        <5> QED BY <5>1, <5>2 DEF Chain
      <4> QED BY <2>2, <2>3, <2>10, <3>2, <4>1, <4>2, <4>3, TidySurvives
    <3> QED BY <2>2, <3>1, <3>2
  <2> QED BY <2>1, <2>5, <2>8, <2>9, <2>10
<1>2. StoreInv'
  <2>1. LaidOut'
    BY <1>0, <1>1 DEF LaidOut
  <2>2. Indexed' /\ AckedKept'
    BY <1>0 DEF Indexed, AckedKept
  <2>3. \A t \in Writers : Adding(t)'
    BY <1>0 DEF Adding
  <2>4. ReadsBack'
    BY <1>0 DEF ReadsBack, Idle
  <2> QED BY <2>1, <2>2, <2>3, <2>4 DEF StoreInv
<1>3. OnDisk'
  <2>1. ASSUME NEW a \in synced PROVE SyncedKept(a)'
    <3>1. PICK b \in DOMAIN files :
            /\ b <= a[1] /\ Present(files[b], a[1] - b, a[2])
            /\ \A j \in Entry : j <= a[1] - b => AtDisk(disk[b], files[b], j)
      BY DEF OnDisk, SyncedKept
    <3>2. PICK i : i = a[1] - b
      OBVIOUS
    <3>3. i \in Entry /\ i <= i
      BY <3>1, <3>2, Entries DEF Present
    <3>4. AtDisk(disk[b], files[b], i) /\ Present(files[b], i, a[2])
      BY <3>1, <3>2, <3>3
    <3>5. b \in DOMAIN files'
      BY <3>4, SyncedRemains
    <3>6. Present(files'[b], i, a[2])
      BY <1>1, <3>4, <3>5
    <3>7. \A j : AtDisk(disk'[b], files'[b], j)
      BY <1>0 DEF AtDisk
    <3> QED BY <1>0, <3>1, <3>2, <3>5, <3>6, <3>7 DEF SyncedKept
  <2>2. \A t \in Writers : Unsynced(t)'
    BY <1>0 DEF Unsynced
  <2> QED BY <1>0, <1>1, <2>1, <2>2 DEF OnDisk
<1> QED BY <1>2, <1>3

-----------------------------------------------------------------------------
(* After a crash of the machine that has torn a segment. *)

(* The frame of p at entry i is found again when the segment is opened,    *)
(* and writing resumes behind it; unless the index is full, and opening    *)
(* the log fails.                                                          *)
Lasting(f, i, p) ==
  /\ \A j \in 0 .. max_index_entries(Size) - 1 : j <= i => j \notin FreeEntries(f.buffer, f.index, Size)
  /\ i < max_index_entries(Size) =>
       /\ Present(f, i, p)
       /\ \A j \in Entry : j > i /\ f.index[j] # 0 => f.index[j] >= f.index[i] + FrameSize(p)

(* A header at offset 0 that counts as a frame has a size; so the end of a *)
(* segment that has an entry is not at offset 0.                           *)
Firm(f) == prot_is_header(HeaderAt(f.buffer, 0)) => HeaderAt(f.buffer, 0).size >= 1

PositiveEnd(w) == w.index >= 1 => w.data >= 1

(* The frame is in the files, and all that will be written lies behind it. *)
Placed(f, w, i, p) ==
  /\ i \in Nat /\ i < w.index /\ Present(f, i, p) /\ f.index[i] + FrameSize(p) <= w.data

(* Its segment is the one that a lookup finds. *)
Kept(a) ==
  \E b \in DOMAIN sgms :
    /\ b <= a[1] /\ Placed(files[b], sgms[b].w, a[1] - b, a[2])
    /\ \A i \in DOMAIN tree : tree[i].key > b => tree[i].key > a[1]

(* What a producer is about to acknowledge. *)
Coming(t) ==
  /\ pc[t] = "segment_write" /\ loc[t].fresh => PositiveEnd(loc[t].new.w)
  /\ pc[t] \in {"mbptree_append", "store_value"} =>
       /\ PositiveEnd(loc[t].new.w) /\ loc[t].sgm <= loc[t].off
       /\ Placed(files[loc[t].sgm], loc[t].new.w, loc[t].off - loc[t].sgm, loc[t].buf)
  /\ pc[t] = "store_value" => loc[t].sgm \notin DOMAIN sgms
  /\ pc[t] = "unlock" /\ loc[t].rc > 0 => Kept(<<loc[t].off, loc[t].buf>>)

(* The log before it is opened, and while it is open. *)
Recoverable ==
  /\ acked = {}
  /\ \A a \in synced :
       \E b \in DOMAIN files : /\ b <= a[1] /\ \A c \in DOMAIN files : c > b => c > a[1]
                               /\ Lasting(files[b], a[1] - b, a[2])

Running ==
  /\ \A b \in DOMAIN sgms : \E i \in DOMAIN tree : tree[i].key = b
  /\ \A i, j \in DOMAIN tree : i < j => tree[i].key < tree[j].key
  /\ \A a \in acked \cup synced : Kept(a)
  /\ \A b \in DOMAIN sgms : PositiveEnd(sgms[b].w)
  /\ \A t \in Writers : Coming(t)

AfterTear ==
  /\ \A b \in DOMAIN files : Firm(files[b])
  /\ IF phase = "open" THEN Running ELSE Recoverable

(* What is left of a segment's files: a header at offset 0 is one that was *)
(* stored there.                                                           *)
LEMMA FirmLeft ==
  ASSUME NEW b \in Nat, NEW f, IsFile(f), NEW d, NEW w \in Pair, NEW hist,
         Holds(b, f, w, hist), Sound(d, f)
  PROVE  Firm(d)
<1>1. PICK n \in Nat, x \in Nat : Chain(b, f, n, x, hist)
  BY HoldsChain
<1>2. HeaderAt(d.buffer, 0) \in {ZeroHeader, EosHeader, HeaderAt(f.buffer, 0)}
  BY DEF Sound, Older
<1>3. HeaderAt(d.buffer, 0) \in {ZeroHeader, EosHeader} \/ HeaderAt(d.buffer, 0).size >= 1
  <2>1. CASE n = 0
    BY <1>1, <1>2, <2>1 DEF Chain
  <2>2. CASE n # 0
    <3>1. Ready(f, 0)
      BY <1>1, <2>2, ChainFacts DEF Ready
    <3>2. PICK i \in Entry, p \in Payloads : f.index[i] = 0 /\ Present(f, i, p)
      BY <3>1 DEF Sound, ReadyIsFrame
    <3>3. HeaderAt(f.buffer, 0).size = FrameSize(p) /\ FrameSize(p) >= 1
      BY <3>2, SizeOfType DEF Present
    <3> QED BY <1>2, <3>3
  <2> QED BY <2>1, <2>2
<1> QED BY <1>3 DEF Firm, prot_is_header, ZeroHeader, EosHeader

(* A frame that is on disk, with all the entries up to its own, lasts.     *)
LEMMA LastingLeft ==
  ASSUME NEW b \in Nat, NEW f, IsFile(f), NEW d, NEW w \in Pair, NEW hist,
         Holds(b, f, w, hist), Sound(d, f), NEW i, NEW p, Present(f, i, p),
         \A j \in Entry : j <= i => AtDisk(d, f, j)
  PROVE  Lasting(d, i, p)
<1>0. /\ \A j \in 0 .. max_index_entries(Size) - 1 : j \in Entry /\ j < max_index_entries(Size)
      /\ \A j \in Entry : j \in Nat
      /\ i \in Entry /\ i \in Nat
  BY Entries DEF Present
<1>1. PICK n \in Nat, x \in Nat : Chain(b, f, n, x, hist)
  BY HoldsChain
<1>2. i < n
  BY <1>0, <1>1, ChainFacts
<1>3. ASSUME NEW j \in 0 .. max_index_entries(Size) - 1, j <= i
      PROVE  j \notin FreeEntries(d.buffer, d.index, Size)
  <2>1. j \in Entry /\ AtDisk(d, f, j) /\ j < n /\ j < max_index_entries(Size)
    BY <1>0, <1>2, <1>3
  <2>2. PICK q \in Payloads : Present(f, j, q)
    BY <1>1, <2>1 DEF Chain
  <2>3. CASE j # 0
    BY <2>1, <2>2, <2>3 DEF Present, AtDisk, FreeEntries
  <2>4. CASE j = 0
    <3>1. f.index[0] = 0
      BY <1>1, <2>1, <2>4 DEF Chain
    <3>2. HeaderAt(d.buffer, 0).flags = "READY"
      BY <2>1, <2>2, <2>4, <3>1 DEF Present, AtDisk
    <3> QED BY <2>4, <3>2 DEF FreeEntries, prot_is_header
  <2> QED BY <2>3, <2>4
<1>4. ASSUME i < max_index_entries(Size)
      PROVE  /\ Present(d, i, p) /\ d.index[i] = f.index[i]
             /\ \A j \in Entry : j > i /\ d.index[j] # 0 => d.index[j] >= d.index[i] + FrameSize(p)
  <2>1. AtDisk(d, f, i)
    BY <1>0
  <2>2. d.index[i] = f.index[i] /\ HeaderAt(d.buffer, d.index[i]) = HeaderAt(f.buffer, f.index[i])
    BY <1>4, <2>1 DEF AtDisk
  <2>3. Present(d, i, p)
    BY <2>2 DEF Present
  <2>4. ASSUME NEW j \in Entry, j > i, d.index[j] # 0 PROVE d.index[j] >= d.index[i] + FrameSize(p)
    <3>1. d.index[j] = f.index[j]
      BY <2>4 DEF Sound, Older
    <3>2. f.index[i] + HeaderAt(f.buffer, f.index[i]).size <= f.index[j]
      BY <1>0, <2>4, <3>1 DEF Sound, Ordered
    <3>3. HeaderAt(f.buffer, f.index[i]).size = FrameSize(p)
      BY DEF Present
    <3>4. f.index[i] \in Nat /\ f.index[j] \in Nat /\ FrameSize(p) \in Nat
      <4>1. p \in Payloads
        BY <1>0, HoldsFacts
      <4> QED BY <1>0, <4>1, SizeOfType DEF IsFile
    <3> QED BY <2>2, <3>1, <3>2, <3>3, <3>4
  <2> QED BY <2>2, <2>3, <2>4
<1> QED BY <1>3, <1>4 DEF Lasting

(* A crash of the machine leaves what was synced where it is found. *)
LEMMA CrashTorn ==
  ASSUME LogTypeInv, StoreInv, OnDisk, MachineCrash
  PROVE  AfterTear'
<1>0. /\ phase' = "stopped" /\ acked' = {} /\ UNCHANGED <<synced, written>>
      /\ \A b \in DOMAIN files' : b \in DOMAIN files /\ files'[b] \in {files[b], disk[b]}
      /\ DOMAIN files \subseteq Nat
  BY Survivors DEF LogTypeInv, FilesOK
<1>1. ASSUME NEW b \in DOMAIN files'
      PROVE  /\ Firm(files'[b])
             /\ \A i, p : /\ Present(files[b], i, p)
                          /\ \A j \in Entry : j <= i => AtDisk(disk[b], files[b], j)
                          => Lasting(files'[b], i, p)
  <2>1. PICK d, f, hist : d = files'[b] /\ f = files[b] /\ hist = written
    OBVIOUS
  <2>2. b \in DOMAIN files /\ b \in Nat /\ d \in {f, disk[b]}
    BY <1>0, <1>1, <2>1
  <2>3. IsFile(f) /\ Sound(d, f)
    BY <2>1, <2>2, SoundHere DEF LogTypeInv, FilesOK, OnDisk
  <2>4. PICK w \in Pair : Holds(b, f, w, hist)
    BY <2>1, <2>2 DEF StoreInv, LaidOut
  <2>5. ASSUME NEW i, NEW p, Present(f, i, p), \A j \in Entry : j <= i => AtDisk(disk[b], f, j)
        PROVE  Lasting(d, i, p)
    <3>1. \A j \in Entry : j <= i => AtDisk(d, f, j)
      BY <2>2, <2>5 DEF AtDisk
    <3> QED BY <2>2, <2>3, <2>4, <2>5, <3>1, LastingLeft
  <2>6. Firm(d)
    BY <2>2, <2>3, <2>4, FirmLeft
  <2> QED BY <2>1, <2>5, <2>6
<1>2. ASSUME NEW a \in synced
      PROVE  \E b \in DOMAIN files' : /\ b <= a[1] /\ \A c \in DOMAIN files' : c > b => c > a[1]
                                      /\ Lasting(files'[b], a[1] - b, a[2])
  <2>1. PICK b \in DOMAIN files :
          /\ b <= a[1] /\ Present(files[b], a[1] - b, a[2])
          /\ \A j \in Entry : j <= a[1] - b => AtDisk(disk[b], files[b], j)
    BY DEF OnDisk, SyncedKept
  <2>2. PICK i, f, p : i = a[1] - b /\ f = files[b] /\ p = a[2]
    OBVIOUS
  <2>3. i \in Entry /\ i <= i /\ i \in Nat /\ b \in Nat /\ a[1] \in Nat
    <3>1. i \in Entry /\ i \in Nat
      BY <2>1, <2>2, Entries DEF Present
    <3>2. b \in Nat
      BY <1>0, <2>1
    <3>3. a[1] \in Nat
      BY DEF LogTypeInv, HistoryOK, Frame
    <3> QED BY <3>1, <3>2, <3>3
  <2>4. AtDisk(disk[b], files[b], i) /\ Present(f, i, p)
    BY <2>1, <2>2, <2>3
  <2>5. b \in DOMAIN files'
    BY <2>2, <2>4, SyncedRemains
  <2>6. ASSUME NEW c \in DOMAIN files', c > b PROVE c > a[1]
    <3>1. PICK w \in Pair : Holds(b, files[b], w, written) /\ Ends(b, w)
      BY DEF StoreInv, LaidOut
    <3>2. PICK hist : hist = written
      OBVIOUS
    <3>3. IsFile(f)
      BY <2>2 DEF LogTypeInv, FilesOK
    <3>4. i < w.index
      BY <2>2, <2>3, <2>4, <3>1, <3>2, <3>3, HoldsFacts
    <3>5. c \in Nat /\ c >= b + w.index /\ w.index \in Nat
      BY <1>0, <2>6, <3>1 DEF Ends, Pair
    <3> QED BY <2>2, <2>3, <3>4, <3>5
  <2> QED BY <1>1, <2>1, <2>2, <2>4, <2>5, <2>6
<1> QED BY <1>0, <1>1, <1>2 DEF AfterTear, Recoverable

(* Where writing resumes, if there is a free entry. *)
LEMMA FoundFree ==
  ASSUME NEW f, IsFile(f), NEW found, found = find_w_offset_pair(f.buffer, f.index, Size), found.rc = 0
  PROVE  \E k \in FreeEntries(f.buffer, f.index, Size) :
           /\ k = found.pair.index /\ \A n \in FreeEntries(f.buffer, f.index, Size) : k <= n
           /\ k # 0 => \A l : l = k - 1 => found.pair.data = f.index[l] + HeaderAt(f.buffer, f.index[l]).size
<1>0. PICK free, k : free = FreeEntries(f.buffer, f.index, Size) /\ k = found.pair.index
  OBVIOUS
<1>1. free # {}
  <2> SUFFICES ASSUME free = {} PROVE FALSE
    OBVIOUS
  <2>1. found = [rc |-> ELWOFFS, pair |-> [index |-> 0, data |-> 0]]
    BY <1>0, FirstFree
  <2> QED BY <2>1 DEF ELWOFFS
<1>2. k \in free /\ \A n \in free : k <= n
  BY <1>0, <1>1, FirstFree
<1>3. ASSUME k # 0, NEW l, l = k - 1
      PROVE  found.pair.data = f.index[l] + HeaderAt(f.buffer, f.index[l]).size
  <2>1. found.pair.index # 0
    BY <1>0, <1>3
  <2>2. found.pair.data = f.index[found.pair.index - 1]
                          + HeaderAt(f.buffer, f.index[found.pair.index - 1]).size
    BY <1>0, <1>1, <2>1, FirstFree, ZenonT(60)
  <2> QED BY <1>0, <1>3, <2>2
<1> QED BY <1>0, <1>2, <1>3

(* find_w_offset_pair finds the end of a segment behind a lasting frame. *)
LEMMA FoundBehind ==
  ASSUME NEW f, IsFile(f), NEW i \in Nat, NEW p \in Payloads, Lasting(f, i, p),
         NEW found, found = find_w_offset_pair(f.buffer, f.index, Size), found.rc = 0
  PROVE  Placed(f, found.pair, i, p)
<1>0. PICK k \in FreeEntries(f.buffer, f.index, Size) :
        /\ k = found.pair.index /\ \A n \in FreeEntries(f.buffer, f.index, Size) : k <= n
        /\ k # 0 => \A l : l = k - 1 => found.pair.data = f.index[l] + HeaderAt(f.buffer, f.index[l]).size
  BY FoundFree
<1>1. PICK free, m : free = FreeEntries(f.buffer, f.index, Size) /\ m = max_index_entries(Size)
  OBVIOUS
<1>3. k \in free /\ \A n \in free : k <= n
  BY <1>0, <1>1
<1>4. k \in Nat /\ k < m /\ m \in Nat /\ k \in 0 .. m - 1 /\ \A j \in Nat : j < m => j \in Entry /\ j \in 0 .. m - 1
  BY <1>1, <1>3, Entries DEF FreeEntries
<1>5. i < k
  <2> SUFFICES ASSUME k <= i PROVE FALSE
    BY <1>4
  <2>1. k \notin free
    BY <1>1, <1>4 DEF Lasting
  <2> QED BY <1>3, <2>1
<1>6. /\ i < m /\ Present(f, i, p)
      /\ \A j \in Entry : j > i /\ f.index[j] # 0 => f.index[j] >= f.index[i] + FrameSize(p)
  <2>1. i < m
    BY <1>4, <1>5
  <2> QED BY <1>1, <2>1 DEF Lasting
<1>7. PICK l : l = k - 1
  OBVIOUS
<1>8. l \in Nat /\ l < k /\ i <= l /\ l \in Entry /\ l \in 0 .. m - 1 /\ k # 0
  BY <1>4, <1>5, <1>7
<1>9. /\ f.index[i] \in Nat /\ f.index[l] \in Nat /\ FrameSize(p) \in Nat
      /\ HeaderAt(f.buffer, f.index[l]).size \in Nat
  BY <1>4, <1>6, <1>8, HeaderAtType, SizeOfType DEF IsFile
<1>10. f.index[i] + FrameSize(p) <= found.pair.data
  <2>1. found.pair.data = f.index[l] + HeaderAt(f.buffer, f.index[l]).size
    BY <1>0, <1>7, <1>8
  <2>2. CASE l = i
    <3>1. HeaderAt(f.buffer, f.index[i]).size = FrameSize(p)
      BY <1>6 DEF Present
    <3> QED BY <1>9, <2>1, <2>2, <3>1
  <2>3. CASE l # i
    <3>1. l > i /\ l # 0
      BY <1>8, <2>3
    <3>2. l \notin free
      BY <1>3, <1>4, <1>8
    <3>3. f.index[l] # 0
      BY <1>1, <1>8, <3>1, <3>2 DEF FreeEntries
    <3> QED BY <1>6, <1>8, <1>9, <2>1, <3>1, <3>3
  <2> QED BY <2>2, <2>3
<1> QED BY <1>0, <1>5, <1>6, <1>10 DEF Placed

LEMMA FoundPositive ==
  ASSUME NEW f, IsFile(f), Firm(f),
         NEW found, found = find_w_offset_pair(f.buffer, f.index, Size), found.rc = 0
  PROVE  found.pair \in Pair /\ PositiveEnd(found.pair)
<1>T. found.pair \in Pair
  BY FoundType DEF Opened, OpenSegment
<1>0. PICK k \in FreeEntries(f.buffer, f.index, Size) :
        /\ k = found.pair.index /\ \A n \in FreeEntries(f.buffer, f.index, Size) : k <= n
        /\ k # 0 => \A l : l = k - 1 => found.pair.data = f.index[l] + HeaderAt(f.buffer, f.index[l]).size
  BY FoundFree
<1>1. PICK free, m : free = FreeEntries(f.buffer, f.index, Size) /\ m = max_index_entries(Size)
  OBVIOUS
<1>3. k \in free /\ \A n \in free : k <= n
  BY <1>0, <1>1
<1>4. k \in Nat /\ k < m /\ m \in Nat /\ \A j \in Nat : j < m => j \in Entry /\ j \in 0 .. m - 1
  BY <1>1, <1>3, Entries DEF FreeEntries
<1>5. ASSUME k >= 1 PROVE found.pair.data >= 1
  <2>1. PICK l : l = k - 1
    OBVIOUS
  <2>2. l \in Nat /\ l < k /\ l \in Entry /\ l \in 0 .. m - 1 /\ k # 0
    BY <1>4, <1>5, <2>1
  <2>3. l \notin free
    BY <1>3, <1>4, <2>2
  <2>4. f.index[l] # 0 \/ (l = 0 /\ f.index[0] = 0 /\ prot_is_header(HeaderAt(f.buffer, 0)))
    BY <1>1, <2>2, <2>3 DEF FreeEntries
  <2>5. f.index[l] \in Nat /\ HeaderAt(f.buffer, f.index[l]).size \in Nat
    BY <2>2, HeaderAtType DEF IsFile
  <2>6. found.pair.data = f.index[l] + HeaderAt(f.buffer, f.index[l]).size
    BY <1>0, <2>1, <2>2
  <2> QED BY <2>4, <2>5, <2>6 DEF Firm
<1> QED BY <1>0, <1>T, <1>5 DEF PositiveEnd

LEMMA OpenTear ==
  ASSUME LogTypeInv, AfterTear, NEW ord \in SetToSeqs(DOMAIN files), mqlog_open(ord)
  PROVE  AfterTear'
<1>0. /\ UNCHANGED <<files, pc, loc, acked, synced>> /\ phase # "open"
      /\ \A t \in Writers : pc[t] = "idle"
      /\ \A b \in DOMAIN files : Firm(files[b]) /\ IsFile(files[b]) /\ b \in Nat
      /\ Recoverable
  BY DEF mqlog_open, AfterTear, LogTypeInv, PhaseOK, FilesOK, Threads
<1>1. CASE phase' = "failed"
  BY <1>0, <1>1 DEF AfterTear, Recoverable
<1>2. CASE /\ Loads(ord) /\ phase' = "open"
           /\ tree' = [i \in DOMAIN ord |-> [key |-> ord[i], sgm |-> ord[i]]]
           /\ sgms' = [b \in DOMAIN files |->
                         Opened(find_w_offset_pair(files[b].buffer, files[b].index, Size).pair)]
  <2>1. /\ \A i \in DOMAIN ord : ord[i] \in DOMAIN files
        /\ \A c \in DOMAIN files : \E i \in DOMAIN ord : ord[i] = c
        /\ \A i, j \in DOMAIN ord : i < j => ord[i] < ord[j]
    <3>1. PICK S : S = DOMAIN files
      OBVIOUS
    <3>2. S \subseteq Nat /\ IsFiniteSet(S) /\ ord \in SetToSeqs(S)
      BY <3>1 DEF LogTypeInv, FilesOK
    <3>3. \A i \in 2 .. Len(ord) : ord[i - 1] < ord[i]
      BY <1>2 DEF Loads
    <3> QED BY <3>1, <3>2, <3>3, InOrder
  <2>2. /\ DOMAIN tree' = DOMAIN ord /\ \A i \in DOMAIN ord : tree'[i].key = ord[i]
        /\ DOMAIN sgms' = DOMAIN files
    BY <1>2
  <2>3. ASSUME NEW b \in DOMAIN files
        PROVE  /\ PositiveEnd(sgms'[b].w)
               /\ \A i \in Nat : \A p \in Payloads : Lasting(files[b], i, p) => Placed(files[b], sgms'[b].w, i, p)
    <3>1. PICK f, found : f = files[b] /\ found = find_w_offset_pair(f.buffer, f.index, Size)
      OBVIOUS
    <3>2. IsFile(f) /\ Firm(f)
      BY <1>0, <3>1
    <3>3. found.rc = 0
      BY <1>2, <2>1, <3>1 DEF Loads
    <3>4. sgms'[b].w = found.pair
      BY <1>2, <3>1 DEF Opened
    <3>5. PositiveEnd(found.pair)
      BY <3>1, <3>2, <3>3, FoundPositive
    <3>6. \A i \in Nat : \A p \in Payloads : Lasting(f, i, p) => Placed(f, found.pair, i, p)
      BY <3>1, <3>2, <3>3, FoundBehind
    <3> QED BY <3>1, <3>4, <3>5, <3>6
  <2>4. ASSUME NEW a \in synced PROVE Kept(a)'
    <3>1. PICK b \in DOMAIN files : /\ b <= a[1] /\ \A c \in DOMAIN files : c > b => c > a[1]
                                    /\ Lasting(files[b], a[1] - b, a[2])
      BY <1>0 DEF Recoverable
    <3>2. a[1] \in Nat /\ a[2] \in Payloads /\ b \in Nat
      BY <1>0 DEF LogTypeInv, HistoryOK, Frame
    <3>3. a[1] - b \in Nat
      BY <3>1, <3>2
    <3>4. Placed(files[b], sgms'[b].w, a[1] - b, a[2])
      BY <2>3, <3>1, <3>2, <3>3
    <3>5. \A i \in DOMAIN tree' : tree'[i].key > b => tree'[i].key > a[1]
      BY <2>1, <2>2, <3>1
    <3> QED BY <1>0, <2>2, <3>1, <3>4, <3>5 DEF Kept
  <2>5. /\ \A b \in DOMAIN sgms' : \E i \in DOMAIN tree' : tree'[i].key = b
        /\ \A i, j \in DOMAIN tree' : i < j => tree'[i].key < tree'[j].key
    BY <2>1, <2>2
  <2>6. acked' = {} /\ synced' = synced
    BY <1>0 DEF Recoverable
  <2>7. \A t \in Writers : Coming(t)'
    BY <1>0 DEF Coming
  <2>8. Running'
    BY <2>2, <2>3, <2>4, <2>5, <2>6, <2>7 DEF Running
  <2> QED BY <1>0, <1>2, <2>8 DEF AfterTear
<1> QED BY <1>1, <1>2 DEF mqlog_open

(* The bytes, the write offsets and the tree stay; a file may be new. *)
Still ==
  /\ UNCHANGED <<tree, phase>>
  /\ \A b \in DOMAIN files : /\ b \in DOMAIN files'
                             /\ files'[b].buffer = files[b].buffer /\ files'[b].index = files[b].index
  /\ \A b \in DOMAIN files' : b \notin DOMAIN files => files'[b] = Unsized
  /\ DOMAIN sgms' = DOMAIN sgms
  /\ \A b \in DOMAIN sgms : sgms'[b].w = sgms[b].w

LEMMA SamePlaced ==
  ASSUME NEW f, NEW g, g.buffer = f.buffer, g.index = f.index
  PROVE  /\ \A w, i, p : Placed(f, w, i, p) => Placed(g, w, i, p)
         /\ Firm(f) => Firm(g)
<1>1. \A i, p : Present(f, i, p) => Present(g, i, p)
  BY DEF Present
<1> QED BY <1>1 DEF Placed, Firm

LEMMA StillKept ==
  ASSUME LogTypeInv, Still, NEW a, Kept(a)
  PROVE  Kept(a)'
<1>1. PICK b \in DOMAIN sgms :
        /\ b <= a[1] /\ Placed(files[b], sgms[b].w, a[1] - b, a[2])
        /\ \A i \in DOMAIN tree : tree[i].key > b => tree[i].key > a[1]
  BY DEF Kept
<1>2. b \in DOMAIN files
  BY DEF LogTypeInv, SgmsOK
<1>3. Placed(files'[b], sgms'[b].w, a[1] - b, a[2])
  BY <1>1, <1>2, SamePlaced DEF Still
<1> QED BY <1>1, <1>3 DEF Kept, Still

LEMMA StillTear ==
  ASSUME LogTypeInv, AfterTear, phase = "open", Still, \A a \in acked' \cup synced' : Kept(a),
         \A t \in Writers : Coming(t)'
  PROVE  AfterTear'
<1>1. \A a \in acked' \cup synced' : Kept(a)'
  BY StillKept
<1>2. ASSUME NEW b \in DOMAIN files' PROVE Firm(files'[b])
  <2>1. CASE b \in DOMAIN files
    BY <2>1, SamePlaced DEF AfterTear, Still
  <2>2. CASE b \notin DOMAIN files
    <3>1. files'[b] = Unsized
      BY <1>2, <2>2 DEF Still
    <3>2. HeaderAt(Unsized.buffer, 0) = ZeroHeader
      BY DEF Unsized, HeaderAt
    <3> QED BY <3>1, <3>2 DEF Firm, prot_is_header, ZeroHeader
  <2> QED BY <2>1, <2>2
<1>3. /\ \A b \in DOMAIN sgms' : \E i \in DOMAIN tree' : tree'[i].key = b
      /\ \A i, j \in DOMAIN tree' : i < j => tree'[i].key < tree'[j].key
      /\ \A b \in DOMAIN sgms' : PositiveEnd(sgms'[b].w)
  BY DEF AfterTear, Running, Still
<1> QED BY <1>1, <1>2, <1>3 DEF AfterTear, Running, Still

(* What is left to be shown of a producer's step: its own part. *)
LEMMA OwnComing ==
  ASSUME LogTypeInv, NEW t \in Writers, \A u \in Writers \ {t} : pc[u] = "idle",
         NEW l, Goto(t, l), NEW v, loc' = [loc EXCEPT ![t] = v], Coming(t)'
  PROVE  \A u \in Writers : Coming(u)'
<1>0. t \in Threads /\ Writers \subseteq Threads /\ pc \in [Threads -> Labels]
  BY DEF LogTypeInv, MutexOK, Threads
<1>1. ASSUME NEW u \in Writers \ {t} PROVE Coming(u)'
  <2>1. pc'[u] = "idle"
    BY <1>0 DEF Goto
  <2> QED BY <2>1 DEF Coming
<1> QED BY <1>1

(* A producer that does not move. *)
LEMMA ComingStays ==
  ASSUME LogTypeInv, AfterTear, phase = "open", Still, NEW u \in Writers, pc'[u] = pc[u], loc'[u] = loc[u]
  PROVE  Coming(u)'
<1>0. Coming(u)
  BY DEF AfterTear, Running
<1>1. PICK b : b = loc[u].sgm
  OBVIOUS
<1>2. pc[u] \in {"mbptree_append", "store_value"} => b \in DOMAIN files
  BY <1>1 DEF LogTypeInv, LocalsOK, WriterOK
<1>3. ASSUME b \in DOMAIN files
      PROVE  \A w, i, p : Placed(files[b], w, i, p) => Placed(files'[b], w, i, p)
  BY <1>3, SamePlaced DEF Still
<1>4. pc[u] = "unlock" /\ loc[u].rc > 0 => Kept(<<loc[u].off, loc[u].buf>>)'
  BY <1>0, StillKept DEF Coming
<1>5. DOMAIN sgms' = DOMAIN sgms
  BY DEF Still
<1> QED BY <1>0, <1>1, <1>2, <1>3, <1>4, <1>5 DEF Coming

LEMMA RefusedComing ==
  ASSUME LogTypeInv, NEW t \in Writers, pc[t] # "idle", NEW rc \in Int, rc <= 0, TryWriteReturns(t, rc)
  PROVE  \A u \in Writers : Coming(u)'
<1>0. /\ t \in Threads /\ loc[t] \in Locals /\ pc \in [Threads -> Labels] /\ loc \in [Threads -> Locals]
      /\ \A u \in Writers \ {t} : pc[u] = "idle"
  BY InMutex DEF LogTypeInv, MutexOK, LocalsOK
<1>1. pc'[t] = "unlock" /\ loc'[t].rc = rc /\ Goto(t, "unlock")
  BY <1>0 DEF TryWriteReturns, Goto, Locals
<1>2. loc' = [loc EXCEPT ![t] = [loc[t] EXCEPT !.rc = rc]]
  BY <1>0 DEF TryWriteReturns
<1>3. Coming(t)'
  BY <1>1 DEF Coming
<1>4. PICK v : loc' = [loc EXCEPT ![t] = v]
  BY <1>2
<1> QED BY <1>0, <1>1, <1>3, <1>4, OwnComing

LEMMA LastValueTear ==
  ASSUME LogTypeInv, AfterTear, NEW t \in Writers, LastValue(t)
  PROVE  AfterTear'
<1>0. /\ pc[t] = "last_value" /\ phase = "open" /\ \A u \in Writers \ {t} : pc[u] = "idle"
      /\ t \in Threads /\ loc[t] \in Locals /\ pc \in [Threads -> Labels] /\ loc \in [Threads -> Locals]
  BY InMutex DEF LastValue, At, LogTypeInv, MutexOK, LocalsOK
<1>1. Still /\ UNCHANGED <<acked, synced>>
  BY <1>0 DEF LastValue, Still, held, life
<1>2. PICK v, l : /\ v = [loc[t] EXCEPT !.sgm = IF tree = <<>> THEN 0 ELSE Last(tree).sgm,
                                        !.fresh = (tree = <<>>)]
                  /\ l = IF tree = <<>> THEN "create_segment" ELSE "segment_write"
  OBVIOUS
<1>3. loc' = [loc EXCEPT ![t] = v] /\ Goto(t, l) /\ pc'[t] = l /\ loc'[t] = v
  BY <1>0, <1>2 DEF LastValue, Goto
<1>4. v.fresh = (tree = <<>>)
  BY <1>0, <1>2 DEF Locals
<1>5. Coming(t)'
  BY <1>2, <1>3, <1>4 DEF Coming
<1>6. \A u \in Writers : Coming(u)'
  BY <1>0, <1>3, <1>5, OwnComing
<1>7. \A a \in acked' \cup synced' : Kept(a)
  BY <1>0, <1>1 DEF AfterTear, Running
<1> QED BY <1>0, <1>1, <1>6, <1>7, StillTear

LEMMA CreateTear ==
  ASSUME LogTypeInv, AfterTear, NEW t \in Writers, create_segment(t)
  PROVE  AfterTear'
<1>0. /\ pc[t] = "create_segment" /\ phase = "open" /\ \A u \in Writers \ {t} : pc[u] = "idle"
      /\ t \in Threads /\ pc \in [Threads -> Labels] /\ loc \in [Threads -> Locals]
  BY InMutex DEF create_segment, At, LogTypeInv, MutexOK, LocalsOK
<1>1. PICK b : b = loc[t].sgm
  OBVIOUS
<1>2. /\ files' = files \/ (b \notin DOMAIN files /\ files' = With(files, b, Unsized))
      /\ UNCHANGED <<sgms, tree, phase, acked, synced>>
  BY <1>1 DEF create_segment, life
<1>3. Still
  BY <1>2 DEF Still, With
<1>4. \A u \in Writers : Coming(u)'
  <2>1. CASE TryWriteReturns(t, ELFLEOP)
    <3>1. ELFLEOP \in Int /\ ELFLEOP <= 0 /\ pc[t] # "idle"
      BY <1>0 DEF ELFLEOP
    <3> QED BY <2>1, <3>1, RefusedComing
  <2>2. CASE Goto(t, "segment_open") /\ UNCHANGED loc
    <3>1. pc'[t] = "segment_open"
      BY <1>0, <2>2 DEF Goto
    <3>2. Coming(t)'
      BY <3>1 DEF Coming
    <3>3. loc' = [loc EXCEPT ![t] = loc[t]]
      BY <1>0, <2>2
    <3> QED BY <1>0, <2>2, <3>2, <3>3, OwnComing
  <2> QED BY <2>1, <2>2 DEF create_segment
<1>5. \A a \in acked' \cup synced' : Kept(a)
  BY <1>0, <1>2 DEF AfterTear, Running
<1> QED BY <1>0, <1>3, <1>4, <1>5, StillTear

LEMMA SegmentOpenTear ==
  ASSUME LogTypeInv, AfterTear, NEW t \in Writers, segment_open(t)
  PROVE  AfterTear'
<1>0. /\ pc[t] = "segment_open" /\ phase = "open" /\ \A u \in Writers \ {t} : pc[u] = "idle"
      /\ t \in Threads /\ pc \in [Threads -> Labels] /\ loc \in [Threads -> Locals] /\ loc[t] \in Locals
      /\ pc[t] # "idle"
  BY InMutex DEF segment_open, At, LogTypeInv, MutexOK, LocalsOK
<1>1. PICK b, f : b = loc[t].sgm /\ f = files[b]
  OBVIOUS
<1>2. PICK found : found = find_w_offset_pair(f.buffer, f.index, Size)
  OBVIOUS
<1>3. b \in DOMAIN files /\ IsFile(f) /\ Firm(f)
  BY <1>0, <1>1 DEF LogTypeInv, LocalsOK, WriterOK, FilesOK, AfterTear
<1>4. /\ files' = [files EXCEPT ![b].sized = TRUE]
      /\ UNCHANGED <<sgms, tree, phase, acked, synced>>
      /\ \/ TryWriteReturns(t, found.rc) \/ TryWriteReturns(t, ELMADV)
         \/ /\ found.rc = 0 /\ loc' = [loc EXCEPT ![t].new = Opened(found.pair)]
            /\ Goto(t, "segment_write")
  BY <1>1, <1>2 DEF segment_open, life
<1>5. /\ DOMAIN files' = DOMAIN files
      /\ \A c \in DOMAIN files : files'[c].buffer = files[c].buffer /\ files'[c].index = files[c].index
  BY <1>4 DEF LogTypeInv, FilesOK, IsFile
<1>6. Still
  BY <1>4, <1>5 DEF Still
<1>7. \A u \in Writers : Coming(u)'
  <2>1. CASE TryWriteReturns(t, found.rc) \/ TryWriteReturns(t, ELMADV)
    <3>1. ELMADV \in Int /\ ELMADV <= 0
      BY DEF ELMADV
    <3>2. found.rc \in Int /\ found.rc <= 0
      BY <1>2, <1>3, FoundType
    <3> QED BY <1>0, <2>1, <3>1, <3>2, RefusedComing
  <2>2. CASE /\ found.rc = 0 /\ loc' = [loc EXCEPT ![t].new = Opened(found.pair)]
             /\ Goto(t, "segment_write")
    <3>1. PositiveEnd(found.pair)
      BY <1>2, <1>3, <2>2, FoundPositive
    <3>2. PICK v : v = [loc[t] EXCEPT !.new = Opened(found.pair)]
      OBVIOUS
    <3>3. loc' = [loc EXCEPT ![t] = v] /\ loc'[t] = v /\ pc'[t] = "segment_write"
      BY <1>0, <2>2, <3>2 DEF Goto
    <3>4. v.new = Opened(found.pair)
      BY <1>0, <3>2 DEF Locals
    <3>5. v.new.w = found.pair
      BY <3>4 DEF Opened
    <3>6. Coming(t)'
      BY <3>1, <3>3, <3>5 DEF Coming
    <3> QED BY <1>0, <2>2, <3>3, <3>6, OwnComing
  <2> QED BY <1>4, <2>1, <2>2
<1>8. \A a \in acked' \cup synced' : Kept(a)
  BY <1>0, <1>4 DEF AfterTear, Running
<1> QED BY <1>0, <1>6, <1>7, <1>8, StillTear

LEMMA AppendRefusedTear ==
  ASSUME LogTypeInv, AfterTear, NEW t \in Writers, AppendRefused(t)
  PROVE  AfterTear'
<1>0. pc[t] # "idle" /\ phase = "open" /\ TryWriteReturns(t, ELIDXOP) /\ ELIDXOP \in Int /\ ELIDXOP <= 0
  BY DEF AppendRefused, At, ELIDXOP
<1>1. Still /\ UNCHANGED <<acked, synced>>
  BY DEF AppendRefused, Still, life
<1>2. \A u \in Writers : Coming(u)'
  BY <1>0, RefusedComing
<1>3. \A a \in acked' \cup synced' : Kept(a)
  BY <1>0, <1>1 DEF AfterTear, Running
<1> QED BY <1>0, <1>1, <1>2, <1>3, StillTear

LEMMA WriteTear ==
  ASSUME LogTypeInv, AfterTear, NEW t \in Writers, NEW p \in Payloads, mqlog_write(t, p)
  PROVE  AfterTear'
<1>0. /\ pc[t] = "idle" /\ t \in Threads /\ pc \in [Threads -> Labels] /\ loc \in [Threads -> Locals]
      /\ phase = "open"
  BY DEF mqlog_write, At, LogTypeInv, MutexOK, LocalsOK, Threads
<1>1. Still /\ UNCHANGED <<acked, synced>>
  BY DEF mqlog_write, Still, held, life
<1>2. \A u \in Writers : Coming(u)'
  <2>1. CASE UNCHANGED <<pc, loc>>
    BY <1>0, <1>1, <2>1, ComingStays
  <2>2. CASE /\ ~ Busy /\ Goto(t, "last_value")
             /\ loc' = [loc EXCEPT ![t] = [Idle(0) EXCEPT !.buf = p]]
    <3>1. \A u \in Writers \ {t} : pc[u] = "idle"
      <4>1. \A u \in Writers : u # NoThread
        BY LogAssumption DEF Threads
      <4> QED BY <2>2, <4>1 DEF Busy, LogTypeInv, MutexOK
    <3>2. pc'[t] = "last_value"
      BY <1>0, <2>2 DEF Goto
    <3>3. Coming(t)'
      BY <3>2 DEF Coming
    <3> QED BY <2>2, <3>1, <3>3, OwnComing
  <2> QED BY <2>1, <2>2 DEF mqlog_write
<1>3. \A a \in acked' \cup synced' : Kept(a)
  BY <1>0, <1>1 DEF AfterTear, Running
<1> QED BY <1>0, <1>1, <1>2, <1>3, StillTear

LEMMA UnlockTear ==
  ASSUME LogTypeInv, AfterTear, NEW t \in Writers, WriteUnlock(t)
  PROVE  AfterTear'
<1>0. /\ pc[t] = "unlock" /\ phase = "open" /\ \A u \in Writers \ {t} : pc[u] = "idle"
      /\ t \in Threads /\ pc \in [Threads -> Labels] /\ Coming(t)
  BY InMutex DEF WriteUnlock, At, LogTypeInv, MutexOK, AfterTear, Running
<1>1. /\ Still /\ UNCHANGED synced
      /\ acked' = IF loc[t].rc > 0 THEN acked \cup {<<loc[t].off, loc[t].buf>>} ELSE acked
      /\ loc' = [loc EXCEPT ![t] = Idle(0)] /\ Goto(t, "idle")
  BY DEF WriteUnlock, Still, held, life
<1>2. pc'[t] = "idle"
  BY <1>0, <1>1 DEF Goto
<1>3. Coming(t)'
  BY <1>2 DEF Coming
<1>4. \A u \in Writers : Coming(u)'
  BY <1>0, <1>1, <1>3, OwnComing
<1>5. \A a \in acked' \cup synced' : Kept(a)
  BY <1>0, <1>1 DEF AfterTear, Running, Coming
<1> QED BY <1>0, <1>1, <1>4, <1>5, StillTear

(* The steps of a consumer, and of a thread that syncs. *)
LEMMA OtherTear ==
  ASSUME LogTypeInv, AfterTear, phase = "open", Still, synced' \subseteq synced \cup acked, UNCHANGED acked,
         NEW t \in Threads, t \notin Writers, NEW l, Goto(t, l), NEW v, loc' = [loc EXCEPT ![t] = v]
  PROVE  AfterTear'
<1>1. \A u \in Writers : pc'[u] = pc[u] /\ loc'[u] = loc[u]
  BY DEF Goto, LogTypeInv, MutexOK, LocalsOK, Threads
<1>2. \A u \in Writers : Coming(u)'
  BY <1>1, ComingStays
<1>3. \A a \in acked' \cup synced' : Kept(a)
  BY DEF AfterTear, Running
<1> QED BY <1>2, <1>3, StillTear

LEMMA ReaderTear ==
  ASSUME LogTypeInv, AfterTear, NEW t \in Readers,
         ReaderStep(t) \/ \E off \in 0 .. MaxWrites : mqlog_read(t, off)
  PROVE  AfterTear'
<1>0. /\ t \in Threads /\ t \notin Writers
      /\ pc \in [Threads -> Labels] /\ loc \in [Threads -> Locals]
  BY LogAssumption DEF Threads, LogTypeInv, MutexOK, LocalsOK
<1>1. pc = [pc EXCEPT ![t] = pc[t]] /\ \A s : [loc EXCEPT ![t].sgm = s] = [loc EXCEPT ![t] = [loc[t] EXCEPT !.sgm = s]]
  BY <1>0
<1>2. \E l, v : Goto(t, l) /\ loc' = [loc EXCEPT ![t] = v]
  <2>1. CASE \E off \in 0 .. MaxWrites : mqlog_read(t, off)
    BY <1>1, <2>1 DEF mqlog_read, Goto
  <2>2. CASE leaf_floor(t)
    <3>1. CASE \E s : loc' = [loc EXCEPT ![t].sgm = s] /\ Goto(t, "segment_read")
      BY <1>1, <3>1
    <3>2. CASE \E rc : ReadReturns(t, rc, NoPayload)
      BY <3>2 DEF ReadReturns
    <3> QED BY <2>2, <3>1, <3>2 DEF leaf_floor, NothingFound
  <2>3. CASE segment_read(t)
    <3>1. \E rc, p : ReadReturns(t, rc, p)
      BY <2>3 DEF segment_read
    <3> QED BY <3>1 DEF ReadReturns
  <2> QED BY <2>1, <2>2, <2>3 DEF ReaderStep
<1>3. phase = "open" /\ UNCHANGED <<files, sgms, tree, phase, acked, synced>>
  BY DEF ReaderStep, leaf_floor, segment_read, mqlog_read, At, held, life
<1>4. Still
  BY <1>3 DEF Still
<1>5. PICK l, v : Goto(t, l) /\ loc' = [loc EXCEPT ![t] = v]
  BY <1>2
<1> QED BY <1>0, <1>3, <1>4, <1>5, OtherTear

LEMMA SyncTear ==
  ASSUME LogTypeInv, AfterTear, NEW t \in Syncers, mqlog_sync(t) \/ segment_sync(t)
  PROVE  AfterTear'
<1>0. t \in Threads /\ t \notin Writers /\ phase = "open"
  BY LogAssumption DEF Threads, mqlog_sync, segment_sync, At
<1>1. CASE mqlog_sync(t)
  <2>1. PICK l, v : Goto(t, l) /\ loc' = [loc EXCEPT ![t] = v]
    BY <1>1 DEF mqlog_sync
  <2>2. Still /\ UNCHANGED <<acked, synced>>
    BY <1>1 DEF mqlog_sync, Still, held, life
  <2>3. synced' \subseteq synced \cup acked
    BY <2>2
  <2> QED BY <1>0, <2>1, <2>2, <2>3, OtherTear
<1>2. CASE segment_sync(t) /\ Crashes
  <2>1. Still /\ UNCHANGED <<acked, synced, pc, loc>>
    BY <1>2 DEF Crashes, Still, held, life
  <2>2. \A u \in Writers : Coming(u)'
    BY <1>0, <2>1, ComingStays
  <2>3. \A a \in acked' \cup synced' : Kept(a)
    BY <1>0, <2>1 DEF AfterTear, Running
  <2> QED BY <1>0, <2>1, <2>2, <2>3, StillTear
<1>3. CASE segment_sync(t) /\ ~ Crashes
  <2>1. PICK b : b = tree[loc[t].off].sgm
    OBVIOUS
  <2>2. /\ UNCHANGED <<files, tree, phase, acked>> /\ b # NULL
        /\ sgms' = [sgms EXCEPT ![b].s = sgms[b].w]
        /\ synced' = synced \cup SyncedIn(b)
        /\ loc' = [loc EXCEPT ![t] = Idle(0)] /\ Goto(t, "idle")
    BY <1>3, <2>1 DEF segment_sync, life
  <2>3. b \in DOMAIN sgms /\ sgms[b] \in OpenSegment
    <3>1. pc[t] = "segment_sync"
      BY <1>3 DEF segment_sync, At
    <3> QED BY <2>1, <2>2, <3>1 DEF LogTypeInv, LocalsOK, TreeOK, SgmsOK
  <2>4. DOMAIN sgms' = DOMAIN sgms /\ \A c \in DOMAIN sgms : sgms'[c].w = sgms[c].w
    BY <2>2, <2>3 DEF OpenSegment
  <2>5. Still
    BY <2>2, <2>4 DEF Still
  <2>6. synced' \subseteq synced \cup acked /\ UNCHANGED acked
    BY <2>2 DEF SyncedIn
  <2> QED BY <1>0, <2>2, <2>5, <2>6, OtherTear
<1> QED BY <1>1, <1>2, <1>3

(* segment_write stores nothing over a frame that lies before the write    *)
(* offset, and the frame it writes does.                                   *)
LEMMA TornWrite ==
  ASSUME NEW f, IsFile(f), Firm(f), NEW w \in Pair, PositiveEnd(w), NEW p \in Payloads,
         NEW res, res = SegmentWrite(f, w, p), res.rc = ELEOS \/ w.index \in Entry
  PROVE  /\ Firm(res.file) /\ PositiveEnd(res.w)
         /\ \A i : \A q \in Payloads : Placed(f, w, i, q) => Placed(res.file, res.w, i, q)
         /\ res.rc # ELEOS => Placed(res.file, res.w, w.index, p)
<1>0. /\ w.index \in Nat /\ w.data \in Nat /\ w = [index |-> w.index, data |-> w.data]
      /\ f.index \in [Entry -> Nat] /\ IsBuffer(f.buffer)
      /\ f = [sized |-> f.sized, buffer |-> f.buffer, index |-> f.index]
      /\ \A j \in Entry : j \in Nat
      /\ SizeOf[p] \in Nat /\ FrameSize(p) \in Nat /\ FrameSize(p) = SizeOf[p] + 12
  BY Entries, SizeOfType DEF Pair, IsFile
<1>1. CASE EosAt(f, w)
  <2>1. res = [file |-> f, w |-> w, rc |-> ELEOS]
    BY <1>1, EndedStays
  <2>2. res.file = f /\ res.w = w /\ res.rc = ELEOS
    BY <2>1
  <2> QED BY <2>2
<1>2. CASE ~ EosAt(f, w)
  <2>1. PICK n, x, g : n = w.index /\ x = w.data /\ g = res.file
    OBVIOUS
  <2>2. n \in Nat /\ x \in Nat /\ (n >= 1 => x >= 1)
    BY <1>0, <2>1 DEF PositiveEnd
  \* Nothing changes in front of the write offset.
  <2>3. ASSUME \A y \in Nat : y < x => HeaderAt(g.buffer, y) = HeaderAt(f.buffer, y),
               \A i \in Entry : i < n => g.index[i] = f.index[i],
               res.w.index \in Nat, res.w.data \in Nat, res.w.index >= n, res.w.data >= x
        PROVE  \A i : \A q \in Payloads : Placed(f, w, i, q) => Placed(g, res.w, i, q)
    <3> SUFFICES ASSUME NEW i, NEW q \in Payloads, Placed(f, w, i, q) PROVE Placed(g, res.w, i, q)
      OBVIOUS
    <3>1. i \in Nat /\ i < n /\ i \in Entry /\ Present(f, i, q) /\ f.index[i] + FrameSize(q) <= x
      BY <2>1 DEF Placed, Present
    <3>2. f.index[i] \in Nat /\ FrameSize(q) \in Nat /\ FrameSize(q) >= 12
      BY <1>0, <3>1, SizeOfType
    <3>3. f.index[i] < x
      BY <2>2, <3>1, <3>2
    <3>4. g.index[i] = f.index[i] /\ HeaderAt(g.buffer, f.index[i]) = HeaderAt(f.buffer, f.index[i])
      BY <2>3, <3>1, <3>2, <3>3
    <3>5. Present(g, i, q)
      BY <3>1, <3>4 DEF Present
    <3>6. i < res.w.index /\ g.index[i] + FrameSize(q) <= res.w.data
      BY <2>2, <2>3, <3>1, <3>2, <3>4
    <3> QED BY <3>1, <3>5, <3>6 DEF Placed
  <2>4. ASSUME NEW hdr, hdr.size \in Nat, hdr.size >= 1, HeaderAt(g.buffer, x) = hdr,
               \A y \in Nat : y < x => HeaderAt(g.buffer, y) = HeaderAt(f.buffer, y)
        PROVE  Firm(g)
    <3>1. CASE x = 0
      BY <2>4, <3>1 DEF Firm
    <3>2. CASE x # 0
      <4>1. HeaderAt(g.buffer, 0) = HeaderAt(f.buffer, 0)
        BY <2>2, <2>4, <3>2
      <4> QED BY <4>1 DEF Firm
    <3> QED BY <3>1, <3>2
  <2>5. CASE ~ HasRoom(Size, x, p)
    <3>0. res = [file |-> [sized |-> f.sized, buffer |-> StoreHeader(f.buffer, x, EosHeader), index |-> f.index],
                 w |-> [index |-> n, data |-> x + 12], rc |-> ELEOS]
      BY <1>0, <1>2, <2>1, <2>5 DEF SegmentWrite
    <3>1. /\ g.index = f.index /\ g.buffer = StoreHeader(f.buffer, x, EosHeader)
          /\ res.w = [index |-> n, data |-> x + 12] /\ res.rc = ELEOS
      BY <2>1, <3>0
    <3>2. /\ \A y \in Nat : y < x => HeaderAt(g.buffer, y) = HeaderAt(f.buffer, y)
          /\ HeaderAt(g.buffer, x) = EosHeader
      BY <2>2, <3>1, StoreHeaderAt
    <3>3. EosHeader.size \in Nat /\ EosHeader.size >= 1
      BY DEF EosHeader
    <3>4. Firm(g)
      BY <2>4, <3>2, <3>3
    <3>5. res.w.index = n /\ res.w.data = x + 12
      BY <3>1
    <3>6. PositiveEnd(res.w)
      BY <2>2, <3>5 DEF PositiveEnd
    <3>7. \A i : \A q \in Payloads : Placed(f, w, i, q) => Placed(g, res.w, i, q)
      BY <2>2, <2>3, <3>1, <3>2, <3>5
    <3> QED BY <2>1, <3>1, <3>4, <3>6, <3>7
  <2>6. CASE HasRoom(Size, x, p)
    <3>0. PICK hdr : hdr = [flags |-> "READY", size |-> FrameSize(p), payload |-> p]
      OBVIOUS
    <3>1. /\ g.buffer = StoreHeader(CopyPayload(f.buffer, x, p), x, hdr)
          /\ g.index = With(f.index, n, x)
          /\ res.w = [index |-> n + 1, data |-> x + FrameSize(p)] /\ res.rc = SizeOf[p]
      BY <1>0, <1>2, <2>1, <2>6, <3>0 DEF SegmentWrite
    <3>2. n \in Entry
      BY <1>0, <2>1, <3>1 DEF ELEOS
    <3>3. /\ \A y \in Nat : y < x => HeaderAt(g.buffer, y) = HeaderAt(f.buffer, y)
          /\ HeaderAt(g.buffer, x) = hdr
      BY <1>0, <2>2, <3>1, StoreHeaderAt, CopyPayloadBelow
    <3>4. hdr.size \in Nat /\ hdr.size >= 1
      BY <1>0, <3>0
    <3>5. Firm(g)
      BY <2>4, <3>3, <3>4
    <3>6. res.w.index = n + 1 /\ res.w.data = x + FrameSize(p)
      BY <3>1
    <3>7. PositiveEnd(res.w)
      BY <1>0, <2>2, <3>6 DEF PositiveEnd
    <3>8. g.index[n] = x /\ \A i \in Entry : i < n => g.index[i] = f.index[i]
      BY <1>0, <2>2, <3>1, <3>2 DEF With
    <3>9. \A i : \A q \in Payloads : Placed(f, w, i, q) => Placed(g, res.w, i, q)
      <4>1. res.w.index \in Nat /\ res.w.data \in Nat /\ res.w.index >= n /\ res.w.data >= x
        BY <1>0, <2>2, <3>6
      <4> QED BY <2>3, <3>3, <3>8, <4>1
    <3>10. Placed(g, res.w, n, p)
      <4>1. Present(g, n, p)
        BY <2>2, <3>0, <3>2, <3>3, <3>8 DEF Present
      <4>2. n < res.w.index /\ g.index[n] + FrameSize(p) <= res.w.data
        BY <1>0, <2>2, <3>6, <3>8
      <4> QED BY <2>2, <4>1, <4>2 DEF Placed
    <3> QED BY <2>1, <3>5, <3>7, <3>9, <3>10
  <2> QED BY <2>1, <2>5, <2>6
<1> QED BY <1>1, <1>2

(* Where the next segment begins is behind everything. *)
LEMMA TornTop ==
  ASSUME LogTypeInv, Running, \A i \in DOMAIN tree : tree[i].sgm # NULL
  PROVE  /\ NextBase \in Nat
         /\ \A i \in DOMAIN tree : tree[i].key \in Nat /\ tree[i].key <= NextBase
         /\ tree # <<>> => \A i \in DOMAIN tree : tree[i].key <= Last(tree).key
         /\ \A b \in DOMAIN sgms : tree # <<>> /\ b <= Last(tree).key
<1>1. CASE tree = <<>>
  <2>1. NextBase = 0 /\ DOMAIN tree = {}
    BY <1>1 DEF NextBase
  <2>2. \A b \in DOMAIN sgms : FALSE
    BY <2>1 DEF Running
  <2> QED BY <2>1, <2>2
<1>2. CASE tree # <<>>
  <2>1. PICK n, last, k : n = Len(tree) /\ last = Last(tree).key /\ k = sgms[last].w.index
    OBVIOUS
  <2>2. last \in Nat /\ k \in Nat /\ NextBase = last + k
    BY <1>2, <2>1, LastOpen
  <2>3. n \in DOMAIN tree /\ DOMAIN tree = 1 .. n /\ n \in Nat /\ tree[n].key = last
    BY <1>2, <2>1, LastType
  <2>4. ASSUME NEW i \in DOMAIN tree PROVE tree[i].key \in Nat /\ tree[i].key <= last
    <3>1. tree[i].key \in Nat
      <4>1. tree[i].key \in DOMAIN sgms
        BY DEF LogTypeInv, TreeOK
      <4> QED BY <4>1 DEF LogTypeInv, SgmsOK, FilesOK
    <3>2. CASE i = n
      BY <2>2, <2>3, <3>2
    <3>3. CASE i < n
      <4>1. tree[i].key < tree[n].key
        BY <2>3, <3>3 DEF Running
      <4> QED BY <2>2, <2>3, <3>1, <4>1
    <3> QED BY <2>3, <3>1, <3>2, <3>3
  <2>5. \A b \in DOMAIN sgms : b <= last
    BY <2>4 DEF Running
  <2> QED BY SMTT(30), <1>2, <2>1, <2>2, <2>4, <2>5
<1> QED BY <1>1, <1>2

(* A new segment is where no other is, or at the one that has no frames. *)
LEMMA FreshPlace ==
  ASSUME LogTypeInv, Running, \A i \in DOMAIN tree : tree[i].sgm # NULL,
         NEW b, b = NextBase, b \in DOMAIN sgms
  PROVE  sgms[b].w.index = 0
<1>1. tree # <<>> /\ b <= Last(tree).key /\ b \in Nat
  BY TornTop
<1>2. PICK last, k : last = Last(tree).key /\ k = sgms[last].w.index
  OBVIOUS
<1>3. last \in Nat /\ k \in Nat /\ b = last + k
  BY <1>1, <1>2, LastOpen
<1>4. b = last /\ k = 0
  BY <1>1, <1>2, <1>3
<1> QED BY <1>2, <1>4

LEMMA SegmentWriteTear ==
  ASSUME LogTypeInv, AfterTear, NEW t \in Writers, segment_write(t)
  PROVE  AfterTear'
<1>0. /\ pc[t] = "segment_write" /\ phase = "open" /\ \A u \in Writers \ {t} : pc[u] = "idle"
      /\ t \in Threads /\ loc[t] \in Locals /\ pc \in [Threads -> Labels] /\ WriterOK(t)
      /\ loc[t].buf \in Payloads /\ \A i \in DOMAIN tree : tree[i].sgm # NULL
  BY InMutex, NoneMissing DEF segment_write, At, LogTypeInv, MutexOK, WriterOK
<1>1. /\ Running /\ Coming(t) /\ pc[t] # "idle"
      /\ \A c \in DOMAIN files : Firm(files[c]) /\ IsFile(files[c]) /\ c \in Nat
  BY <1>0 DEF AfterTear, Running, LogTypeInv, FilesOK
<1>2. PICK b, p : b = loc[t].sgm /\ p = loc[t].buf
  OBVIOUS
<1>3. PICK sgm : sgm = IF loc[t].fresh THEN loc[t].new ELSE sgms[b]
  OBVIOUS
<1>4. PICK f, w : f = files[b] /\ w = sgm.w
  OBVIOUS
<1>5. PICK res : res = SegmentWrite(f, w, p)
  OBVIOUS
<1>6. ASSUME ~ loc[t].fresh PROVE tree # <<>> /\ b = Last(tree).key /\ b \in DOMAIN sgms
  <2>1. tree # <<>> /\ b = Last(tree).sgm
    BY <1>0, <1>2, <1>6 DEF WriterOK
  <2> QED BY <1>0, <2>1, LastOpen
<1>7. loc[t].fresh => b = NextBase
  BY <1>0, <1>2 DEF WriterOK
<1>8. b \in DOMAIN files /\ b \in Nat /\ IsFile(f) /\ Firm(f) /\ p \in Payloads
  BY <1>0, <1>1, <1>2, <1>4 DEF WriterOK
<1>9. w \in Pair /\ PositiveEnd(w) /\ w.index \in Nat
  <2>1. CASE loc[t].fresh
    <3>1. w = loc[t].new.w
      BY <1>3, <1>4, <2>1
    <3>2. loc[t].new \in OpenSegment
      BY <1>0 DEF Locals
    <3> QED BY <1>0, <1>1, <2>1, <3>1, <3>2 DEF Coming, OpenSegment, Pair
  <2>2. CASE ~ loc[t].fresh
    <3>1. w = sgms[b].w /\ b \in DOMAIN sgms
      BY <1>3, <1>4, <1>6, <2>2
    <3> QED BY <1>1, <3>1 DEF Running, LogTypeInv, SgmsOK, OpenSegment, Pair
  <2> QED BY <2>1, <2>2
<1>10. CASE Crashes
  <2>1. Still /\ UNCHANGED <<acked, synced, pc, loc>>
    BY <1>10 DEF Crashes, Still, held, life
  <2>2. \A u \in Writers : Coming(u)'
    BY <1>0, <2>1, ComingStays
  <2>3. \A a \in acked' \cup synced' : Kept(a)
    BY <1>1, <2>1 DEF Running
  <2> QED BY <1>0, <2>1, <2>2, <2>3, StillTear
<1>11. ASSUME Outcome(t, b, sgm, res) PROVE AfterTear'
  <2>0. /\ UNCHANGED <<tree, phase, acked, synced>>
        /\ files' = [files EXCEPT ![b] = res.file]
        /\ sgms' = (IF loc[t].fresh THEN sgms ELSE [sgms EXCEPT ![b].w = res.w])
        /\ loc' = [loc EXCEPT ![t] = loc'[t]]
        /\ res.rc = ELEOS \/ w.index \in Entry
    BY <1>4, <1>11 DEF Outcome
  <2>1. /\ Firm(res.file) /\ PositiveEnd(res.w)
        /\ \A i : \A q \in Payloads : Placed(f, w, i, q) => Placed(res.file, res.w, i, q)
        /\ res.rc # ELEOS => Placed(res.file, res.w, w.index, p)
    BY <1>5, <1>8, <1>9, <2>0, TornWrite
  <2>2. /\ DOMAIN files' = DOMAIN files /\ files'[b] = res.file
        /\ \A c \in DOMAIN files : c # b => files'[c] = files[c]
        /\ DOMAIN sgms' = DOMAIN sgms
        /\ \A c \in DOMAIN sgms : c # b \/ loc[t].fresh => sgms'[c].w = sgms[c].w
        /\ ~ loc[t].fresh => sgms'[b].w = res.w
    <3>1. ~ loc[t].fresh => sgms[b] \in OpenSegment /\ b \in DOMAIN sgms
      BY <1>6 DEF LogTypeInv, SgmsOK
    <3> QED BY <1>8, <2>0, <3>1 DEF OpenSegment
  <2>3. ASSUME NEW a \in acked \cup synced PROVE Kept(a)'
    <3>1. PICK c \in DOMAIN sgms :
            /\ c <= a[1] /\ Placed(files[c], sgms[c].w, a[1] - c, a[2])
            /\ \A i \in DOMAIN tree : tree[i].key > c => tree[i].key > a[1]
      BY <1>1 DEF Running, Kept
    <3>2. c \in DOMAIN files /\ a[2] \in Payloads
      BY DEF LogTypeInv, SgmsOK, HistoryOK, Frame
    <3>3. Placed(files'[c], sgms'[c].w, a[1] - c, a[2])
      <4>1. CASE c # b
        BY <2>2, <3>1, <3>2, <4>1
      <4>2. CASE c = b /\ ~ loc[t].fresh
        <5>1. w = sgms[b].w
          BY <1>3, <1>4, <4>2
        <5> QED BY <1>4, <2>1, <2>2, <3>1, <3>2, <4>2, <5>1
      <4>3. CASE c = b /\ loc[t].fresh
        <5>1. sgms[b].w.index = 0
          BY <1>0, <1>1, <1>7, <4>3, FreshPlace
        <5>2. a[1] - c \in Nat /\ a[1] - c < 0
          BY <3>1, <4>3, <5>1 DEF Placed
        <5> QED BY <5>2
      <4> QED BY <4>1, <4>2, <4>3
    <3> QED BY <2>0, <2>2, <3>1, <3>3 DEF Kept
  <2>4. \A c \in DOMAIN files' : Firm(files'[c])
    BY <1>1, <2>1, <2>2
  <2>5. \A c \in DOMAIN sgms' : PositiveEnd(sgms'[c].w)
    BY <1>1, <2>1, <2>2 DEF Running
  <2>6. \A u \in Writers : Coming(u)'
    <3>1. CASE /\ res.rc # ELEOS
               /\ loc'[t].sgm = b /\ loc'[t].buf = p /\ loc'[t].off = b + w.index
               /\ loc[t].fresh => loc'[t].new.w = res.w
               /\ Goto(t, IF loc[t].fresh THEN "mbptree_append" ELSE "unlock")
      <4>0. Placed(files'[b], res.w, w.index, p) /\ b <= b + w.index /\ (b + w.index) - b = w.index
        BY <1>8, <1>9, <2>1, <2>2, <3>1
      <4>1. CASE loc[t].fresh
        <5>1. pc'[t] = "mbptree_append" /\ Goto(t, "mbptree_append")
          BY <1>0, <3>1, <4>1 DEF Goto
        <5>2. Coming(t)'
          BY <2>1, <3>1, <4>0, <4>1, <5>1 DEF Coming
        <5> QED BY <1>0, <2>0, <5>1, <5>2, OwnComing
      <4>2. CASE ~ loc[t].fresh
        <5>1. pc'[t] = "unlock" /\ Goto(t, "unlock")
          BY <1>0, <3>1, <4>2 DEF Goto
        <5>2. \A i \in DOMAIN tree : ~ (tree[i].key > b)
          <6>1. tree # <<>> /\ b = Last(tree).key
            BY <1>6, <4>2
          <6>2. \A i \in DOMAIN tree : tree[i].key \in Nat /\ tree[i].key <= b
            BY <1>0, <1>1, <6>1, TornTop
          <6> QED BY <1>8, <6>2
        <5>3. PICK a : a = <<b + w.index, p>>
          OBVIOUS
        <5>4. a[1] = b + w.index /\ a[2] = p /\ b <= a[1] /\ a[1] - b = w.index
          BY <4>0, <5>3
        <5>5. b \in DOMAIN sgms' /\ sgms'[b].w = res.w /\ Placed(files'[b], sgms'[b].w, a[1] - b, a[2])
          BY <1>6, <2>2, <4>0, <4>2, <5>4
        <5>6. Kept(a)'
          BY <2>0, <5>2, <5>4, <5>5 DEF Kept
        <5>7. Coming(t)'
          BY <3>1, <5>1, <5>3, <5>6 DEF Coming
        <5> QED BY <1>0, <2>0, <5>1, <5>7, OwnComing
      <4> QED BY <4>1, <4>2
    <3>2. CASE Goto(t, "create_segment")
      <4>1. pc'[t] = "create_segment"
        BY <1>0, <3>2 DEF Goto
      <4>2. Coming(t)'
        BY <4>1 DEF Coming
      <4> QED BY <1>0, <2>0, <3>2, <4>2, OwnComing
    <3>3. CASE TryWriteReturns(t, ELNOWCP)
      <4>1. ELNOWCP \in Int /\ ELNOWCP <= 0
        BY DEF ELNOWCP
      <4> QED BY <1>1, <3>3, <4>1, RefusedComing
    <3> QED BY <1>2, <1>4, <1>11, <3>1, <3>2, <3>3 DEF Outcome
  <2>7. Running'
    BY <1>1, <2>0, <2>2, <2>3, <2>5, <2>6 DEF Running
  <2> QED BY <1>0, <2>0, <2>4, <2>7 DEF AfterTear
<1> QED BY <1>2, <1>3, <1>4, <1>5, <1>10, <1>11, WriteOutcome

LEMMA AppendTear ==
  ASSUME LogTypeInv, AfterTear, NEW t \in Writers, mbptree_append(t)
  PROVE  AfterTear'
<1>0. /\ pc[t] = "mbptree_append" /\ phase = "open" /\ \A u \in Writers \ {t} : pc[u] = "idle"
      /\ t \in Threads /\ loc[t] \in Locals /\ pc \in [Threads -> Labels] /\ loc \in [Threads -> Locals]
      /\ WriterOK(t) /\ \A i \in DOMAIN tree : tree[i].sgm # NULL
  BY InMutex, NoneMissing DEF mbptree_append, At, LogTypeInv, MutexOK, LocalsOK
<1>1. Running /\ Coming(t)
  BY <1>0 DEF AfterTear, Running
<1>2. PICK b, n : b = loc[t].sgm /\ n = Len(tree)
  OBVIOUS
<1>3. /\ UNCHANGED <<files, sgms, phase, acked, synced, loc>> /\ Monotonic(b)
      /\ tree' = Append(tree, [key |-> b, sgm |-> NULL]) /\ Goto(t, "store_value")
  BY <1>2 DEF mbptree_append, life
<1>4. b = NextBase /\ b \in Nat /\ b \in DOMAIN files
  BY <1>0, <1>2 DEF WriterOK, Locals
<1>5. /\ n \in Nat /\ DOMAIN tree = 1 .. n /\ DOMAIN tree' = 1 .. n + 1
      /\ \A i \in 1 .. n : tree'[i] = tree[i]
      /\ tree'[n + 1] = [key |-> b, sgm |-> NULL] /\ tree'[n + 1].key = b
  <2> DEFINE T == [key : Nat, sgm : Nat \cup {NULL}]
  <2>1. tree \in Seq(T)
    BY DEF LogTypeInv, TreeOK
  <2>2. PICK e : e = [key |-> b, sgm |-> NULL]
    OBVIOUS
  <2>3. e \in T /\ tree' = Append(tree, e) /\ e.key = b
    BY <1>3, <1>4, <2>2
  <2> HIDE DEF T
  <2> QED BY <1>2, <2>1, <2>2, <2>3
<1>6. \A i \in 1 .. n : tree[i].key \in Nat /\ tree[i].key < b
  <2> SUFFICES ASSUME NEW i \in 1 .. n PROVE tree[i].key \in Nat /\ tree[i].key < b
    OBVIOUS
  <2>1. tree # <<>>
    BY <1>5
  <2>2. Last(tree).key < b /\ Last(tree).key \in Nat /\ tree[i].key <= Last(tree).key /\ tree[i].key \in Nat
    BY <1>0, <1>1, <1>3, <1>4, <1>5, <2>1, TornTop, LastType DEF Monotonic
  <2> QED BY <1>4, <2>2
<1>7. b \notin DOMAIN sgms
  <2> SUFFICES ASSUME b \in DOMAIN sgms PROVE FALSE
    OBVIOUS
  <2>1. PICK i \in 1 .. n : tree[i].key = b
    BY <1>1, <1>5 DEF Running
  <2> QED BY <1>4, <1>6, <2>1
<1>8. /\ \A c \in DOMAIN sgms : \E i \in DOMAIN tree' : tree'[i].key = c
      /\ \A i, j \in DOMAIN tree' : i < j => tree'[i].key < tree'[j].key
  <2>1. ASSUME NEW c \in DOMAIN sgms PROVE \E i \in DOMAIN tree' : tree'[i].key = c
    <3>1. PICK i \in DOMAIN tree : tree[i].key = c
      BY <1>1 DEF Running
    <3> QED BY <1>5, <3>1
  <2>2. ASSUME NEW i \in DOMAIN tree', NEW j \in DOMAIN tree', i < j PROVE tree'[i].key < tree'[j].key
    <3>0. i \in 1 .. n
      BY <1>5, <2>2
    <3>1. CASE j = n + 1
      BY <1>5, <1>6, <3>0, <3>1
    <3>2. CASE j \in 1 .. n
      BY <1>1, <1>5, <2>2, <3>0, <3>2 DEF Running
    <3> QED BY <1>5, <3>1, <3>2
  <2> QED BY <2>1, <2>2
<1>9. ASSUME NEW a \in acked \cup synced PROVE Kept(a)'
  <2>1. PICK c \in DOMAIN sgms :
          /\ c <= a[1] /\ Placed(files[c], sgms[c].w, a[1] - c, a[2])
          /\ \A i \in DOMAIN tree : tree[i].key > c => tree[i].key > a[1]
    BY <1>1 DEF Running, Kept
  <2>2. PICK last, k : last = Last(tree).key /\ k = sgms[last].w.index
    OBVIOUS
  <2>3. tree # <<>> /\ c <= last /\ c \in Nat /\ a[1] \in Nat
    <3>1. tree # <<>> /\ c <= last
      BY <1>0, <1>1, <2>2, TornTop
    <3>2. c \in Nat /\ a[1] \in Nat
      BY DEF LogTypeInv, SgmsOK, FilesOK, HistoryOK, Frame
    <3> QED BY <3>1, <3>2
  <2>4. last \in Nat /\ k \in Nat /\ b = last + k
    BY <1>0, <1>4, <2>2, <2>3, LastOpen
  <2>5. n \in DOMAIN tree /\ tree[n].key = last
    BY <1>2, <2>2, <2>3, LastType
  <2>6. b > a[1]
    <3>1. CASE c = last
      <4>1. a[1] - c < k
        BY <2>1, <2>2, <3>1 DEF Placed
      <4> QED BY <2>3, <2>4, <3>1, <4>1
    <3>2. CASE c # last
      <4>1. last > a[1]
        BY <2>1, <2>3, <2>4, <2>5, <3>2
      <4> QED BY <2>3, <2>4, <4>1
    <3> QED BY <3>1, <3>2
  <2>7. \A i \in DOMAIN tree' : tree'[i].key > c => tree'[i].key > a[1]
    BY <1>5, <2>1, <2>6
  <2> QED BY <1>3, <2>1, <2>7 DEF Kept
<1>10. pc'[t] = "store_value"
  BY <1>0, <1>3 DEF Goto
<1>11. Coming(t)'
  BY <1>0, <1>1, <1>2, <1>3, <1>7, <1>10 DEF Coming
<1>12. loc' = [loc EXCEPT ![t] = loc[t]]
  BY <1>0, <1>3
<1>13. \A u \in Writers : Coming(u)'
  BY <1>0, <1>3, <1>11, <1>12, OwnComing
<1>14. Running'
  BY <1>1, <1>3, <1>8, <1>9, <1>13 DEF Running
<1> QED BY <1>0, <1>3, <1>14 DEF AfterTear

LEMMA StoreValueTear ==
  ASSUME LogTypeInv, AfterTear, NEW t \in Writers, StoreValue(t)
  PROVE  AfterTear'
<1>0. /\ pc[t] = "store_value" /\ phase = "open" /\ \A u \in Writers \ {t} : pc[u] = "idle"
      /\ t \in Threads /\ loc[t] \in Locals /\ pc \in [Threads -> Labels] /\ loc \in [Threads -> Locals]
      /\ WriterOK(t)
  BY InMutex DEF StoreValue, At, LogTypeInv, MutexOK, LocalsOK
<1>1. Running /\ Coming(t)
  BY <1>0 DEF AfterTear, Running
<1>2. PICK b, n : b = loc[t].sgm /\ n = Len(tree)
  OBVIOUS
<1>3. /\ UNCHANGED <<files, phase, acked, synced, loc>> /\ Goto(t, "unlock")
      /\ tree' = [tree EXCEPT ![n].sgm = b] /\ sgms' = With(sgms, b, loc[t].new)
  BY <1>2 DEF StoreValue, NewSlot, life
<1>4. /\ b \in Nat /\ b \notin DOMAIN sgms
      /\ tree # <<>> /\ Last(tree) = [key |-> b, sgm |-> NULL] /\ loc[t].off \in Nat
      /\ PositiveEnd(loc[t].new.w) /\ b <= loc[t].off
      /\ Placed(files[b], loc[t].new.w, loc[t].off - b, loc[t].buf)
  BY <1>0, <1>1, <1>2 DEF WriterOK, Coming, Locals
<1>5. n \in DOMAIN tree /\ tree[n].key = b /\ DOMAIN tree = 1 .. n /\ n \in Nat
  BY <1>2, <1>4, LastType
<1>6. DOMAIN tree' = DOMAIN tree /\ \A i \in DOMAIN tree : tree'[i].key = tree[i].key
  <2> DEFINE T == [key : Nat, sgm : Nat \cup {NULL}]
  <2>1. tree \in Seq(T)
    BY DEF LogTypeInv, TreeOK
  <2>2. \A i \in DOMAIN tree : tree[i] \in T
    <3> HIDE DEF T
    <3> QED BY <2>1
  <2>3. DOMAIN tree' = DOMAIN tree
    BY <1>3
  <2>4. ASSUME NEW i \in DOMAIN tree PROVE tree'[i].key = tree[i].key
    <3>1. tree[i] \in T
      BY <2>2
    <3>2. CASE i # n
      BY <1>3, <3>2
    <3>3. CASE i = n
      <4>1. tree'[i] = [tree[i] EXCEPT !.sgm = b]
        BY <1>3, <3>3
      <4> QED BY <3>1, <4>1
    <3> QED BY <3>2, <3>3
  <2> QED BY <2>3, <2>4
<1>7. DOMAIN sgms' = DOMAIN sgms \cup {b} /\ sgms'[b] = loc[t].new
      /\ \A c \in DOMAIN sgms : sgms'[c] = sgms[c] /\ c # b
  BY <1>3, <1>4 DEF With
<1>8. /\ \A c \in DOMAIN sgms' : \E i \in DOMAIN tree' : tree'[i].key = c
      /\ \A i, j \in DOMAIN tree' : i < j => tree'[i].key < tree'[j].key
      /\ \A c \in DOMAIN sgms' : PositiveEnd(sgms'[c].w)
  BY <1>1, <1>4, <1>5, <1>6, <1>7 DEF Running
<1>9. ASSUME NEW a \in acked \cup synced PROVE Kept(a)'
  <2>1. PICK c \in DOMAIN sgms :
          /\ c <= a[1] /\ Placed(files[c], sgms[c].w, a[1] - c, a[2])
          /\ \A i \in DOMAIN tree : tree[i].key > c => tree[i].key > a[1]
    BY <1>1 DEF Running, Kept
  <2> QED BY <1>3, <1>6, <1>7, <2>1 DEF Kept
<1>10. pc'[t] = "unlock"
  BY <1>0, <1>3 DEF Goto
<1>11. \A i \in DOMAIN tree' : ~ (tree'[i].key > b)
  <2> SUFFICES ASSUME NEW i \in DOMAIN tree PROVE ~ (tree[i].key > b)
    BY <1>6
  <2>1. CASE i = n
    BY <1>4, <1>5, <2>1
  <2>2. CASE i < n
    <3>1. tree[i].key < b
      BY <1>1, <1>5, <2>2 DEF Running
    <3>2. tree[i].key \in Nat
      <4>1. tree[i].key \in DOMAIN sgms
        BY <1>2, <1>5, <2>2 DEF LogTypeInv, TreeOK
      <4> QED BY <4>1 DEF LogTypeInv, SgmsOK, FilesOK
    <3> QED BY <1>4, <3>1, <3>2
  <2> QED BY <1>5, <2>1, <2>2
<1>12. Kept(<<loc[t].off, loc[t].buf>>)'
  <2>1. PICK a : a = <<loc[t].off, loc[t].buf>>
    OBVIOUS
  <2>2. a[1] = loc[t].off /\ a[2] = loc[t].buf
    BY <2>1
  <2>3. b \in DOMAIN sgms' /\ b <= a[1] /\ Placed(files[b], sgms'[b].w, a[1] - b, a[2])
    BY <1>4, <1>7, <2>2
  <2>4. Kept(a)'
    BY <1>3, <1>11, <2>3 DEF Kept
  <2> QED BY <1>3, <2>1, <2>4
<1>13. Coming(t)'
  BY <1>3, <1>10, <1>12 DEF Coming
<1>14. loc' = [loc EXCEPT ![t] = loc[t]]
  BY <1>0, <1>3
<1>15. \A u \in Writers : Coming(u)'
  BY <1>0, <1>3, <1>13, <1>14, OwnComing
<1>16. Running'
  BY <1>3, <1>8, <1>9, <1>15 DEF Running
<1> QED BY <1>0, <1>3, <1>16 DEF AfterTear

-----------------------------------------------------------------------------
(* The theorems. *)

(* As long as no segment is torn. *)
LogInv ==
  /\ ~ torn => StoreInv /\ OnDisk
  /\ torn => crashed

LEMMA InitStore == Init => LogInv
<1> SUFFICES ASSUME Init PROVE StoreInv /\ OnDisk /\ ~ torn
  BY DEF LogInv
<1>1. /\ DOMAIN files = {} /\ DOMAIN sgms = {} /\ tree = <<>> /\ acked = {} /\ synced = {} /\ ~ torn
      /\ pc = [t \in Threads |-> "idle"] /\ loc = [t \in Threads |-> Idle(0)]
      /\ Writers \subseteq Threads /\ Readers \subseteq Threads
  BY DEF Init, Threads
<1>2. LaidOut /\ Indexed /\ AckedKept
  BY <1>1 DEF LaidOut, Indexed, AckedKept
<1>3. \A t \in Writers : Adding(t) /\ Unsynced(t)
  BY <1>1 DEF Adding, Unsynced
<1>4. ReadsBack
  BY <1>1 DEF ReadsBack, Idle
<1>5. OnDisk
  BY <1>1, <1>3 DEF OnDisk
<1> QED BY <1>1, <1>2, <1>3, <1>4, <1>5 DEF StoreInv

(* Only a crash of the machine can tear a segment. *)
LEMMA OnlyCrashTears ==
  ASSUME [Next]_vars, ~ MachineCrash
  PROVE  UNCHANGED <<crashed, torn>>
<1> DEFINE Same == UNCHANGED <<crashed, torn>>
<1>1. CASE UNCHANGED vars
  BY <1>1 DEF vars, life
<1>2. ASSUME NEW t \in Writers, WriterStep(t) PROVE Same
  BY <1>2 DEF WriterStep, LastValue, create_segment, segment_open, segment_write, Crashes,
              AppendRefused, mbptree_append, StoreValue, WriteUnlock, life
<1>3. ASSUME NEW t, NEW p, mqlog_write(t, p) \/ mqlog_read(t, p) PROVE Same
  BY <1>3 DEF mqlog_write, mqlog_read, life
<1>4. ASSUME NEW t, ReaderStep(t) \/ mqlog_sync(t) \/ segment_sync(t) PROVE Same
  BY <1>4 DEF ReaderStep, leaf_floor, segment_read, mqlog_sync, segment_sync, Crashes, life
<1>5. ASSUME mqlog_close \/ Crash PROVE Same
  BY <1>5 DEF mqlog_close, Crash
<1>6. ASSUME NEW ord, mqlog_open(ord) PROVE Same
  BY <1>6 DEF mqlog_open
<1> QED BY <1>1, <1>2, <1>3, <1>4, <1>5, <1>6 DEF Next

LEMMA TornStays ==
  ASSUME [Next]_vars
  PROVE  (torn => torn') /\ (crashed => crashed') /\ (torn' /\ ~ torn => crashed')
<1>1. MachineCrash => crashed' /\ (torn => torn')
  BY DEF MachineCrash
<1> QED BY <1>1, OnlyCrashTears

LEMMA NextStore ==
  ASSUME LogTypeInv, LogInv, [Next]_vars
  PROVE  LogInv'
<1> SUFFICES ASSUME ~ torn' PROVE StoreInv' /\ OnDisk'
  BY TornStays DEF LogInv
<1>0. StoreInv /\ OnDisk
  BY TornStays DEF LogInv
<1> DEFINE Good == StoreInv' /\ OnDisk'
<1>1. CASE UNCHANGED vars
  <2>1. \A t \in Writers : Unsynced(t)'
    BY <1>0, <1>1 DEF OnDisk, Unsynced, vars
  <2>2. UNCHANGED <<held, phase, crashed, pc, loc, written, acked, synced>>
    BY <1>1 DEF vars, life
  <2>3. OnDisk'
    BY <1>0, <2>1, <2>2, DiskStays DEF held
  <2>4. StoreInv'
    BY <1>0, <2>2, QuietStays DEF held, Quiet
  <2> QED BY <2>3, <2>4
<1>2. ASSUME NEW t \in Writers, WriterStep(t) PROVE Good
  <2>1. StoreInv'
    BY <1>0, <1>2, LastValueStore, CreateStore, SegmentOpenStore, SegmentWriteStore,
       AppendRefusedStore, AppendStore, StoreValueStore, UnlockStore DEF WriterStep
  <2>2. OnDisk'
    BY <1>0, <1>2, LastValueDisk, CreateDisk, SegmentOpenDisk, SegmentWriteDisk,
       AppendRefusedDisk, AppendDisk, StoreValueDisk, UnlockDisk DEF WriterStep
  <2> QED BY <2>1, <2>2
<1>3. ASSUME NEW t \in Writers, NEW p \in Payloads, mqlog_write(t, p) PROVE Good
  BY <1>0, <1>3, WriteStore, WriteDisk
<1>4. ASSUME NEW t \in Readers, ReaderStep(t) PROVE Good
  BY <1>0, <1>4, FloorStore, SegmentReadStore, ReaderDisk DEF ReaderStep
<1>5. ASSUME NEW t \in Readers, NEW off \in 0 .. MaxWrites, mqlog_read(t, off) PROVE Good
  BY <1>0, <1>5, ReadStore, ReaderDisk
<1>6. ASSUME NEW t \in Syncers, mqlog_sync(t) \/ segment_sync(t) PROVE Good
  BY <1>0, <1>6, SyncStore, SegmentSyncStore, SyncDisk, SegmentSyncDisk
<1>7. CASE mqlog_close
  BY <1>0, <1>7, StopStore, CloseDisk DEF mqlog_close
<1>8. CASE Crash
  BY <1>0, <1>8, StopStore, CrashDisk DEF Crash
<1>9. CASE MachineCrash
  BY <1>0, <1>9, CrashClean
<1>10. ASSUME NEW ord \in SetToSeqs(DOMAIN files), mqlog_open(ord) PROVE Good
  BY <1>0, <1>10, OpenStore, OpenDisk
<1> QED BY <1>1, <1>2, <1>3, <1>4, <1>5, <1>6, <1>7, <1>8, <1>9, <1>10 DEF Next

LEMMA LogInvariant == Spec => [](LogTypeInv /\ LogInv)
<1>1. LogTypeInv /\ LogInv /\ [Next]_vars => LogInv'
  BY NextStore
<1>2. Init => LogInv
  BY InitStore
<1> QED BY <1>1, <1>2, LogTypeInvariant, PTL DEF Spec

(* What mqlog_read returns was written, at the very offset it was asked    *)
(* for: with any number of producers and consumers, whatever happens       *)
(* between the lookup under the mutex and the read without it, and however *)
(* often the log is closed, the process dies, or the machine crashes, and  *)
(* the log is opened again; until a crash of the machine tears a segment.  *)
THEOREM ReadsAreWritten == Spec => []ReadsWritten
<1>1. LogInv => ReadsWritten
  BY DEF LogInv, StoreInv, ReadsBack, ReadsWritten
<1> QED BY <1>1, LogInvariant, PTL

(* The segments in the index cover the offsets without gap or overlap: the *)
(* files of a segment that is not the last have the frames that its place  *)
(* before the next one leaves room for, also when segment_open has had to  *)
(* find their number in them.                                              *)
THEOREM SegmentsStayAbutting == Spec => []SegmentsAbut
<1>1. LogTypeInv /\ LogInv => SegmentsAbut
  <2> SUFFICES ASSUME LogTypeInv, StoreInv, ~ crashed, phase = "open", NEW i \in 2 .. Len(tree)
               PROVE  tree[i].key = tree[i - 1].key + sgms[tree[i - 1].key].w.index
    BY DEF LogInv, SegmentsAbut
  <2>0. tree # <<>> /\ DOMAIN tree = 1 .. Len(tree) /\ Len(tree) \in Nat
    <3>1. DOMAIN tree = 1 .. Len(tree) /\ Len(tree) \in Nat
      BY DEF LogTypeInv, TreeOK
    <3> QED BY <3>1
  <2>1. PICK b, c : b = tree[i - 1].key /\ c = tree[i].key
    OBVIOUS
  <2>2. i \in DOMAIN tree /\ i - 1 \in DOMAIN tree /\ i - 1 # Len(tree) /\ i - 1 < i
    BY <2>0
  <2>3. b \in DOMAIN sgms
    BY <2>1, <2>2 DEF LogTypeInv, TreeOK
  <2>4. b \in DOMAIN files /\ c \in DOMAIN files /\ b \in Nat /\ c \in Nat /\ b < c
    BY <2>1, <2>2 DEF StoreInv, Indexed, LogTypeInv, FilesOK
  <2>5. PICK d : d = b + sgms[b].w.index
    OBVIOUS
  <2>6. sgms[b].w.index \in Nat
    BY <2>3 DEF LogTypeInv, SgmsOK, OpenSegment, Pair
  <2>7. d \in Nat /\ b < d /\ d <= c /\ d \in DOMAIN files
    <3>1. Ends(b, sgms[b].w)
      BY <2>3, <2>4 DEF StoreInv, LaidOut
    <3> QED BY <2>4, <2>5, <2>6, <3>1 DEF Ends
  <2>8. ASSUME NEW j \in DOMAIN tree, tree[j].key = d PROVE d = c
    <3>1. ~ (j < i - 1) /\ j # i - 1
      BY <2>1, <2>2, <2>4, <2>7, <2>8 DEF StoreInv, Indexed
    <3>2. ~ (j > i)
      <4> SUFFICES ASSUME i < j PROVE FALSE
        BY <2>0
      <4>1. c < d
        BY <2>1, <2>2, <2>8 DEF StoreInv, Indexed
      <4> QED BY <2>4, <2>7, <4>1
    <3>3. j = i
      BY <2>0, <3>1, <3>2
    <3> QED BY <2>1, <2>8, <3>3
  <2>9. ASSUME d = NextBase, \A j \in DOMAIN tree : tree[j].sgm # NULL PROVE d = c
    <3>1. c <= d
      BY <2>4, <2>9, NextBaseTop
    <3> QED BY <2>4, <2>7, <3>1
  <2>10. d = c
    BY <2>7, <2>8, <2>9 DEF StoreInv, Indexed
  <2> QED BY <2>1, <2>5, <2>10
<1> QED BY <1>1, LogInvariant, PTL

-----------------------------------------------------------------------------
(* What a lookup finds. *)

(* mqlog_read finds a frame of an open segment if the segments behind it   *)
(* begin behind the frame.                                                 *)
LEMMA LookupFinds ==
  ASSUME LogTypeInv, ~ RdCmt, NEW off \in Nat, NEW p \in Payloads, NEW b \in DOMAIN sgms, b <= off,
         Present(files[b], off - b, p), off - b < sgms[b].w.index,
         files[b].index[off - b] < sgms[b].w.data,
         NEW i \in DOMAIN tree, tree[i].key = b,
         \A x, y \in DOMAIN tree : x < y => tree[x].key < tree[y].key,
         \A j \in DOMAIN tree : tree[j].key > b => tree[j].key > off,
         \A t \in Writers : pc[t] = "store_value" => loc[t].sgm \notin DOMAIN sgms
  PROVE  Lookup(off) = [rc |-> SizeOf[p], payload |-> p]
<1>1. PICK f, g, rel : f = files[b] /\ g = sgms[b] /\ rel = off - b
  OBVIOUS
<1>2. IsFile(f) /\ g \in OpenSegment /\ b \in Nat
  BY <1>1 DEF LogTypeInv, FilesOK, SgmsOK
<1>3. tree[i].sgm = b
  <2> SUFFICES ASSUME tree[i].sgm = NULL PROVE FALSE
    BY DEF LogTypeInv, TreeOK
  <2>1. NULL \notin Nat
    BY DEF NULL
  <2>2. i = Len(tree) /\ \E t \in Writers : pc[t] = "store_value"
    BY <1>2, <2>1 DEF LogTypeInv, TreeOK
  <2>3. PICK t \in Writers : pc[t] = "store_value"
    BY <2>2
  <2>4. Last(tree).key = loc[t].sgm /\ loc[t].sgm \notin DOMAIN sgms
    <3>1. WriterOK(t)
      BY DEF LogTypeInv, LocalsOK
    <3> QED BY <2>3, <3>1 DEF WriterOK
  <2>5. Last(tree) = tree[Len(tree)]
    BY LastType
  <2> QED BY <2>2, <2>4, <2>5
<1>4. ASSUME NEW j \in DOMAIN tree, tree[j].key <= off PROVE j <= i
  <2>1. i \in Nat /\ j \in Nat
    BY DEF LogTypeInv, TreeOK
  <2> SUFFICES ASSUME i < j PROVE FALSE
    BY <2>1
  <2>2. tree[j].key > b /\ tree[j].key > off
    OBVIOUS
  <2>3. tree[j].key \in Nat
    <3> DEFINE T == [key : Nat, sgm : Nat \cup {NULL}]
    <3>1. tree \in Seq(T)
      BY DEF LogTypeInv, TreeOK
    <3>2. tree[j] \in T
      <4> HIDE DEF T
      <4> QED BY <3>1
    <3> QED BY <3>2
  <2> QED BY <1>4, <2>2, <2>3
<1>5. i \in Floor(tree, off)
  BY <1>4 DEF Floor
<1>6. Floor(tree, off) # {} /\ Max(Floor(tree, off)) = i
  BY <1>5, FloorFound
<1>7. Lookup(off) = SegmentRead(f, g, rel)
  BY <1>1, <1>3, <1>6 DEF Lookup
<1>8. rel \in Entry
  BY <1>1 DEF Present
<1>9. SegmentRead(f, g, rel) = [rc |-> SizeOf[p], payload |-> p]
  BY <1>1, <1>2, <1>8, ReadPresent
<1> QED BY <1>7, <1>9

(* As long as no segment is torn. *)
LEMMA LookupWhole ==
  ASSUME LogTypeInv, StoreInv, phase = "open", ~ RdCmt, NEW a \in written,
         NEW b \in DOMAIN files, b <= a[1], Present(files[b], a[1] - b, a[2]), b \in DOMAIN sgms
  PROVE  Lookup(a[1]) = [rc |-> SizeOf[a[2]], payload |-> a[2]]
<1>1. PICK off, p : off = a[1] /\ p = a[2]
  OBVIOUS
<1>2. off \in Nat /\ p \in Payloads
  BY <1>1 DEF LogTypeInv, HistoryOK, Frame
<1>3. PICK f, w, rel, hist : f = files[b] /\ w = sgms[b].w /\ rel = off - b /\ hist = written
  OBVIOUS
<1>4. b \in Nat /\ IsFile(f) /\ w \in Pair /\ w.index \in Nat /\ rel \in Entry /\ rel \in Nat
  <2>1. b \in Nat /\ IsFile(f) /\ w \in Pair
    BY <1>3 DEF LogTypeInv, FilesOK, SgmsOK, OpenSegment
  <2>2. rel \in Entry
    BY <1>1, <1>3 DEF Present
  <2> QED BY <2>1, <2>2, Entries DEF Pair
<1>5. Holds(b, f, w, hist) /\ Ends(b, w)
  BY <1>3 DEF StoreInv, LaidOut
<1>6. Present(f, rel, p)
  BY <1>1, <1>3
<1>7. rel < w.index /\ f.index[rel] < w.data
  BY <1>4, <1>5, <1>6, HoldsFacts
<1>8. PICK i \in DOMAIN tree : tree[i].key = b
  BY DEF StoreInv, Indexed
<1>9. \A x, y \in DOMAIN tree : x < y => tree[x].key < tree[y].key
  BY DEF StoreInv, Indexed
<1>10. ASSUME NEW j \in DOMAIN tree, tree[j].key > b PROVE tree[j].key > off
  <2>1. tree[j].key \in DOMAIN files /\ tree[j].key \in Nat
    BY DEF StoreInv, Indexed, LogTypeInv, FilesOK
  <2>2. tree[j].key >= b + w.index
    BY <1>5, <1>10, <2>1 DEF Ends
  <2> QED BY <1>2, <1>3, <1>4, <1>7, <2>1, <2>2
<1>11. \A t \in Writers : pc[t] = "store_value" => loc[t].sgm \notin DOMAIN sgms
  BY DEF StoreInv, Adding
<1> QED BY <1>1, <1>2, <1>3, <1>6, <1>7, <1>8, <1>9, <1>10, <1>11, LookupFinds

(* And after a crash that has torn one. *)
LEMMA LookupKept ==
  ASSUME LogTypeInv, Running, ~ RdCmt, NEW a \in acked \cup synced
  PROVE  Lookup(a[1]) = [rc |-> SizeOf[a[2]], payload |-> a[2]]
<1>1. PICK off, p : off = a[1] /\ p = a[2]
  OBVIOUS
<1>2. off \in Nat /\ p \in Payloads
  BY <1>1 DEF LogTypeInv, HistoryOK, Frame
<1>3. PICK b \in DOMAIN sgms :
        /\ b <= off /\ Placed(files[b], sgms[b].w, off - b, p)
        /\ \A i \in DOMAIN tree : tree[i].key > b => tree[i].key > off
  BY <1>1 DEF Running, Kept
<1>4. Present(files[b], off - b, p) /\ off - b < sgms[b].w.index
  BY <1>3 DEF Placed
<1>5. files[b].index[off - b] < sgms[b].w.data
  <2>1. PICK x : x = files[b].index[off - b]
    OBVIOUS
  <2>2. x \in Nat
    <3>1. IsFile(files[b]) /\ off - b \in Entry
      BY <1>4 DEF LogTypeInv, SgmsOK, FilesOK, Present
    <3> QED BY <2>1, <3>1 DEF IsFile
  <2>3. x + FrameSize(p) <= sgms[b].w.data /\ sgms[b].w.data \in Nat
    BY <1>3, <2>1 DEF Placed, LogTypeInv, SgmsOK, OpenSegment, Pair
  <2> QED BY <1>2, <2>1, <2>2, <2>3, SizeOfType
<1>6. PICK i \in DOMAIN tree : tree[i].key = b
  BY DEF Running
<1>7. \A x, y \in DOMAIN tree : x < y => tree[x].key < tree[y].key
  BY DEF Running
<1>8. \A t \in Writers : pc[t] = "store_value" => loc[t].sgm \notin DOMAIN sgms
  BY DEF Running, Coming
<1> QED BY <1>1, <1>2, <1>3, <1>4, <1>5, <1>6, <1>7, <1>8, LookupFinds

(* The log has not been stopped again since a segment of it was torn. *)
TornInv == torn /\ ~ reused => AfterTear

LEMMA ReusedStays ==
  ASSUME [Next]_vars
  PROVE  reused => reused'
<1>1. CASE UNCHANGED vars
  BY <1>1 DEF vars, life
<1>2. CASE mqlog_close \/ Crash \/ MachineCrash
  BY <1>2 DEF mqlog_close, Crash, MachineCrash, Stop
<1>3. ASSUME NEW t \in Writers, WriterStep(t) PROVE UNCHANGED reused
  BY <1>3 DEF WriterStep, LastValue, create_segment, segment_open, segment_write, Crashes,
              AppendRefused, mbptree_append, StoreValue, WriteUnlock, life
<1>4. ASSUME NEW t, NEW p, mqlog_write(t, p) \/ mqlog_read(t, p) PROVE UNCHANGED reused
  BY <1>4 DEF mqlog_write, mqlog_read, life
<1>5. ASSUME NEW t, ReaderStep(t) \/ mqlog_sync(t) \/ segment_sync(t) PROVE UNCHANGED reused
  BY <1>5 DEF ReaderStep, leaf_floor, segment_read, mqlog_sync, segment_sync, Crashes, life
<1>6. ASSUME NEW ord, mqlog_open(ord) PROVE UNCHANGED reused
  BY <1>6 DEF mqlog_open
<1> QED BY <1>1, <1>2, <1>3, <1>4, <1>5, <1>6 DEF Next

LEMMA NextTear ==
  ASSUME LogTypeInv, LogInv, TornInv, [Next]_vars
  PROVE  TornInv'
<1> SUFFICES ASSUME torn', ~ reused' PROVE AfterTear'
  BY DEF TornInv
<1>0. ~ reused
  BY ReusedStays
<1>1. CASE ~ torn
  <2>1. MachineCrash
    BY <1>1, OnlyCrashTears
  <2> QED BY <1>1, <2>1, CrashTorn DEF LogInv
<1>2. CASE torn
  <2>0. AfterTear
    BY <1>0, <1>2 DEF TornInv
  <2>1. CASE UNCHANGED vars
    <3>1. UNCHANGED <<files, sgms, tree, phase, pc, loc, acked, synced>>
      BY <2>1 DEF vars, held, life
    <3>2. CASE phase = "open"
      <4>1. Still
        BY <3>1 DEF Still
      <4>2. \A u \in Writers : Coming(u)'
        BY <2>0, <3>1, <3>2, <4>1, ComingStays
      <4>3. \A a \in acked' \cup synced' : Kept(a)
        BY <2>0, <3>1, <3>2 DEF AfterTear, Running
      <4> QED BY <2>0, <3>2, <4>1, <4>2, <4>3, StillTear
    <3>3. CASE phase # "open"
      BY <2>0, <3>1, <3>3 DEF AfterTear, Recoverable
    <3> QED BY <3>2, <3>3
  <2>2. ASSUME NEW t \in Writers, WriterStep(t) PROVE AfterTear'
    BY <2>0, <2>2, LastValueTear, CreateTear, SegmentOpenTear, SegmentWriteTear,
       AppendRefusedTear, AppendTear, StoreValueTear, UnlockTear DEF WriterStep
  <2>3. ASSUME NEW t \in Writers, NEW p \in Payloads, mqlog_write(t, p) PROVE AfterTear'
    BY <2>0, <2>3, WriteTear
  <2>4. ASSUME NEW t \in Readers, ReaderStep(t) PROVE AfterTear'
    BY <2>0, <2>4, ReaderTear
  <2>5. ASSUME NEW t \in Readers, NEW off \in 0 .. MaxWrites, mqlog_read(t, off) PROVE AfterTear'
    BY <2>0, <2>5, ReaderTear
  <2>6. ASSUME NEW t \in Syncers, mqlog_sync(t) \/ segment_sync(t) PROVE AfterTear'
    BY <2>0, <2>6, SyncTear
  <2>7. CASE mqlog_close \/ Crash \/ MachineCrash
    BY <1>2, <2>7 DEF mqlog_close, Crash, MachineCrash, Stop
  <2>8. ASSUME NEW ord \in SetToSeqs(DOMAIN files), mqlog_open(ord) PROVE AfterTear'
    BY <2>0, <2>8, OpenTear
  <2> QED BY <2>1, <2>2, <2>3, <2>4, <2>5, <2>6, <2>7, <2>8 DEF Next
<1> QED BY <1>1, <1>2

LEMMA StoredIsRead ==
  ASSUME LogTypeInv, LogInv, TornInv, phase = "open", ~ RdCmt, ~ reused, NEW a \in acked \cup synced
  PROVE  Lookup(a[1]) = [rc |-> SizeOf[a[2]], payload |-> a[2]]
<1>1. CASE ~ torn
  <2>1. StoreInv /\ OnDisk
    BY <1>1 DEF LogInv
  <2>2. \E b \in DOMAIN files : b <= a[1] /\ Present(files[b], a[1] - b, a[2]) /\ b \in DOMAIN sgms
    BY <2>1 DEF StoreInv, AckedKept, OnDisk, SyncedKept
  <2>3. a \in written
    BY DEF LogTypeInv, HistoryOK
  <2> QED BY <2>1, <2>2, <2>3, LookupWhole
<1>2. CASE torn
  BY <1>2, LookupKept DEF TornInv, AfterTear
<1> QED BY <1>1, <1>2

LEMMA TearInvariant == Spec => [](LogTypeInv /\ LogInv /\ TornInv)
<1>1. Init => TornInv
  BY DEF Init, TornInv
<1>2. LogTypeInv /\ LogInv /\ TornInv /\ [Next]_vars => TornInv'
  BY NextTear
<1> QED BY <1>1, <1>2, LogInvariant, PTL DEF Spec

(* Whatever mqlog_write has acknowledged is read back at its offset, for   *)
(* ever: the segment that the index gives for the offset is the one it was *)
(* written to, its index entry still leads to the frame and nothing has    *)
(* been stored over it.  After a crash of the machine the same holds of    *)
(* what was acknowledged since; also in a segment that the crash has torn, *)
(* until the log is stopped again.                                         *)
THEOREM AckedStaysReadable == Spec => []AckedReadable
<1>1. LogTypeInv /\ LogInv /\ TornInv => AckedReadable
  BY StoredIsRead DEF AckedReadable
<1> QED BY <1>1, TearInvariant, PTL

(* What mqlog_sync or mqlog_close has synced is read back at its offset,   *)
(* also from a log that a crash of the machine has torn, in which an index *)
(* may have entries without frames and frames without entries; until that  *)
(* log is stopped again.                                                   *)
THEOREM SyncedStaysReadable == Spec => []SyncedReadable
<1>1. LogTypeInv /\ LogInv /\ TornInv => SyncedReadable
  BY StoredIsRead DEF SyncedReadable
<1> QED BY <1>1, TearInvariant, PTL

-----------------------------------------------------------------------------
(* Why mqlog_open fails. *)

LEMMA NoneFree ==
  ASSUME NEW d, IsFile(d), find_w_offset_pair(d.buffer, d.index, Size).rc # 0
  PROVE  FreeEntries(d.buffer, d.index, Size) = {}
<1>1. PICK found, free : /\ found = find_w_offset_pair(d.buffer, d.index, Size)
                         /\ free = FreeEntries(d.buffer, d.index, Size)
  OBVIOUS
<1>2. free # {} => found.rc = 0
  BY <1>1, FirstFree
<1> QED BY <1>1, <1>2

(* find_w_offset_pair finds no place in a segment only if it has as many   *)
(* frames as the index file has whole entries, or is one that ended before *)
(* it had a frame and the index file has one entry.  That is so of its     *)
(* files and of those that the disk has, which may lack entries.           *)
LEMMA FullSegment ==
  ASSUME NEW b \in Nat, NEW f, IsFile(f), NEW w \in Pair, NEW hist, Holds(b, f, w, hist),
         max_index_entries(Size) >= 2,
         NEW d, IsFile(d), \A j \in Entry : d.index[j] \in {0, f.index[j]},
         find_w_offset_pair(d.buffer, d.index, Size).rc # 0
  PROVE  /\ w.index >= max_index_entries(Size)
         /\ \A i \in 0 .. max_index_entries(Size) - 1 : \E p \in Payloads : <<b + i, p>> \in hist
<1>1. PICK n \in Nat, x \in Nat : Chain(b, f, n, x, hist) /\ n <= w.index
  BY HoldsChain
<1>2. PICK m, free : m = max_index_entries(Size) /\ free = FreeEntries(d.buffer, d.index, Size)
  OBVIOUS
<1>3. m \in Nat /\ m >= 2 /\ w.index \in Nat /\ \A i \in 0 .. m - 1 : i \in Entry /\ i \in Nat
  BY <1>2, Entries DEF Pair
<1>4. free = {}
  BY <1>2, NoneFree
<1>5. \A i \in 0 .. m - 1 : f.index[i] = 0 => i = 0
  <2>1. \A i \in 0 .. m - 1 : d.index[i] = 0 => i = 0
    BY <1>2, <1>4 DEF FreeEntries
  <2> QED BY <1>3, <2>1
<1>6. n >= m
  <2> SUFFICES ASSUME n < m PROVE FALSE
    BY <1>3
  <2>1. n \in 0 .. m - 1 /\ n \in Entry
    BY <1>3
  <2>2. f.index[n] = 0
    BY <1>1, <2>1 DEF Chain
  <2>3. n = 0
    BY <1>5, <2>1, <2>2
  <2>4. 1 \in 0 .. m - 1 /\ 1 \in Entry
    BY <1>3
  <2>5. f.index[1] = 0
    BY <1>1, <2>3, <2>4 DEF Chain
  <2> QED BY <1>5, <2>4, <2>5
<1>7. ASSUME NEW i \in 0 .. m - 1 PROVE \E p \in Payloads : <<b + i, p>> \in hist
  <2>1. i \in Entry /\ i < n
    BY <1>3, <1>6
  <2> QED BY <1>1, <2>1 DEF Chain
<1> QED BY SMTT(30), <1>1, <1>2, <1>3, <1>6, <1>7

LEMMA FullCount ==
  ASSUME LogTypeInv, StoreInv, IsFiniteSet(written), max_index_entries(Size) >= 2,
         NEW b \in DOMAIN files, NEW d, IsFile(d), \A j \in Entry : d.index[j] \in {0, files[b].index[j]},
         find_w_offset_pair(d.buffer, d.index, Size).rc # 0
  PROVE  Cardinality(WrittenIn(b)) >= max_index_entries(Size)
<1>0. b \in Nat /\ IsFile(files[b]) /\ DOMAIN files \subseteq Nat /\ written \subseteq Frame
  BY DEF LogTypeInv, FilesOK, HistoryOK
<1>1. PICK w \in Pair : Holds(b, files[b], w, written) /\ Ends(b, w)
  BY DEF StoreInv, LaidOut
<1>2. PICK m : m = max_index_entries(Size)
  OBVIOUS
<1>3. /\ w.index >= m /\ w.index \in Nat /\ m \in Nat
      /\ \A i \in 0 .. m - 1 : \E p \in Payloads : <<b + i, p>> \in written
  <2>1. PICK f, hist : f = files[b] /\ hist = written
    OBVIOUS
  <2>2. /\ w.index >= m /\ \A i \in 0 .. m - 1 : \E p \in Payloads : <<b + i, p>> \in hist
    BY <1>0, <1>1, <1>2, <2>1, FullSegment
  <2> QED BY <1>2, <2>1, <2>2, Entries DEF Pair
<1>4. PICK D, T : D = 0 .. m - 1 /\ T = WrittenIn(b)
  OBVIOUS
<1>5. ASSUME NEW i \in D PROVE \E a \in T : a[1] = b + i
  <2>1. PICK p \in Payloads : <<b + i, p>> \in written
    BY <1>3, <1>4
  <2>2. i \in Nat /\ i < m
    BY <1>3, <1>4
  <2>3. ASSUME NEW c \in DOMAIN files, c > b PROVE b + i < c
    <3>1. c >= b + w.index /\ c \in Nat
      BY <1>0, <1>1, <2>3 DEF Ends
    <3> QED BY <1>0, <1>3, <2>2, <3>1
  <2>4. b <= b + i
    BY <1>0, <2>2
  <2>5. <<b + i, p>> \in T
    BY <1>4, <2>1, <2>3, <2>4 DEF WrittenIn
  <2> QED BY <2>5
<1>6. PICK g : g = [i \in D |-> CHOOSE a \in T : a[1] = b + i]
  OBVIOUS
<1>7. \A i \in D : g[i] \in T /\ g[i][1] = b + i
  BY <1>5, <1>6
<1>8. g \in Injection(D, T)
  <2>1. g \in [D -> T]
    BY <1>6, <1>7
  <2>2. D \subseteq Nat
    BY <1>3, <1>4
  <2>3. ASSUME NEW i \in D, NEW j \in D, g[i] = g[j] PROVE i = j
    <3>1. b + i = b + j
      BY <1>7, <2>3
    <3>2. b \in Int /\ i \in Int /\ j \in Int
      BY <1>0, <2>2
    <3> QED BY <3>1, <3>2
  <2> QED BY <2>1, <2>3 DEF Injection, IsInjective
<1>9. IsFiniteSet(T)
  <2>1. T \subseteq written
    BY <1>4 DEF WrittenIn
  <2> QED BY <2>1, FS_Subset
<1>10. Cardinality(D) <= Cardinality(T)
  BY <1>8, <1>9, FS_Injection
<1>11. Cardinality(D) = m
  <2>1. 0 \in Int /\ m - 1 \in Int
    BY <1>3
  <2>2. Cardinality(0 .. m - 1) = IF 0 > m - 1 THEN 0 ELSE (m - 1) - 0 + 1
    BY <2>1, FS_Interval
  <2> QED BY <1>3, <1>4, <2>2
<1>12. Cardinality(T) \in Nat
  BY <1>9, FS_CardinalityType
<1> QED BY <1>2, <1>3, <1>4, <1>10, <1>11, <1>12

(* The segments in whose files no place is found are full. *)
Filled ==
  \A b \in DOMAIN files :
    find_w_offset_pair(files[b].buffer, files[b].index, Size).rc # 0 =>
      Cardinality(WrittenIn(b)) >= max_index_entries(Size)

LEMMA StoreFilled ==
  ASSUME LogTypeInv, StoreInv, IsFiniteSet(written), max_index_entries(Size) >= 2
  PROVE  Filled
<1> SUFFICES ASSUME NEW b \in DOMAIN files,
                    find_w_offset_pair(files[b].buffer, files[b].index, Size).rc # 0
             PROVE  Cardinality(WrittenIn(b)) >= max_index_entries(Size)
  BY DEF Filled
<1>1. PICK d : d = files[b]
  OBVIOUS
<1>2. IsFile(d)
  BY <1>1 DEF LogTypeInv, FilesOK
<1> QED BY <1>1, <1>2, FullCount

(* So they are in what a crash of the machine leaves. *)
LEMMA CrashFilled ==
  ASSUME LogTypeInv, StoreInv, OnDisk, MachineCrash, IsFiniteSet(written),
         max_index_entries(Size) >= 2
  PROVE  Filled'
<1>0. /\ written' = written /\ DOMAIN files' \subseteq DOMAIN files
      /\ \A b \in DOMAIN files' : files'[b] \in {files[b], disk[b]}
  BY Survivors
<1> SUFFICES ASSUME NEW b \in DOMAIN files',
                    find_w_offset_pair(files'[b].buffer, files'[b].index, Size).rc # 0
             PROVE  Cardinality(WrittenIn(b)') >= max_index_entries(Size)
  BY DEF Filled
<1>1. PICK d : d = files'[b]
  OBVIOUS
<1>2. b \in DOMAIN files /\ IsFile(d) /\ \A j \in Entry : d.index[j] \in {0, files[b].index[j]}
  BY <1>0, <1>1 DEF OnDisk, Sound, Older, LogTypeInv, FilesOK
<1>3. PICK m : m = max_index_entries(Size)
  OBVIOUS
<1>4. Cardinality(WrittenIn(b)) >= m /\ m \in Nat
  BY <1>1, <1>2, <1>3, FullCount, Entries
<1>5. WrittenIn(b) \subseteq WrittenIn(b)' /\ WrittenIn(b)' \subseteq written
  BY <1>0 DEF WrittenIn
<1>6. IsFiniteSet(WrittenIn(b)')
  BY <1>5, FS_Subset
<1>7. /\ Cardinality(WrittenIn(b)) <= Cardinality(WrittenIn(b)')
      /\ Cardinality(WrittenIn(b)) \in Nat /\ Cardinality(WrittenIn(b)') \in Nat
  BY <1>5, <1>6, FS_Subset, FS_CardinalityType
<1> QED BY <1>3, <1>4, <1>7

LEMMA OpenFails ==
  ASSUME LogTypeInv, Filled, NEW ord \in SetToSeqs(DOMAIN files), mqlog_open(ord)
  PROVE  OpenFailsOnlyIf'
<1>0. UNCHANGED <<files, written>> /\ order' = ord
  BY DEF mqlog_open
<1>1. \A b : WrittenIn(b)' = WrittenIn(b)
  BY <1>0 DEF WrittenIn
<1> SUFFICES ASSUME phase' = "failed",
                    \A i \in 2 .. Len(ord) : ~ (ord[i] < ord[i - 1]),
                    \A b \in DOMAIN files : files[b].sized
             PROVE  \E b \in DOMAIN files : Cardinality(WrittenIn(b)) >= max_index_entries(Size)
  BY <1>0, <1>1 DEF OpenFailsOnlyIf
<1>2. ~ Loads(ord)
  BY DEF mqlog_open
<1>3. DOMAIN files \subseteq Nat /\ IsFiniteSet(DOMAIN files)
  BY DEF LogTypeInv, FilesOK
<1>4. /\ DOMAIN ord = 1 .. Len(ord) /\ Len(ord) \in Nat
      /\ \A i \in DOMAIN ord : ord[i] \in DOMAIN files
  <2>1. PICK S : S = DOMAIN files
    OBVIOUS
  <2> QED BY <1>3, <2>1, InOrder
<1>5. \A i, j \in DOMAIN ord : i # j => ord[i] # ord[j]
  BY DEF SetToSeqs
<1>6. \A i \in 2 .. Len(ord) : ord[i - 1] < ord[i]
  <2> SUFFICES ASSUME NEW i \in 2 .. Len(ord) PROVE ord[i - 1] < ord[i]
    OBVIOUS
  <2>1. i \in DOMAIN ord /\ i - 1 \in DOMAIN ord /\ i - 1 # i
    BY <1>4
  <2>2. ord[i] \in Nat /\ ord[i - 1] \in Nat /\ ord[i - 1] # ord[i]
    BY <1>3, <1>4, <1>5, <2>1
  <2> QED BY <2>2
<1>7. PICK i \in DOMAIN ord :
        find_w_offset_pair(files[ord[i]].buffer, files[ord[i]].index, Size).rc # 0
  BY <1>2, <1>4, <1>6 DEF Loads
<1> QED BY <1>4, <1>7 DEF Filled

LEMMA WrittenFinite ==
  ASSUME [Next]_vars, IsFiniteSet(written)
  PROVE  IsFiniteSet(written')
<1> SUFFICES ASSUME written' # written PROVE \E x : written' = written \cup {x}
  BY FS_AddElement
<1>1. CASE UNCHANGED vars
  BY <1>1 DEF vars
<1>2. ASSUME NEW t \in Writers, WriterStep(t) PROVE \E x : written' = written \cup {x}
  <2>1. CASE segment_write(t)
    BY <2>1 DEF segment_write, Crashes
  <2>2. CASE ~ segment_write(t)
    BY <1>2, <2>2 DEF WriterStep, LastValue, create_segment, segment_open,
                      AppendRefused, mbptree_append, StoreValue, WriteUnlock
  <2> QED BY <2>1, <2>2
<1>3. ASSUME NEW t, NEW p, mqlog_write(t, p) \/ mqlog_read(t, p) PROVE FALSE
  BY <1>3 DEF mqlog_write, mqlog_read
<1>4. ASSUME NEW t, ReaderStep(t) \/ mqlog_sync(t) \/ segment_sync(t) PROVE FALSE
  BY <1>4 DEF ReaderStep, leaf_floor, segment_read, mqlog_sync, segment_sync, Crashes
<1>5. ASSUME mqlog_close \/ Crash \/ MachineCrash PROVE FALSE
  BY <1>5 DEF mqlog_close, Crash, MachineCrash, Stop
<1>6. ASSUME NEW ord, mqlog_open(ord) PROVE FALSE
  BY <1>6 DEF mqlog_open
<1> QED BY <1>1, <1>2, <1>3, <1>4, <1>5, <1>6 DEF Next

LEMMA OnlyOpenFails ==
  ASSUME [Next]_vars, phase' = "failed"
  PROVE  UNCHANGED vars \/ \E ord \in SetToSeqs(DOMAIN files) : mqlog_open(ord)
<1>1. ASSUME NEW t \in Writers, WriterStep(t) PROVE FALSE
  BY <1>1 DEF WriterStep, LastValue, create_segment, segment_open, segment_write, Crashes, At,
              AppendRefused, mbptree_append, StoreValue, WriteUnlock, life
<1>2. ASSUME NEW t, NEW p, mqlog_write(t, p) \/ mqlog_read(t, p) PROVE FALSE
  BY <1>2 DEF mqlog_write, mqlog_read, At, life
<1>3. ASSUME NEW t, ReaderStep(t) \/ mqlog_sync(t) \/ segment_sync(t) PROVE FALSE
  BY <1>3 DEF ReaderStep, leaf_floor, segment_read, mqlog_sync, segment_sync, Crashes, At, life
<1>4. ASSUME mqlog_close \/ Crash \/ MachineCrash PROVE FALSE
  BY <1>4 DEF mqlog_close, Crash, MachineCrash, Stop
<1> QED BY <1>1, <1>2, <1>3, <1>4 DEF Next

LEMMA OnlyStops ==
  ASSUME [Next]_vars, phase' = "stopped"
  PROVE  UNCHANGED vars \/ mqlog_close \/ Crash \/ MachineCrash
<1>1. ASSUME NEW t \in Writers, WriterStep(t) PROVE FALSE
  BY <1>1 DEF WriterStep, LastValue, create_segment, segment_open, segment_write, Crashes, At,
              AppendRefused, mbptree_append, StoreValue, WriteUnlock, life
<1>2. ASSUME NEW t, NEW p, mqlog_write(t, p) \/ mqlog_read(t, p) PROVE FALSE
  BY <1>2 DEF mqlog_write, mqlog_read, At, life
<1>3. ASSUME NEW t, ReaderStep(t) \/ mqlog_sync(t) \/ segment_sync(t) PROVE FALSE
  BY <1>3 DEF ReaderStep, leaf_floor, segment_read, mqlog_sync, segment_sync, Crashes, At, life
<1>4. ASSUME NEW ord, mqlog_open(ord) PROVE FALSE
  BY <1>4 DEF mqlog_open
<1> QED BY <1>1, <1>2, <1>3, <1>4 DEF Next

(* Between a crash that has torn a segment and mqlog_open. *)
OpenInv ==
  /\ IsFiniteSet(written)
  /\ torn /\ ~ reused /\ phase # "open" => Filled
  /\ OpenFailsOnlyIf

LEMMA NextOpen ==
  ASSUME LogTypeInv, LogInv, OpenInv, [Next]_vars, max_index_entries(Size) >= 2
  PROVE  OpenInv'
<1>0. IsFiniteSet(written) /\ IsFiniteSet(written')
  BY WrittenFinite DEF OpenInv
<1>1. ASSUME torn', ~ reused', phase' # "open" PROVE Filled'
  <2>1. CASE UNCHANGED vars
    <3>1. UNCHANGED <<phase, torn, reused, files, written>>
      BY <2>1 DEF vars, held, life
    <3> QED BY <1>1, <3>1 DEF OpenInv, Filled, WrittenIn
  <2>2. CASE MachineCrash
    <3>1. ~ torn
      BY <1>1, <2>2 DEF MachineCrash, Stop
    <3> QED BY <1>0, <2>2, <3>1, CrashFilled DEF LogInv
  <2>3. ~ (mqlog_close \/ Crash)
    BY <1>1 DEF mqlog_close, Crash, Stop
  <2>4. ASSUME NEW ord \in SetToSeqs(DOMAIN files), mqlog_open(ord) PROVE Filled'
    <3>1. UNCHANGED <<torn, reused, files, written>> /\ phase # "open"
      BY <2>4 DEF mqlog_open
    <3> QED BY <1>1, <3>1 DEF OpenInv, Filled, WrittenIn
  <2>5. phase' \in {"stopped", "failed"}
    <3>1. LogTypeInv'
      BY NextLogType
    <3> QED BY <1>1, <3>1 DEF LogTypeInv, PhaseOK
  <2> QED BY <2>1, <2>2, <2>3, <2>4, <2>5, OnlyStops, OnlyOpenFails
<1>2. OpenFailsOnlyIf'
  <2> SUFFICES ASSUME phase' = "failed", ~ reused' PROVE OpenFailsOnlyIf'
    BY DEF OpenFailsOnlyIf
  <2>1. CASE UNCHANGED vars
    <3>1. UNCHANGED <<phase, order, reused, files, written>>
      BY <2>1 DEF vars, held, life
    <3> QED BY <3>1 DEF OpenInv, OpenFailsOnlyIf, WrittenIn
  <2>2. ASSUME NEW ord \in SetToSeqs(DOMAIN files), mqlog_open(ord) PROVE OpenFailsOnlyIf'
    <3>1. phase # "open" /\ ~ reused
      BY <2>2 DEF mqlog_open
    <3>2. Filled
      BY <1>0, <3>1, StoreFilled DEF OpenInv, LogInv
    <3> QED BY <2>2, <3>2, OpenFails
  <2> QED BY <2>1, <2>2, OnlyOpenFails
<1> QED BY <1>0, <1>1, <1>2 DEF OpenInv

(* If pages are large enough for an index of two entries (4096 bytes give  *)
(* 42), mqlog_open fails only if the directory is read out of order, the   *)
(* process died while it created a segment, or a segment has as many       *)
(* frames as the index file has whole entries: find_w_offset_pair finds a  *)
(* place in every other segment, also in what a crash of the machine has   *)
(* left of it.                                                             *)
THEOREM OpenFailuresExplained ==
  ASSUME max_index_entries(Size) >= 2
  PROVE  Spec => []OpenFailsOnlyIf
<1>1. Init => OpenInv
  BY FS_EmptySet DEF Init, OpenInv, OpenFailsOnlyIf
<1>2. LogTypeInv /\ LogInv /\ OpenInv /\ [Next]_vars => OpenInv'
  BY NextOpen
<1>3. OpenInv => OpenFailsOnlyIf
  BY DEF OpenInv
<1> QED BY <1>1, <1>2, <1>3, LogInvariant, PTL DEF Spec
=============================================================================
