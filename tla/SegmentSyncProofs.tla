-------------------------- MODULE SegmentSyncProofs --------------------------
(***************************************************************************)
(* SyncedIsDurable, for one syncing thread and any number of producers and *)
(* consumers.  segment_sync reads the write offset, calls msync and then   *)
(* stores what it read, while producers go on reserving and writing: the   *)
(* invariant says what holds of an offset that a sync has passed, whether  *)
(* it has been stored in s_offset_pair yet or not.                         *)
(***************************************************************************)
EXTENDS SegmentProofs

(* No two threads call segment_sync on the segment. *)
OneSyncer == \A t, u \in Syncers : t = u

(* No frame lies across the offset x. *)
BetweenFrames(x) ==
  \A i \in DOMAIN frames : FrameEnd(i) <= x \/ x <= frames[i].data

(* What a sync of the data up to x leaves: the frames below x are on disk, *)
(* those that somebody is still writing are known as torn, and none will   *)
(* be reserved there.                                                      *)
DataSynced(x) ==
  /\ x <= w_offset_pair.data
  /\ BetweenFrames(x)
  /\ \A i \in DOMAIN frames \ disk.torn : FrameEnd(i) <= x =>
       HeaderAt(disk.buffer, frames[i].data) = HeaderAt(buffer, frames[i].data)
  /\ \A t \in Writers : pc[t] \in Writing /\ wr[t].curr.data < x => wr[t].curr.index \in disk.torn

(* What a sync of the index up to entry n leaves. *)
IndexSynced(n) ==
  /\ n <= w_offset_pair.index
  /\ \A i \in DOMAIN frames \ disk.torn : i < n /\ i < max_index_entries(Size) =>
       disk.index[i] = index[i]
  /\ \A t \in Writers : pc[t] \in Writing /\ wr[t].curr.index < n => wr[t].curr.index \in disk.torn

(* How far a thread in sync_data has come: what it will store is between   *)
(* the sync offset and the write offset, and is synced once msync returns. *)
SyncsData ==
  \A t \in Syncers :
    /\ pc[t] \in {"sync_data", "sync_data_len", "msync_data", "synced_data"} =>
         sy[t].from = s_offset_pair.data
    /\ pc[t] \in {"sync_data_len", "msync_data", "synced_data"} =>
         /\ sy[t].from <= sy[t].to
         /\ sy[t].to <= w_offset_pair.data
         /\ BetweenFrames(sy[t].to)
    /\ pc[t] = "msync_data" =>
         sy[t].len = (sy[t].to - sy[t].from) + (sy[t].from - page_aligned_addr(sy[t].from))
    /\ pc[t] = "synced_data" => DataSynced(sy[t].to)

(* The same for sync_index. *)
SyncsIndex ==
  \A t \in Syncers :
    /\ pc[t] \in {"sync_index_end", "sync_index_len", "msync_index", "synced_index"} =>
         sy[t].from = s_offset_pair.index
    /\ pc[t] \in {"sync_index_len", "msync_index", "synced_index"} =>
         sy[t].from <= sy[t].to /\ sy[t].to <= w_offset_pair.index
    /\ pc[t] = "msync_index" => sy[t].len = sy[t].to - sy[t].from
    /\ pc[t] = "synced_index" => IndexSynced(sy[t].to)

SyncInv ==
  /\ ReadInv
  /\ DataSynced(s_offset_pair.data) /\ IndexSynced(s_offset_pair.index)
  /\ SyncsData /\ SyncsIndex

-----------------------------------------------------------------------------
(* What a producer's step may change. *)

(* It takes the write offsets forward and adds at most one frame, at them; *)
(* it makes at most its own thread the writer of a frame.                  *)
LEMMA WriterShape ==
  ASSUME ReadInv, NEW t \in Writers, WriterStep(t) \/ \E p \in Payloads : segment_write(t, p)
  PROVE  /\ UNCHANGED <<disk, s_offset_pair, sy>>
         /\ \A u \in Syncers : pc'[u] = pc[u]
         /\ \A u \in Writers : u # t => pc'[u] = pc[u] /\ wr'[u] = wr[u]
         /\ pc'[t] \in Writing => \/ pc[t] \in Writing /\ wr'[t].curr = wr[t].curr
                                  \/ wr'[t].curr = w_offset_pair
         /\ w_offset_pair.data <= w_offset_pair'.data
         /\ w_offset_pair.index <= w_offset_pair'.index
         /\ DOMAIN frames \subseteq DOMAIN frames'
         /\ \A i \in DOMAIN frames : frames'[i] = frames[i]
         /\ \A i \in DOMAIN frames' \ DOMAIN frames :
              i = w_offset_pair.index /\ frames'[i].data = w_offset_pair.data
         /\ \A i \in Entry : index'[i] = index[i] \/ (pc[t] \in Writing /\ i = wr[t].curr.index)
<1>0. /\ TypeOK /\ wr \in [Writers -> WriterState] /\ index \in [Entry -> Nat]
      /\ w_offset_pair.data \in Nat /\ w_offset_pair.index \in Nat
  BY DEF ReadInv, TypeOK, ThreadsTypeOK, MapsTypeOK, OffsetsTypeOK, Pair
<1>1. ASSUME NEW label, Goto(t, label)
      PROVE  /\ pc'[t] = label
             /\ \A u \in Syncers : pc'[u] = pc[u]
             /\ \A u \in Writers : u # t => pc'[u] = pc[u]
  BY <1>0, <1>1, OthersStay, ThreadAssumption DEF Threads
<1>2. CASE ClaimFrame(t)
  <2>1. /\ w_offset_pair = wr[t].curr
        /\ w_offset_pair' = Claimed(wr[t].curr, wr[t].buf)
        /\ frames' = [i \in DOMAIN frames \cup {w_offset_pair.index} |->
                        IF i = w_offset_pair.index
                        THEN [data |-> w_offset_pair.data, payload |-> wr[t].buf] ELSE frames[i]]
        /\ Goto(t, "copy") /\ UNCHANGED <<disk, s_offset_pair, sy, wr, index>>
    BY <1>2 DEF ClaimFrame, claim, locals
  <2>2. FrameSize(wr[t].buf) \in Nat
    <3>1. wr[t].buf \in Payloads
      BY <1>0, <1>2, WriterOffset DEF ClaimFrame, At
    <3> QED
      BY <3>1, FrameSizeType
  <2>3. /\ w_offset_pair'.data = w_offset_pair.data + FrameSize(wr[t].buf)
        /\ w_offset_pair'.index = w_offset_pair.index + 1
    BY <2>1 DEF Claimed
  <2>4. w_offset_pair.index \notin DOMAIN frames
    BY <1>0 DEF TypeOK, FramesTypeOK
  <2> QED
    BY <1>0, <1>1, <2>1, <2>2, <2>3, <2>4
<1>3. CASE \/ \E p \in Payloads : segment_write(t, p)
           \/ marked_eos(t) \/ CheckEosFlags(t) \/ ReadWriteOffset(t) \/ ClaimLost(t)
  <2>1. PICK label \in {"idle", "marked_eos", "eos_flags", "curr", "claim", "mark_eos"} :
          Goto(t, label)
    BY <1>3 DEF segment_write, marked_eos, CheckEosFlags, ReadWriteOffset, ClaimLost, WriteReturns
  <2>2. /\ UNCHANGED <<disk, s_offset_pair, sy, w_offset_pair, index, frames>>
        /\ \A u \in Writers : u # t => wr'[u] = wr[u]
    BY <1>0, <1>3 DEF segment_write, marked_eos, CheckEosFlags, ReadWriteOffset, ClaimLost,
                WriteReturns, shared
  <2>3. label \notin Writing
    BY DEF Writing
  <2> QED
    BY <1>0, <1>1, <2>1, <2>2, <2>3
<1>4. CASE Crashes
  BY <1>0, <1>4 DEF Crashes, shared, locals
<1>5. CASE CopyToBuffer(t) /\ ~ Crashes
  <2>1. /\ Goto(t, "header_init") /\ pc[t] \in Writing
        /\ UNCHANGED <<disk, s_offset_pair, sy, w_offset_pair, index, frames, wr>>
    BY <1>5 DEF CopyToBuffer, locals, At, Writing
  <2> QED
    BY <1>0, <1>1, <2>1
<1>6. CASE InitHeader(t) \/ \E field \in {"size", "flags"} : StoreHeaderField(t, field)
  <2>1. /\ pc[t] \in Writing
        /\ UNCHANGED <<disk, s_offset_pair, sy, w_offset_pair, index, frames>>
        /\ \E label : Goto(t, label)
    BY <1>6 DEF InitHeader, StoreHeaderField, At, Writing
  <2>2. /\ wr'[t].curr = wr[t].curr
        /\ \A u \in Writers : u # t => wr'[u] = wr[u]
    BY <1>0, <1>6 DEF InitHeader, StoreHeaderField, WriterState, HeaderFields
  <2> QED
    BY <1>0, <1>1, <2>1, <2>2
<1>7. CASE StoreIndexEntry(t) /\ ~ Crashes
  <2>1. /\ Goto(t, "idle") /\ pc[t] \in Writing /\ "idle" \notin Writing
        /\ UNCHANGED <<disk, s_offset_pair, sy, w_offset_pair, frames>>
        /\ index' = [index EXCEPT ![wr[t].curr.index] = wr[t].curr.data]
        /\ \A u \in Writers : u # t => wr'[u] = wr[u]
    BY <1>0, <1>7 DEF StoreIndexEntry, WriteReturns, At, Writing
  <2> QED
    BY <1>0, <1>1, <2>1
<1>8. CASE mark_eos(t)
  <2>1. /\ Goto(t, "eos_header") /\ "eos_header" \notin Writing
        /\ UNCHANGED <<disk, s_offset_pair, sy, index, frames, wr>>
        /\ w_offset_pair'.data = w_offset_pair.data + 12
        /\ w_offset_pair'.index = w_offset_pair.index
    BY <1>8 DEF mark_eos, claim, locals, HeaderSize, Writing
  <2> QED
    BY <1>0, <1>1, <2>1
<1>9. CASE (InitEosHeader(t) /\ ~ Crashes) \/ StoreEosFlags(t)
  <2>1. /\ Goto(t, "eos_mark") \/ Goto(t, "idle")
        /\ UNCHANGED <<disk, s_offset_pair, sy, w_offset_pair, index, frames>>
        /\ \A u \in Writers : u # t => wr'[u] = wr[u]
    BY <1>0, <1>9 DEF InitEosHeader, StoreEosFlags, WriteReturns, locals
  <2> QED
    BY <1>0, <1>1, <2>1 DEF Writing
<1> QED
  BY <1>2, <1>3, <1>4, <1>5, <1>6, <1>7, <1>8, <1>9 DEF WriterStep

(* Whole pages reach as far as what they are to hold. *)
LEMMA PageBounds ==
  ASSUME NEW n \in Nat
  PROVE  /\ page_aligned_addr(n) \in Nat /\ page_aligned_addr(n) <= n
         /\ PageCeil(n) \in Nat /\ PageCeil(n) >= n
BY PageAssumption DEF page_aligned_addr, PageCeil

(* Every entry that find_w_offset_pair looks at is mapped. *)
LEMMA MappedCovers ==
  max_index_entries(Size) \in Nat /\ MappedEntries(Size) \in Nat
    /\ max_index_entries(Size) <= MappedEntries(Size)
<1>1. calculate_index_size(Size) \in Nat
  BY SizeAssumption DEF calculate_index_size, HeaderSize
<1>2. PageCeil(calculate_index_size(Size)) \in Nat
      /\ PageCeil(calculate_index_size(Size)) >= calculate_index_size(Size)
  BY <1>1, PageBounds
<1>3. ASSUME NEW a \in Nat, NEW b \in Nat, a <= b PROVE a \div 8 <= b \div 8 /\ a \div 8 \in Nat
  BY <1>3
<1> QED
  BY <1>1, <1>2, <1>3 DEF max_index_entries, MappedEntries, EntrySize

(* What has been synced stays synced while producers go on. *)
LEMMA WriterKeepsSynced ==
  ASSUME ReadInv, ReadInv', NEW t \in Writers,
         WriterStep(t) \/ \E p \in Payloads : segment_write(t, p), NEW x \in Nat
  PROVE  /\ x <= w_offset_pair.data /\ BetweenFrames(x) =>
              x <= w_offset_pair'.data /\ (BetweenFrames(x))'
         /\ DataSynced(x) => (DataSynced(x))'
         /\ IndexSynced(x) => (IndexSynced(x))'
<1>0. /\ TypeOK /\ TypeOK' /\ index \in [Entry -> Nat]
      /\ w_offset_pair.data \in Nat /\ w_offset_pair.index \in Nat
      /\ w_offset_pair'.data \in Nat /\ w_offset_pair'.index \in Nat
  BY DEF ReadInv, TypeOK, OffsetsTypeOK, MapsTypeOK, Pair
<1>1. /\ disk' = disk
      /\ \A u \in Writers : u # t => pc'[u] = pc[u] /\ wr'[u] = wr[u]
      /\ pc'[t] \in Writing => \/ pc[t] \in Writing /\ wr'[t].curr = wr[t].curr
                               \/ wr'[t].curr = w_offset_pair
      /\ w_offset_pair.data <= w_offset_pair'.data
      /\ w_offset_pair.index <= w_offset_pair'.index
  BY WriterShape
<1>2. /\ DOMAIN frames \subseteq DOMAIN frames'
      /\ \A i \in DOMAIN frames : frames'[i] = frames[i]
      /\ \A i \in DOMAIN frames' \ DOMAIN frames :
           i = w_offset_pair.index /\ frames'[i].data = w_offset_pair.data
  BY WriterShape
<1>3. \A i \in DOMAIN frames : (FrameEnd(i))' = FrameEnd(i)
  BY <1>2 DEF FrameEnd
<1>4. \A i \in DOMAIN frames : /\ i \in Nat /\ FrameEnd(i) \in Nat /\ frames[i].data \in Nat
                               /\ FrameEnd(i) >= frames[i].data + 12
  BY <1>0, FrameFacts
<1>5. \A i \in DOMAIN frames' \ DOMAIN frames :
        (FrameEnd(i))' > w_offset_pair.data /\ (FrameEnd(i))' \in Nat
  <2> SUFFICES ASSUME NEW i \in DOMAIN frames' \ DOMAIN frames
               PROVE  (FrameEnd(i))' > w_offset_pair.data /\ (FrameEnd(i))' \in Nat
    OBVIOUS
  <2>1. frames'[i] \in [data : Nat, payload : Payloads]
    BY <1>0 DEF TypeOK, FramesTypeOK
  <2>2. FrameSize(frames'[i].payload) \in Nat /\ FrameSize(frames'[i].payload) >= 12
    BY <2>1, FrameSizeType
  <2>3. (FrameEnd(i))' = frames'[i].data + FrameSize(frames'[i].payload)
    BY DEF FrameEnd
  <2> QED
    BY <1>0, <1>2, <2>2, <2>3
<1>6. ASSUME x <= w_offset_pair.data, BetweenFrames(x)
      PROVE  x <= w_offset_pair'.data /\ (BetweenFrames(x))'
  BY <1>0, <1>1, <1>2, <1>3, <1>6 DEF BetweenFrames
<1>7. ASSUME DataSynced(x) PROVE (DataSynced(x))'
  <2>1. x <= w_offset_pair'.data /\ (BetweenFrames(x))'
    BY <1>6, <1>7 DEF DataSynced
  <2>2. ASSUME NEW i \in DOMAIN frames' \ disk.torn, (FrameEnd(i))' <= x
        PROVE  HeaderAt(disk.buffer, frames'[i].data) = HeaderAt(buffer', frames'[i].data)
    <3>1. i \in DOMAIN frames
      BY <1>0, <1>5, <1>7, <2>2 DEF DataSynced
    <3>2. FrameEnd(i) <= x /\ frames'[i] = frames[i]
      BY <1>2, <1>3, <2>2, <3>1
    <3>3. HeaderAt(disk.buffer, frames[i].data) = HeaderAt(buffer, frames[i].data)
      BY <1>7, <2>2, <3>1, <3>2 DEF DataSynced
    <3>4. pc[t] \in Writing => i # wr[t].curr.index
      <4> SUFFICES ASSUME pc[t] \in Writing, i = wr[t].curr.index PROVE FALSE
        OBVIOUS
      <4>1. wr[t].curr.data = frames[i].data
        BY OwnerFacts
      <4>2. wr[t].curr.data < x
        BY <1>4, <3>1, <3>2, <4>1
      <4> QED
        BY <1>7, <2>2, <4>2 DEF DataSynced
    <3>5. HeaderAt(buffer', frames[i].data) = HeaderAt(buffer, frames[i].data)
      <4>1. CASE WriterStep(t)
        BY <3>1, <3>4, <4>1, StoresToOwnFrame
      <4>2. CASE \E p \in Payloads : segment_write(t, p)
        BY <4>2 DEF segment_write, shared
      <4> QED
        BY <4>1, <4>2
    <3> QED
      BY <3>2, <3>3, <3>5
  <2>3. ASSUME NEW u \in Writers, pc'[u] \in Writing, wr'[u].curr.data < x
        PROVE  wr'[u].curr.index \in disk.torn
    <3>1. wr'[u].curr # w_offset_pair
      BY <1>0, <1>7, <2>3 DEF DataSynced
    <3>2. pc[u] \in Writing /\ wr'[u].curr = wr[u].curr
      BY <1>1, <2>3, <3>1
    <3> QED
      BY <1>7, <2>3, <3>2 DEF DataSynced
  <2> QED
    BY <1>1, <2>1, <2>2, <2>3 DEF DataSynced
<1>8. ASSUME IndexSynced(x) PROVE (IndexSynced(x))'
  <2>1. x <= w_offset_pair'.index
    BY <1>0, <1>1, <1>8 DEF IndexSynced
  <2>2. ASSUME NEW i \in DOMAIN frames' \ disk.torn, i < x, i < max_index_entries(Size)
        PROVE  disk.index[i] = index'[i]
    <3>1. i \in DOMAIN frames
      BY <1>0, <1>2, <1>8, <2>2 DEF IndexSynced
    <3>2. disk.index[i] = index[i]
      BY <1>8, <2>2, <3>1 DEF IndexSynced
    <3>3. pc[t] \in Writing => i # wr[t].curr.index
      BY <1>8, <2>2 DEF IndexSynced
    <3>4. CASE i \in Entry
      BY <3>2, <3>3, <3>4, WriterShape
    <3>5. CASE i \notin Entry
      BY <1>4, <2>2, <3>1, <3>5, MappedCovers DEF Entry
    <3> QED
      BY <3>4, <3>5
  <2>3. ASSUME NEW u \in Writers, pc'[u] \in Writing, wr'[u].curr.index < x
        PROVE  wr'[u].curr.index \in disk.torn
    <3>1. wr'[u].curr # w_offset_pair
      BY <1>0, <1>8, <2>3 DEF IndexSynced
    <3>2. pc[u] \in Writing /\ wr'[u].curr = wr[u].curr
      BY <1>1, <2>3, <3>1
    <3> QED
      BY <1>8, <2>3, <3>2 DEF IndexSynced
  <2> QED
    BY <1>1, <2>1, <2>2, <2>3 DEF IndexSynced
<1> QED
  BY <1>6, <1>7, <1>8

(* Steps of other threads do not disturb a sync. *)
LEMMA SyncUndisturbed ==
  ASSUME SyncInv, ReadInv', UNCHANGED <<s_offset_pair, sy>>, \A u \in Syncers : pc'[u] = pc[u],
         \A x \in Nat : /\ x <= w_offset_pair.data /\ BetweenFrames(x) =>
                             x <= w_offset_pair'.data /\ (BetweenFrames(x))'
                        /\ DataSynced(x) => (DataSynced(x))'
                        /\ IndexSynced(x) => (IndexSynced(x))',
         w_offset_pair.index <= w_offset_pair'.index
  PROVE  SyncInv'
<1>1. /\ s_offset_pair.data \in Nat /\ s_offset_pair.index \in Nat
      /\ \A u \in Syncers : sy[u].to \in Nat
      /\ w_offset_pair.index \in Nat /\ w_offset_pair'.index \in Nat
  BY DEF SyncInv, ReadInv, TypeOK, OffsetsTypeOK, ThreadsTypeOK, SyncerState, Pair
<1>2. PICK data, idx : data = s_offset_pair.data /\ idx = s_offset_pair.index
  OBVIOUS
<1>3. (DataSynced(data))' /\ (IndexSynced(idx))'
  BY <1>1, <1>2 DEF SyncInv
<1>4. (DataSynced(s_offset_pair.data))' /\ (IndexSynced(s_offset_pair.index))'
  BY <1>2, <1>3
<1>5. SyncsData'
  <2> SUFFICES ASSUME NEW u \in Syncers
               PROVE  /\ pc[u] \in {"sync_data", "sync_data_len", "msync_data", "synced_data"} =>
                           sy[u].from = s_offset_pair.data
                      /\ pc[u] \in {"sync_data_len", "msync_data", "synced_data"} =>
                           /\ sy[u].from <= sy[u].to
                           /\ sy[u].to <= w_offset_pair'.data
                           /\ (BetweenFrames(sy[u].to))'
                      /\ pc[u] = "msync_data" =>
                           sy[u].len = (sy[u].to - sy[u].from)
                                         + (sy[u].from - page_aligned_addr(sy[u].from))
                      /\ pc[u] = "synced_data" => (DataSynced(sy[u].to))'
    BY DEF SyncsData
  <2>1. PICK to : to = sy[u].to /\ to = sy'[u].to
    OBVIOUS
  <2>2. /\ to <= w_offset_pair.data /\ BetweenFrames(to) =>
              to <= w_offset_pair'.data /\ (BetweenFrames(to))'
        /\ DataSynced(to) => (DataSynced(to))'
    BY <1>1, <2>1
  <2> QED
    BY <2>1, <2>2 DEF SyncInv, SyncsData
<1>6. SyncsIndex'
  <2> SUFFICES ASSUME NEW u \in Syncers
               PROVE  /\ pc[u] \in {"sync_index_end", "sync_index_len", "msync_index", "synced_index"} =>
                           sy[u].from = s_offset_pair.index
                      /\ pc[u] \in {"sync_index_len", "msync_index", "synced_index"} =>
                           sy[u].from <= sy[u].to /\ sy[u].to <= w_offset_pair'.index
                      /\ pc[u] = "msync_index" => sy[u].len = sy[u].to - sy[u].from
                      /\ pc[u] = "synced_index" => (IndexSynced(sy[u].to))'
    BY DEF SyncsIndex
  <2>1. PICK to : to = sy[u].to /\ to = sy'[u].to
    OBVIOUS
  <2>2. to \in Nat /\ (IndexSynced(to) => (IndexSynced(to))')
    BY <1>1, <2>1
  <2>3. to <= w_offset_pair.index => to <= w_offset_pair'.index
    BY <1>1, <2>2
  <2> QED
    BY <2>1, <2>2, <2>3 DEF SyncInv, SyncsIndex
<1> QED
  BY <1>4, <1>5, <1>6 DEF SyncInv

(* Every step of a producer. *)
LEMMA WriterSync ==
  ASSUME SyncInv, ReadInv', NEW t \in Writers,
         WriterStep(t) \/ \E p \in Payloads : segment_write(t, p)
  PROVE  SyncInv'
<1>1. ReadInv
  BY DEF SyncInv
<1>2. /\ UNCHANGED <<s_offset_pair, sy>> /\ \A u \in Syncers : pc'[u] = pc[u]
      /\ w_offset_pair.index <= w_offset_pair'.index
  BY <1>1, WriterShape
<1>3. \A x \in Nat : /\ x <= w_offset_pair.data /\ BetweenFrames(x) =>
                          x <= w_offset_pair'.data /\ (BetweenFrames(x))'
                     /\ DataSynced(x) => (DataSynced(x))'
                     /\ IndexSynced(x) => (IndexSynced(x))'
  BY <1>1, WriterKeepsSynced
<1> QED
  BY <1>2, <1>3, SyncUndisturbed

(* Every step of a consumer, and no step at all. *)
LEMMA ReaderSync ==
  ASSUME SyncInv, ReadInv',
         UNCHANGED <<w_offset_pair, s_offset_pair, index, buffer, disk, frames, wr, sy>>,
         \A u \in Writers \cup Syncers : pc'[u] = pc[u]
  PROVE  SyncInv'
<1>1. \A x \in Nat : /\ BetweenFrames(x) => (BetweenFrames(x))'
                     /\ DataSynced(x) => (DataSynced(x))'
                     /\ IndexSynced(x) => (IndexSynced(x))'
  BY DEF BetweenFrames, DataSynced, IndexSynced, FrameEnd
<1>2. w_offset_pair.index <= w_offset_pair'.index
  BY DEF SyncInv, ReadInv, TypeOK, OffsetsTypeOK, Pair
<1> QED
  BY <1>1, <1>2, SyncUndisturbed

-----------------------------------------------------------------------------
(* The steps of segment_sync. *)

(* Syncing more makes no frame less durable: only torn can grow. *)
LEMMA SyncedMonotone ==
  ASSUME UNCHANGED <<w_offset_pair, index, buffer, frames, wr>>,
         \A u \in Writers : pc'[u] = pc[u], disk.torn \subseteq disk'.torn, NEW x
  PROVE  /\ BetweenFrames(x) => (BetweenFrames(x))'
         /\ disk'.buffer = disk.buffer /\ DataSynced(x) => (DataSynced(x))'
         /\ disk'.index = disk.index /\ IndexSynced(x) => (IndexSynced(x))'
<1>1. BetweenFrames(x) => (BetweenFrames(x))'
  BY DEF BetweenFrames, FrameEnd
<1>2. disk'.buffer = disk.buffer /\ DataSynced(x) => (DataSynced(x))'
  BY <1>1 DEF DataSynced, FrameEnd
<1>3. disk'.index = disk.index /\ IndexSynced(x) => (IndexSynced(x))'
  BY DEF IndexSynced
<1> QED
  BY <1>1, <1>2, <1>3

(* A thread's locals in segment_sync are numbers. *)
LEMMA SyncerFacts ==
  ASSUME ReadInv, NEW t \in Syncers
  PROVE  /\ sy \in [Syncers -> SyncerState]
         /\ sy[t].from \in Nat /\ sy[t].to \in Nat /\ sy[t].len \in Int
         /\ s_offset_pair.data \in Nat /\ s_offset_pair.index \in Nat
         /\ w_offset_pair.data \in Nat /\ w_offset_pair.index \in Nat
         /\ DOMAIN disk = {"index", "buffer", "torn"}
BY DEF ReadInv, TypeOK, OffsetsTypeOK, ThreadsTypeOK, DiskTypeOK, SyncerState, Pair

(* The steps that only read offsets, and an msync that fails: what has     *)
(* been synced is the same before and after.                               *)
LEMMA SyncerReads ==
  ASSUME SyncInv, ReadInv', OneSyncer, NEW t \in Syncers, SyncerStep(t) \/ segment_sync(t),
         UNCHANGED <<disk, s_offset_pair>>,
         \/ segment_sync(t) \/ SyncDataReadEnd(t) \/ SyncDataLength(t) \/ SyncIndexReadStart(t)
         \/ SyncIndexReadEnd(t) \/ SyncIndexLength(t) \/ Goto(t, "idle")
  PROVE  SyncInv'
<1>0. ReadInv
  BY DEF SyncInv
<1>1. /\ UNCHANGED <<w_offset_pair, index, buffer, frames, wr>>
      /\ \A u \in Writers : pc'[u] = pc[u]
  BY <1>0, SyncerShape DEF ReadInv
<1>2. \A x : /\ BetweenFrames(x) => (BetweenFrames(x))'
             /\ DataSynced(x) => (DataSynced(x))'
             /\ IndexSynced(x) => (IndexSynced(x))'
  BY <1>1, SyncedMonotone
<1>3. (DataSynced(s_offset_pair.data))' /\ (IndexSynced(s_offset_pair.index))'
  <2>1. PICK data, idx : data = s_offset_pair.data /\ idx = s_offset_pair.index
    OBVIOUS
  <2>2. (DataSynced(data))' /\ (IndexSynced(idx))'
    BY <1>2, <2>1 DEF SyncInv
  <2> QED
    BY <2>1, <2>2
<1>4. /\ sy \in [Syncers -> SyncerState]
      /\ sy[t].from \in Nat /\ sy[t].to \in Nat
      /\ s_offset_pair.data \in Nat /\ s_offset_pair.index \in Nat
      /\ w_offset_pair.data \in Nat /\ w_offset_pair.index \in Nat
      /\ s_offset_pair.data <= w_offset_pair.data /\ s_offset_pair.index <= w_offset_pair.index
  BY <1>0, SyncerFacts DEF SyncInv, DataSynced, IndexSynced
<1>5. ASSUME NEW label, Goto(t, label) PROVE pc'[t] = label
  BY <1>0, <1>5, OthersStay DEF ReadInv, Threads
<1>6. BetweenFrames(w_offset_pair.data)
  BY <1>0 DEF ReadInv, FramesDisjoint, BetweenFrames
<1> DEFINE from == sy'[t].from
           to   == sy'[t].to
           Data(label) ==
             /\ label \in {"sync_data", "sync_data_len", "msync_data"} => from = s_offset_pair.data
             /\ label \in {"sync_data_len", "msync_data"} =>
                  from <= to /\ to <= w_offset_pair.data /\ (BetweenFrames(sy[t].to))'
             /\ label = "msync_data" => sy'[t].len = (to - from) + (from - page_aligned_addr(from))
             /\ label # "synced_data"
           Index(label) ==
             /\ label \in {"sync_index_end", "sync_index_len", "msync_index"} =>
                  from = s_offset_pair.index
             /\ label \in {"sync_index_len", "msync_index"} =>
                  from <= to /\ to <= w_offset_pair.index
             /\ label = "msync_index" => sy'[t].len = to - from
             /\ label # "synced_index"
<1>7. ASSUME Data(pc'[t]), Index(pc'[t]) PROVE SyncInv'
  <2>1. SyncsData'
    BY <1>1, <1>7 DEF SyncsData, OneSyncer
  <2>2. SyncsIndex'
    BY <1>1, <1>7 DEF SyncsIndex, OneSyncer
  <2> QED
    BY <1>3, <2>1, <2>2 DEF SyncInv
<1>8. CASE segment_sync(t) \/ SyncIndexReadStart(t)
  <2>1. \/ pc'[t] = "sync_data" /\ from = s_offset_pair.data
        \/ pc'[t] = "sync_index_end" /\ from = s_offset_pair.index
    BY <1>4, <1>5, <1>8 DEF segment_sync, SyncIndexReadStart, SyncerState
  <2> QED
    BY <1>7, <2>1
<1>9. CASE SyncDataReadEnd(t)
  <2>1. pc[t] = "sync_data" /\ pc'[t] = "sync_data_len"
    BY <1>5, <1>9 DEF SyncDataReadEnd, At
  <2>2. from = sy[t].from /\ to = w_offset_pair.data
    BY <1>4, <1>9 DEF SyncDataReadEnd, SyncerState
  <2>3. from = s_offset_pair.data
    BY <2>1, <2>2 DEF SyncInv, SyncsData
  <2>4. (BetweenFrames(sy[t].to))'
    <3>1. PICK x : x = w_offset_pair.data /\ x = sy'[t].to
      BY <2>2
    <3>2. (BetweenFrames(x))'
      BY <1>2, <1>6, <3>1
    <3> QED
      BY <3>1, <3>2
  <2> QED
    BY <1>4, <1>7, <2>1, <2>2, <2>3, <2>4
<1>10. CASE SyncDataLength(t)
  <2>1. pc[t] = "sync_data_len" /\ pc'[t] = "msync_data"
    BY <1>5, <1>10 DEF SyncDataLength, At
  <2>2. /\ sy[t].from = s_offset_pair.data /\ sy[t].from <= sy[t].to
        /\ sy[t].to <= w_offset_pair.data /\ BetweenFrames(sy[t].to)
    BY <2>1 DEF SyncInv, SyncsData
  <2>3. /\ from = sy[t].from /\ to = sy[t].to
        /\ sy'[t].len = (to - from) + (from - page_aligned_addr(from))
    BY <1>4, <1>10, <2>2 DEF SyncDataLength, SyncerState
  <2>4. (BetweenFrames(sy[t].to))'
    <3>1. PICK x : x = sy[t].to /\ x = sy'[t].to
      BY <2>3
    <3>2. (BetweenFrames(x))'
      BY <1>2, <2>2, <3>1
    <3> QED
      BY <3>1, <3>2
  <2> QED
    BY <1>7, <2>1, <2>2, <2>3, <2>4
<1>11. CASE SyncIndexReadEnd(t)
  <2>1. pc[t] = "sync_index_end" /\ pc'[t] = "sync_index_len"
    BY <1>5, <1>11 DEF SyncIndexReadEnd, At
  <2>2. from = sy[t].from /\ to = w_offset_pair.index
    BY <1>4, <1>11 DEF SyncIndexReadEnd, SyncerState
  <2>3. from = s_offset_pair.index
    BY <2>1, <2>2 DEF SyncInv, SyncsIndex
  <2> QED
    BY <1>4, <1>7, <2>1, <2>2, <2>3
<1>12. CASE SyncIndexLength(t)
  <2>1. pc[t] = "sync_index_len" /\ pc'[t] = "msync_index"
    BY <1>5, <1>12 DEF SyncIndexLength, At
  <2>2. /\ sy[t].from = s_offset_pair.index /\ sy[t].from <= sy[t].to
        /\ sy[t].to <= w_offset_pair.index
    BY <2>1 DEF SyncInv, SyncsIndex
  <2>3. from = sy[t].from /\ to = sy[t].to /\ sy'[t].len = to - from
    BY <1>4, <1>12, <2>2 DEF SyncIndexLength, SyncerState
  <2> QED
    BY <1>7, <2>1, <2>2, <2>3
<1>13. CASE Goto(t, "idle")
  BY <1>5, <1>7, <1>13
<1> QED
  BY <1>8, <1>9, <1>10, <1>11, <1>12, <1>13

(* What is read from the disk after an msync of the bytes [from, to). *)
LEMMA FlushedAt ==
  ASSUME NEW old, NEW mem, NEW from, NEW to, NEW new, new = Flushed(old, mem, from, to), NEW x
  PROVE  HeaderAt(new, x) = IF from <= x /\ x < to THEN HeaderAt(mem, x) ELSE HeaderAt(old, x)
BY DEF Flushed, HeaderAt

(* msync covers the frames from the sync offset to the end that was read   *)
(* before it, and records the frames that were being written.              *)
LEMMA MsyncDataSync ==
  ASSUME SyncInv, ReadInv', OneSyncer, NEW t \in Syncers, MsyncData(t), UNCHANGED sy,
         Goto(t, "synced_data")
  PROVE  SyncInv'
<1> DEFINE from == sy[t].from
           to   == sy[t].to
           len  == sy[t].len
<1>0. ReadInv /\ TypeOK /\ SyncerStep(t)
  BY DEF SyncInv, ReadInv, SyncerStep
<1>1. /\ UNCHANGED <<w_offset_pair, index, buffer, frames, wr>>
      /\ \A u \in Writers : pc'[u] = pc[u]
  BY <1>0, SyncerShape DEF ReadInv
<1>2. pc[t] = "msync_data" /\ pc'[t] = "synced_data" /\ s_offset_pair' = s_offset_pair
  BY <1>0, OthersStay DEF MsyncData, At, Threads
<1>3. disk' = [disk EXCEPT
                 !.buffer = Flushed(@, buffer, page_aligned_addr(from), MsyncEnd(from, len)),
                 !.torn   = @ \cup {i \in InFlight : frames[i].data < to}]
  <2>1. "idle" # "synced_data" /\ ~ SyncReturns(t, ELDTSYN)
    BY <1>0, <1>2, OthersStay DEF SyncReturns, Threads
  <2> QED
    BY <2>1 DEF MsyncData
<1>4. /\ from \in Nat /\ to \in Nat /\ len \in Int
      /\ s_offset_pair.data \in Nat /\ w_offset_pair.data \in Nat
      /\ DOMAIN disk = {"index", "buffer", "torn"}
  BY <1>0, SyncerFacts
<1>5. /\ disk'.buffer = Flushed(disk.buffer, buffer, page_aligned_addr(from), MsyncEnd(from, len))
      /\ disk'.torn = disk.torn \cup {i \in InFlight : frames[i].data < to}
      /\ disk'.index = disk.index
  BY <1>3, <1>4
<1>6. /\ from = s_offset_pair.data /\ from <= to /\ to <= w_offset_pair.data
      /\ BetweenFrames(to) /\ BetweenFrames(from)
      /\ len = (to - from) + (from - page_aligned_addr(from))
  BY <1>2 DEF SyncInv, SyncsData, DataSynced
<1>7. /\ page_aligned_addr(from) \in Nat /\ page_aligned_addr(from) <= from
      /\ MsyncEnd(from, len) \in Nat /\ to <= MsyncEnd(from, len)
  <2>1. page_aligned_addr(from) \in Nat /\ page_aligned_addr(from) <= from
    BY <1>4, PageBounds
  <2>2. len \in Nat /\ len = to - page_aligned_addr(from)
    BY <1>4, <1>6, <2>1
  <2>3. PageCeil(len) \in Nat /\ PageCeil(len) >= len
    BY <2>2, PageBounds
  <2> QED
    BY <1>4, <2>1, <2>2, <2>3 DEF MsyncEnd
<1>8. ASSUME NEW i \in DOMAIN frames \ disk'.torn, FrameEnd(i) <= to
      PROVE  HeaderAt(disk'.buffer, frames[i].data) = HeaderAt(buffer, frames[i].data)
  <2>1. /\ frames[i].data \in Nat /\ FrameEnd(i) \in Nat
        /\ FrameEnd(i) >= frames[i].data + 12
    BY <1>0, FrameFacts
  <2>2. FrameEnd(i) <= from \/ from <= frames[i].data
    BY <1>6 DEF BetweenFrames
  <2>3. FrameEnd(i) <= from =>
          HeaderAt(disk.buffer, frames[i].data) = HeaderAt(buffer, frames[i].data)
    BY <1>5, <1>6 DEF SyncInv, DataSynced
  <2>4. frames[i].data < MsyncEnd(from, len)
    BY <1>4, <1>7, <1>8, <2>1
  <2>5. from <= frames[i].data => page_aligned_addr(from) <= frames[i].data
    BY <1>4, <1>7, <2>1
  <2> QED
    BY <1>5, <2>2, <2>3, <2>4, <2>5, FlushedAt
<1>9. ASSUME NEW u \in Writers, pc[u] \in Writing, wr[u].curr.data < to
      PROVE  wr[u].curr.index \in disk'.torn
  <2>1. frames[wr[u].curr.index].data = wr[u].curr.data
    BY <1>0, <1>9, OwnerFacts
  <2>2. wr[u].curr.index \in InFlight
    BY <1>9 DEF InFlight, Writing
  <2> QED
    BY <1>5, <1>9, <2>1, <2>2
<1>10. ASSUME NEW x \in Nat, x <= to, BetweenFrames(x) PROVE (DataSynced(x))'
  <2>1. x <= w_offset_pair'.data
    BY <1>1, <1>4, <1>6, <1>10
  <2>2. (BetweenFrames(x))'
    BY <1>1, <1>10 DEF BetweenFrames, FrameEnd
  <2>3. ASSUME NEW i \in DOMAIN frames \ disk'.torn, FrameEnd(i) <= x
        PROVE  HeaderAt(disk'.buffer, frames[i].data) = HeaderAt(buffer, frames[i].data)
    <3>1. FrameEnd(i) \in Nat
      BY <1>0, FrameFacts
    <3>2. FrameEnd(i) <= to
      BY <1>4, <1>10, <2>3, <3>1
    <3> QED
      BY <1>8, <3>2
  <2>4. ASSUME NEW u \in Writers, pc[u] \in Writing, wr[u].curr.data < x
        PROVE  wr[u].curr.index \in disk'.torn
    <3>1. wr[u].curr.data \in Nat
      BY <1>0, WriterOffset
    <3>2. wr[u].curr.data < to
      BY <1>4, <1>10, <2>4, <3>1
    <3> QED
      BY <1>9, <2>4, <3>2
  <2> QED
    BY <1>1, <2>1, <2>2, <2>3, <2>4 DEF DataSynced, FrameEnd
<1>11. PICK end, data, idx : end = to /\ data = s_offset_pair.data /\ idx = s_offset_pair.index
  OBVIOUS
<1>12. (DataSynced(end))' /\ (DataSynced(data))'
  BY <1>4, <1>6, <1>10, <1>11
<1>13. (IndexSynced(idx))'
  BY <1>1, <1>5, <1>11, SyncedMonotone DEF SyncInv
<1>14. SyncsData'
  <2>1. (BetweenFrames(end))'
    BY <1>12 DEF DataSynced
  <2> QED
    BY <1>1, <1>2, <1>6, <1>11, <1>12, <2>1 DEF SyncsData, OneSyncer
<1>15. SyncsIndex'
  BY <1>2 DEF SyncsIndex, OneSyncer
<1> QED
  BY <1>2, <1>11, <1>12, <1>13, <1>14, <1>15 DEF SyncInv

(* The new sync offset is the end that msync has covered. *)
LEMMA StoreSyncedDataSync ==
  ASSUME SyncInv, ReadInv', OneSyncer, NEW t \in Syncers, StoreSyncedData(t)
  PROVE  SyncInv'
<1>0. ReadInv /\ TypeOK /\ SyncerStep(t)
  BY DEF SyncInv, ReadInv, SyncerStep
<1>1. /\ UNCHANGED <<w_offset_pair, index, buffer, frames, wr>>
      /\ \A u \in Writers : pc'[u] = pc[u]
  BY <1>0, SyncerShape DEF ReadInv
<1>2. pc[t] = "synced_data" /\ pc'[t] \in {"idle", "sync_index"} /\ UNCHANGED disk
  BY <1>0, OthersStay DEF StoreSyncedData, SyncReturns, At, Threads
<1>3. PICK end, idx : /\ end = sy[t].to /\ end = s_offset_pair'.data
                      /\ idx = s_offset_pair.index /\ idx = s_offset_pair'.index
  BY <1>0 DEF StoreSyncedData, SyncedUpTo, TypeOK, OffsetsTypeOK, Pair
<1>4. (DataSynced(end))' /\ (IndexSynced(idx))'
  BY <1>1, <1>2, <1>3, SyncedMonotone DEF SyncInv, SyncsData
<1>5. SyncsData' /\ SyncsIndex'
  BY <1>2 DEF SyncsData, SyncsIndex, OneSyncer
<1> QED
  BY <1>3, <1>4, <1>5 DEF SyncInv

(* msync covers the entries from the sync index to the end that was read   *)
(* before it, as far as the index file goes.                               *)
LEMMA MsyncIndexSync ==
  ASSUME SyncInv, ReadInv', OneSyncer, NEW t \in Syncers, MsyncIndex(t), UNCHANGED sy,
         Goto(t, "synced_index")
  PROVE  SyncInv'
<1> DEFINE from == sy[t].from * EntrySize
           to   == sy[t].to
           len  == EntryBytes(sy[t].len) + (from - page_aligned_addr(from))
           pages(i) == /\ i < max_index_entries(Size)
                       /\ page_aligned_addr(from) <= i * EntrySize
                       /\ i * EntrySize < MsyncEnd(from, len)
<1>0. ReadInv /\ TypeOK /\ SyncerStep(t)
  BY DEF SyncInv, ReadInv, SyncerStep
<1>1. /\ UNCHANGED <<w_offset_pair, index, buffer, frames, wr>>
      /\ \A u \in Writers : pc'[u] = pc[u]
  BY <1>0, SyncerShape DEF ReadInv
<1>2. pc[t] = "msync_index" /\ pc'[t] = "synced_index" /\ s_offset_pair' = s_offset_pair
  BY <1>0, OthersStay DEF MsyncIndex, At, Threads
<1>3. disk' = [disk EXCEPT
                 !.index = [i \in Entry |-> IF pages(i) THEN index[i] ELSE @[i]],
                 !.torn  = @ \cup {i \in InFlight : i < to}]
  <2>1. ~ SyncReturns(t, ELDTSYN)
    BY <1>0, <1>2, OthersStay DEF SyncReturns, Threads
  <2> QED
    BY <2>1 DEF MsyncIndex
<1>4. /\ sy[t].from \in Nat /\ to \in Nat /\ sy[t].len \in Int
      /\ s_offset_pair.index \in Nat /\ w_offset_pair.index \in Nat
      /\ DOMAIN disk = {"index", "buffer", "torn"}
  BY <1>0, SyncerFacts
<1>5. /\ disk'.index = [i \in Entry |-> IF pages(i) THEN index[i] ELSE disk.index[i]]
      /\ disk'.torn = disk.torn \cup {i \in InFlight : i < to}
      /\ disk'.buffer = disk.buffer
  BY <1>3, <1>4
<1>6. /\ sy[t].from = s_offset_pair.index /\ sy[t].from <= to /\ to <= w_offset_pair.index
      /\ sy[t].len = to - sy[t].from
  BY <1>2 DEF SyncInv, SyncsIndex
<1>7. /\ from = sy[t].from * 8 /\ from \in Nat
      /\ page_aligned_addr(from) \in Nat /\ page_aligned_addr(from) <= from
      /\ MsyncEnd(from, len) \in Nat /\ to * 8 <= MsyncEnd(from, len)
  <2>1. from = sy[t].from * 8 /\ from \in Nat
    BY <1>4 DEF EntrySize
  <2>2. page_aligned_addr(from) \in Nat /\ page_aligned_addr(from) <= from
    BY <2>1, PageBounds
  <2>3. len \in Nat /\ len = to * 8 - page_aligned_addr(from)
    <3>1. PICK page \in Nat : page = page_aligned_addr(from) /\ page <= from
      BY <2>2
    <3>2. EntryBytes(sy[t].len) = (to - sy[t].from) * 8
      BY <1>6 DEF EntryBytes, EntrySize
    <3>3. len = (to - sy[t].from) * 8 + (from - page)
      BY <3>1, <3>2
    <3> QED
      BY <1>4, <1>6, <2>1, <3>1, <3>3
  <2>4. PageCeil(len) \in Nat /\ PageCeil(len) >= len
    BY <2>3, PageBounds
  <2> QED
    BY <1>4, <2>1, <2>2, <2>3, <2>4 DEF MsyncEnd
<1>8. ASSUME NEW i \in DOMAIN frames \ disk'.torn, i < to, i < max_index_entries(Size)
      PROVE  disk'.index[i] = index[i]
  <2>1. i \in Nat /\ i \in Entry
    BY <1>0, <1>8, FrameFacts, MappedCovers DEF Entry
  <2>2. CASE i < sy[t].from
    <3>1. disk.index[i] = index[i]
      BY <1>5, <1>6, <1>8, <2>2 DEF SyncInv, IndexSynced
    <3> QED
      BY <1>5, <2>1, <3>1
  <2>3. CASE ~ (i < sy[t].from)
    <3>1. i * EntrySize = i * 8
      BY DEF EntrySize
    <3>2. page_aligned_addr(from) <= i * 8 /\ i * 8 < MsyncEnd(from, len)
      BY <1>4, <1>7, <1>8, <2>1, <2>3
    <3>3. pages(i)
      BY <1>8, <3>1, <3>2
    <3> QED
      BY <1>5, <2>1, <3>3
  <2> QED
    BY <2>2, <2>3
<1>9. ASSUME NEW u \in Writers, pc[u] \in Writing, wr[u].curr.index < to
      PROVE  wr[u].curr.index \in disk'.torn
  <2>1. wr[u].curr.index \in InFlight
    BY <1>9 DEF InFlight, Writing
  <2> QED
    BY <1>5, <1>9, <2>1
<1>10. ASSUME NEW n \in Nat, n <= to PROVE (IndexSynced(n))'
  <2>1. n <= w_offset_pair'.index
    BY <1>1, <1>4, <1>6, <1>10
  <2>2. ASSUME NEW i \in DOMAIN frames \ disk'.torn, i < n, i < max_index_entries(Size)
        PROVE  disk'.index[i] = index[i]
    <3>1. i \in Nat
      BY <1>0, FrameFacts
    <3>2. i < to
      BY <1>4, <1>10, <2>2, <3>1
    <3> QED
      BY <1>8, <2>2, <3>2
  <2>3. ASSUME NEW u \in Writers, pc[u] \in Writing, wr[u].curr.index < n
        PROVE  wr[u].curr.index \in disk'.torn
    <3>1. wr[u].curr.index \in Nat
      BY <1>0, WriterOffset
    <3>2. wr[u].curr.index < to
      BY <1>4, <1>10, <2>3, <3>1
    <3> QED
      BY <1>9, <2>3, <3>2
  <2> QED
    BY <1>1, <2>1, <2>2, <2>3 DEF IndexSynced
<1>11. PICK end, data, idx : end = to /\ data = s_offset_pair.data /\ idx = s_offset_pair.index
  OBVIOUS
<1>12. (IndexSynced(end))' /\ (IndexSynced(idx))'
  BY <1>4, <1>6, <1>10, <1>11
<1>13. (DataSynced(data))'
  BY <1>1, <1>5, <1>11, SyncedMonotone DEF SyncInv
<1>14. SyncsData'
  BY <1>2 DEF SyncsData, OneSyncer
<1>15. SyncsIndex'
  BY <1>1, <1>2, <1>6, <1>11, <1>12 DEF SyncsIndex, OneSyncer
<1> QED
  BY <1>2, <1>11, <1>12, <1>13, <1>14, <1>15 DEF SyncInv

(* The new sync index is the end that msync has covered. *)
LEMMA StoreSyncedIndexSync ==
  ASSUME SyncInv, ReadInv', OneSyncer, NEW t \in Syncers, StoreSyncedIndex(t)
  PROVE  SyncInv'
<1>0. ReadInv /\ TypeOK /\ SyncerStep(t)
  BY DEF SyncInv, ReadInv, SyncerStep
<1>1. /\ UNCHANGED <<w_offset_pair, index, buffer, frames, wr>>
      /\ \A u \in Writers : pc'[u] = pc[u]
  BY <1>0, SyncerShape DEF ReadInv
<1>2. pc[t] = "synced_index" /\ pc'[t] = "idle" /\ UNCHANGED disk
  BY <1>0, OthersStay DEF StoreSyncedIndex, SyncReturns, At, Threads
<1>3. PICK data, end : /\ end = sy[t].to /\ end = s_offset_pair'.index
                       /\ data = s_offset_pair.data /\ data = s_offset_pair'.data
  BY <1>0 DEF StoreSyncedIndex, SyncedUpTo, TypeOK, OffsetsTypeOK, Pair
<1>4. (DataSynced(data))' /\ (IndexSynced(end))'
  BY <1>1, <1>2, <1>3, SyncedMonotone DEF SyncInv, SyncsIndex
<1>5. SyncsData' /\ SyncsIndex'
  BY <1>2 DEF SyncsData, SyncsIndex, OneSyncer
<1> QED
  BY <1>3, <1>4, <1>5 DEF SyncInv

(* Every step of segment_sync. *)
LEMMA SyncerSync ==
  ASSUME SyncInv, ReadInv', OneSyncer, NEW t \in Syncers, SyncerStep(t) \/ segment_sync(t)
  PROVE  SyncInv'
<1>1. CASE \/ segment_sync(t) \/ SyncDataReadEnd(t) \/ SyncDataLength(t)
           \/ SyncIndexReadStart(t) \/ SyncIndexReadEnd(t) \/ SyncIndexLength(t)
  <2>1. UNCHANGED <<disk, s_offset_pair>>
    BY <1>1 DEF segment_sync, SyncDataReadEnd, SyncDataLength, SyncIndexReadStart,
                SyncIndexReadEnd, SyncIndexLength, shared
  <2> QED
    BY <1>1, <2>1, SyncerReads
<1>2. CASE MsyncData(t)
  <2>1. CASE Goto(t, "synced_data") /\ UNCHANGED sy
    BY <1>2, <2>1, MsyncDataSync
  <2>2. CASE Goto(t, "idle") /\ UNCHANGED disk
    BY <1>2, <2>2, SyncerReads DEF MsyncData
  <2> QED
    BY <1>2, <2>1, <2>2 DEF MsyncData, SyncReturns
<1>3. CASE MsyncIndex(t)
  <2>1. CASE Goto(t, "synced_index") /\ UNCHANGED sy
    BY <1>3, <2>1, MsyncIndexSync
  <2>2. CASE Goto(t, "idle") /\ UNCHANGED disk
    BY <1>3, <2>2, SyncerReads DEF MsyncIndex
  <2> QED
    BY <1>3, <2>1, <2>2 DEF MsyncIndex, SyncReturns
<1> QED
  BY <1>1, <1>2, <1>3, StoreSyncedDataSync, StoreSyncedIndexSync DEF SyncerStep

-----------------------------------------------------------------------------
(* The invariant, and what it gives. *)

(* Nothing has been synced in an empty segment. *)
LEMMA InitSync == Init => SyncInv
<1> SUFFICES ASSUME Init PROVE SyncInv
  OBVIOUS
<1>1. ReadInv
  BY InitReadInv
<1>2. /\ DOMAIN frames = {} /\ \A t \in Threads : pc[t] = "idle"
      /\ s_offset_pair.data = 0 /\ s_offset_pair.index = 0
      /\ w_offset_pair.data = 0 /\ w_offset_pair.index = 0
  BY DEF Init
<1>3. DataSynced(0) /\ IndexSynced(0)
  BY <1>2 DEF DataSynced, IndexSynced, BetweenFrames, Writing, Threads
<1>4. SyncsData /\ SyncsIndex
  BY <1>2 DEF SyncsData, SyncsIndex, Threads
<1> QED
  BY <1>1, <1>2, <1>3, <1>4 DEF SyncInv

(* Every step of the system. *)
LEMMA NextSync == ASSUME OneSyncer, SyncInv, [Next]_vars PROVE SyncInv'
<1>0. ReadInv'
  BY NextReadInv DEF SyncInv
<1>1. ASSUME NEW t \in Readers,
             ReaderStep(t) \/ \E rel \in 0 .. MaxWrites - 1 : segment_read(t, rel)
      PROVE  SyncInv'
  <2>1. /\ UNCHANGED <<w_offset_pair, s_offset_pair, index, buffer, disk, frames, wr, sy>>
        /\ \A u \in Writers \cup Syncers : pc'[u] = pc[u]
    BY <1>1, ReaderShape DEF SyncInv, ReadInv
  <2> QED
    BY <1>0, <2>1, ReaderSync
<1>2. CASE UNCHANGED vars
  BY <1>0, <1>2, ReaderSync DEF vars, shared, locals
<1> QED
  BY <1>0, <1>1, <1>2, WriterSync, SyncerSync DEF Next

(* What segment_sync has passed is on disk, whatever any number of         *)
(* producers write meanwhile and however often msync fails, as long as one *)
(* thread syncs; the frames that were being written at the time are known. *)
THEOREM SyncsAreDurable ==
  ASSUME OneSyncer
  PROVE  Spec => []SyncedIsDurable
<1>1. Init => SyncInv
  BY InitSync
<1>2. SyncInv /\ [Next]_vars => SyncInv'
  BY NextSync
<1>3. SyncInv => SyncedIsDurable
  BY DEF SyncInv, DataSynced, IndexSynced, SyncedIsDurable
<1> QED
  BY <1>1, <1>2, <1>3, PTL DEF Spec
=============================================================================
