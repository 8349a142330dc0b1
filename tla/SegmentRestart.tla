--------------------------- MODULE SegmentRestart ---------------------------
(***************************************************************************)
(* A segment whose process dies, or whose machine crashes, at any point    *)
(* and that is then opened again.  The maps are shared: what a dead        *)
(* process has stored is still in the kernel's pages.  A crash of the      *)
(* machine leaves what is on disk: what msync was asked for, and the pages *)
(* that the kernel has written back on its own.  segment_close is          *)
(* segment_sync followed by the end of the process's maps.                 *)
(***************************************************************************)
EXTENDS Segment

CONSTANTS
  MaxStops,        \* bound: number of deaths and crashes
  MaxWriteBacks    \* bound: number of times the kernel writes pages back

ASSUME RestartAssumption == MaxStops \in Nat /\ MaxWriteBacks \in Nat

VARIABLES
  opened,    \* the last segment_open has succeeded
  stops, writeBacks,
  acked,     \* history: the frames whose segment_write has returned since the last crash
  synced     \* history: the frames that segment_sync had made durable before a crash

kept     == <<opened, stops, synced>>
restarts == <<kept, acked, writeBacks>>
allVars  == <<vars, restarts>>

Frame(i) == [index |-> i, data |-> frames[i].data, payload |-> frames[i].payload]

RestartInit ==
  /\ Init
  /\ opened = TRUE
  /\ stops = 0 /\ writeBacks = 0
  /\ acked = {} /\ synced = {}

(* The threads run.  A segment_write is acknowledged when it returns. *)
Run ==
  /\ opened
  /\ Next
  /\ acked' = acked \cup {Frame(wr[t].curr.index) :
                            t \in {u \in Writers : pc[u] = "index" /\ pc'[u] = "idle"}}
  /\ UNCHANGED <<kept, writeBacks>>

-----------------------------------------------------------------------------
(* The kernel writes dirty pages of the two files back whenever it likes.  *)

Page(x) == x \div PageSize

(* The pages of the frame at `x', as far as its payload tells. *)
FramePages(x, hdr) ==
  Page(x) .. Page(x + (IF hdr.payload = NoPayload THEN 0 ELSE FrameSize(hdr.payload) - 1))

(* A header is written with its page, a payload only with all its pages.   *)
WrittenBack(old, mem, pages) ==
  [x \in {y \in DOMAIN old : Page(y) \notin pages} \cup {y \in DOMAIN mem : Page(y) \in pages} |->
     IF Page(x) \notin pages THEN old[x]
     ELSE IF FramePages(x, mem[x]) \subseteq pages THEN mem[x]
     ELSE [mem[x] EXCEPT !.payload = HeaderAt(old, x).payload]]

(* The index file ends inside its last page. *)
InIndexFile(i) == i < max_index_entries(Size)

(* Sets of dirty pages that tell on the disk: the tail of a frame that is  *)
(* written without its header makes no difference there.                   *)
DirtyData ==
  LET dirty == {x \in DOMAIN buffer : HeaderAt(disk.buffer, x) # buffer[x]}
      parts == {{Page(x)} : x \in dirty} \cup {FramePages(x, buffer[x]) : x \in dirty}
  IN  {UNION some : some \in SUBSET parts \ {{}}}

DirtyIndex == {Page(i * EntrySize) : i \in {j \in Entry : InIndexFile(j) /\ disk.index[j] # index[j]}}

WriteBackData ==
  /\ opened /\ ~ fault /\ writeBacks < MaxWriteBacks
  /\ \E pages \in DirtyData :
       disk' = [disk EXCEPT !.buffer = WrittenBack(@, buffer, pages)]
  /\ writeBacks' = writeBacks + 1
  /\ UNCHANGED <<w_offset_pair, s_offset_pair, index, buffer, pc, locals, calls, fault, frames>>
  /\ UNCHANGED <<kept, acked>>

WriteBackIndex ==
  /\ opened /\ ~ fault /\ writeBacks < MaxWriteBacks
  /\ \E page \in DirtyIndex :
       disk' = [disk EXCEPT !.index = [i \in Entry |->
                  IF InIndexFile(i) /\ Page(i * EntrySize) = page THEN index[i] ELSE @[i]]]
  /\ writeBacks' = writeBacks + 1
  /\ UNCHANGED <<w_offset_pair, s_offset_pair, index, buffer, pc, locals, calls, fault, frames>>
  /\ UNCHANGED <<kept, acked>>

-----------------------------------------------------------------------------
(* segment_open on the files that are left: writing resumes where the      *)
(* index says, and all that is there counts as synced.                     *)

Complete(buf, idx, f) ==
  /\ idx[f.index] = f.data
  /\ HeaderAt(buf, f.data) =
       [flags |-> "READY", size |-> FrameSize(f.payload), payload |-> f.payload]

segment_open(idx, buf, onDisk) ==
  LET found == find_w_offset_pair(buf, idx, Size)
      pair  == IF found.rc = 0 THEN found.pair ELSE [index |-> 0, data |-> 0]
      read(i) == [data |-> idx[i], payload |-> HeaderAt(buf, idx[i]).payload]
  IN  /\ opened' = (found.rc = 0)
      /\ w_offset_pair' = pair
      /\ s_offset_pair' = pair
      /\ index' = idx
      /\ buffer' = buf
      /\ frames' = [i \in 0 .. pair.index - 1 |-> IF i \in DOMAIN frames THEN frames[i] ELSE read(i)]
      /\ disk' = [onDisk EXCEPT !.torn =
                    {i \in DOMAIN frames' :
                       ~ Complete(onDisk.buffer, onDisk.index,
                                  [index |-> i, data |-> frames'[i].data,
                                   payload |-> frames'[i].payload])}]
      /\ pc' = [t \in Threads |-> "idle"]
      /\ wr' = [t \in Writers |-> IdleWriter(0)]
      /\ rd' = [t \in Readers |-> [rel |-> 0, boundary |-> 0, phys |-> 0, rc |-> ELNORD]]
      /\ sy' = [t \in Syncers |-> [from |-> 0, to |-> 0, len |-> 0, rc |-> 0]]
      /\ UNCHANGED <<calls, fault, writeBacks>>

(* The process dies, or closes the segment.  What it had stored behind the *)
(* end of the index file may stay in the kernel's page for a while.        *)
Die ==
  /\ opened /\ ~ fault /\ stops < MaxStops
  /\ stops' = stops + 1
  /\ \E tail \in BOOLEAN :
       segment_open([i \in Entry |-> IF InIndexFile(i) \/ tail THEN index[i] ELSE 0], buffer, disk)
  /\ UNCHANGED <<acked, synced>>

(* The frames that segment_sync has passed, with all those before them. *)
Synced == {i \in DOMAIN frames :
             /\ InIndexFile(i) /\ i < s_offset_pair.index
             /\ FrameEnd(i) <= s_offset_pair.data
             /\ disk.torn \cap (0 .. i) = {}}

MachineCrash ==
  /\ opened /\ ~ fault /\ stops < MaxStops
  /\ stops' = stops + 1
  /\ segment_open(disk.index, disk.buffer, disk)
  /\ acked' = {}
  /\ synced' = synced \cup {Frame(i) : i \in Synced}

RestartNext == Run \/ WriteBackData \/ WriteBackIndex \/ Die \/ MachineCrash

RestartSpec == RestartInit /\ [][RestartNext]_allVars

-----------------------------------------------------------------------------
(* Properties *)

(* A segment_read of the frame's offset returns it. *)
ReadsBack(f) == /\ f.index < w_offset_pair.index
                /\ ~ EntryUnset(f.index, index[f.index])
                /\ Complete(buffer, index, f)

(* "An embeddable durable queue": what segment_write has acknowledged is   *)
(* read back at its offset after the process has died at any point of any  *)
(* thread and the segment is opened again.                                 *)
AckedReadBack == opened => \A f \in acked : ReadsBack(f)

(* With one producer that is so, but for one frame: when the process died  *)
(* while it wrote the very first header, with READY stored and the size    *)
(* not, recovery counts the frame and resumes on top of it, at entry 1 and *)
(* byte 0, which segment_read takes for an entry that is not set.          *)
AckedSurvive == opened => \A f \in acked : ReadsBack(f) \/ (f.index = 1 /\ f.data = 0)

(* What segment_sync has passed survives a crash of the machine, whatever  *)
(* else the kernel had or had not written back, and what is written after  *)
(* the recovery leaves it alone: except frames that a sync passed while    *)
(* they were being written, and all frames behind such a one.              *)
SyncedSurvive == opened => \A f \in synced : ReadsBack(f)

(* "Mark segment as complete for writes" (mark_eos): once a header below   *)
(* the write offset says EOS, no frame is reserved any more.  mqlog relies *)
(* on it: the next segment starts at the offset this one has then.  Only   *)
(* opening the segment again, which goes by the index, forgets it.         *)
Sealed == \E x \in DOMAIN buffer : x < w_offset_pair.data /\ buffer[x].flags = "EOS"
SealedStaysSealed == [][Sealed /\ stops' = stops => frames' = frames]_allVars

(* A sync never takes back what an earlier sync declared committed, nor    *)
(* does anything else but opening the segment again.                       *)
SyncNeverRetreats ==
  [][stops' = stops => /\ s_offset_pair'.data >= s_offset_pair.data
                       /\ s_offset_pair'.index >= s_offset_pair.index]_allVars

(* What a segment_read with SGM_RDCMT returns lies entirely below the sync *)
(* offset, even while writes and syncs go on.  Not so after a restart: a   *)
(* header or an index entry that the dead process had stored may be left   *)
(* behind the offsets recovered, header_init keeps the old size, and a     *)
(* sync follows reservations, so a reader that comes before the new stores *)
(* gets the old size of a frame that is being written again.               *)
CommittedBelowSync ==
  \A i \in DOMAIN frames :
    /\ RdCmt /\ i \in Entry /\ stops = 0
    /\ ~ EntryUnset(i, index[i]) /\ index[i] < Boundary
    /\ HeaderAt(buffer, index[i]).flags = "READY"
    => index[i] + HeaderAt(buffer, index[i]).size <= s_offset_pair.data
=============================================================================
