------------------------------- MODULE Segment -------------------------------
(***************************************************************************)
(* One open segment (segment.c) used by any number of threads: producers   *)
(* in segment_write, consumers in segment_read, threads in segment_sync.   *)
(* segment.h lists the three functions as thread safe; they share memory   *)
(* and take no lock, so every access of shared memory is a step of its     *)
(* own.                                                                    *)
(*                                                                         *)
(* Memory order.  The header's flags, the index and the two offset pairs   *)
(* are volatile, the header's size is not.  Compiled as the Makefile says, *)
(* segment_write stores size after flags (gcc -O3) or before it (source    *)
(* order) and always before the index entry; both orders are modelled.     *)
(* The calls of memcpy, header_init and crc32 keep their place, and stores *)
(* of one thread become visible in the order it makes them (x86).          *)
(***************************************************************************)
EXTENDS SegmentLayout

CONSTANTS
  Writers, Readers, Syncers,   \* the threads
  Size,                        \* size of the data file
  RdCmt,                       \* opened with SGM_RDCMT
  MaxWrites                    \* bound: number of segment_write calls

ASSUME ThreadAssumption ==
  /\ Writers \cap Readers = {}
  /\ Writers \cap Syncers = {}
  /\ Readers \cap Syncers = {}
(* segment_open refuses a size that is not a multiple of the page size. *)
ASSUME SizeAssumption == Size \in Nat /\ Size >= PageSize /\ Size % PageSize = 0
ASSUME FlagAssumption == RdCmt \in BOOLEAN
ASSUME BoundAssumption == MaxWrites \in Nat

Threads == Writers \cup Readers \cup Syncers

VARIABLES
  w_offset_pair,  \* [index, data]: the next free entry and byte
  s_offset_pair,  \* [index, data]: what has been synced
  index,          \* the index map: entry -> physical offset
  buffer,         \* the data map: offset -> header (see SegmentLayout)
  disk,           \* [index, buffer]: what msync has made durable; [torn]: history,
                  \* the entries that a sync passed while they were being written
  pc,             \* where each thread is
  wr,             \* locals and last result of the writers
  rd,             \* locals and last result of the readers
  sy,             \* locals and last result of the syncers
  calls,          \* number of segment_write calls so far
  fault,          \* a thread has touched memory outside the two maps
  frames          \* history: entry -> the frame its claim reserved

shared == <<w_offset_pair, s_offset_pair, index, buffer, disk>>
locals == <<wr, rd, sy>>
vars   == <<shared, pc, locals, calls, fault, frames>>

Pair  == [index : Nat, data : Nat]
Entry == 0 .. MappedEntries(Size) - 1

IdleWriter(rc) ==
  [buf |-> NoPayload, last |-> 0, curr |-> [index |-> 0, data |-> 0], todo |-> {}, rc |-> rc]

Init ==
  /\ w_offset_pair = [index |-> 0, data |-> 0]
  /\ s_offset_pair = [index |-> 0, data |-> 0]
  /\ index  = [i \in Entry |-> 0]
  /\ buffer = [x \in {} |-> ZeroHeader]
  /\ disk   = [index |-> index, buffer |-> buffer, torn |-> {}]
  /\ pc     = [t \in Threads |-> "idle"]
  /\ wr     = [t \in Writers |-> IdleWriter(0)]
  /\ rd     = [t \in Readers |-> [rel |-> 0, boundary |-> 0, phys |-> 0, rc |-> ELNORD]]
  /\ sy     = [t \in Syncers |-> [from |-> 0, to |-> 0, len |-> 0, rc |-> 0]]
  /\ calls  = 0
  /\ fault  = FALSE
  /\ frames = [i \in {} |-> [data |-> 0, payload |-> NoPayload]]

At(t, label)     == ~ fault /\ pc[t] = label
Goto(t, label)   == pc' = [pc EXCEPT ![t] = label]

(* A store of n bytes at `off' of the data map is inside it. *)
InData(off, n)   == off + n <= Size

-----------------------------------------------------------------------------
(* segment_write *)

WriteReturns(t, rc) ==
  /\ Goto(t, "idle")
  /\ wr' = [wr EXCEPT ![t] = IdleWriter(rc)]

segment_write(t, p) ==
  /\ At(t, "idle")
  /\ calls < MaxWrites
  /\ calls' = calls + 1
  /\ wr' = [wr EXCEPT ![t] = [IdleWriter(0) EXCEPT !.buf = p]]
  /\ Goto(t, "marked_eos")
  /\ UNCHANGED <<shared, rd, sy, fault, frames>>

(* marked_eos: the write offset is read first, the flags it leads to next. *)
(* Mutant of LastHeader: the header at the write offset. *)
MutantEosLookedUpAhead(w_offset) == w_offset

LastHeader(w_offset) == w_offset - HeaderSize

marked_eos(t) ==
  /\ At(t, "marked_eos")
  /\ IF w_offset_pair.data < HeaderSize
     THEN Goto(t, "curr") /\ UNCHANGED wr
     ELSE /\ wr' = [wr EXCEPT ![t].last = LastHeader(w_offset_pair.data)]
          /\ Goto(t, "eos_flags")
  /\ UNCHANGED <<shared, rd, sy, calls, fault, frames>>

CheckEosFlags(t) ==
  /\ At(t, "eos_flags")
  /\ IF HeaderAt(buffer, wr[t].last).flags = "EOS"
     THEN WriteReturns(t, ELEOS)
     ELSE Goto(t, "curr") /\ UNCHANGED wr
  /\ UNCHANGED <<shared, rd, sy, calls, fault, frames>>

ReadWriteOffset(t) ==
  /\ At(t, "curr")
  /\ wr' = [wr EXCEPT ![t].curr = w_offset_pair]
  /\ Goto(t, IF HasRoom(Size, w_offset_pair.data, wr[t].buf) THEN "claim" ELSE "mark_eos")
  /\ UNCHANGED <<shared, rd, sy, calls, fault, frames>>

(* Mutant of claim: a plain store instead of the compare-and-swap. *)
MutantClaimStores(t, new) == w_offset_pair' = new

(* claim: the compare-and-swap of the offset pair, both fields at once. *)
claim(t, new) ==
  /\ w_offset_pair = wr[t].curr
  /\ w_offset_pair' = new

ClaimLost(t) ==
  /\ pc[t] \in {"claim", "mark_eos"}
  /\ ~ fault
  /\ w_offset_pair # wr[t].curr
  /\ WriteReturns(t, ELLOCK)
  /\ UNCHANGED <<shared, rd, sy, calls, fault, frames>>

(* Mutant of Claimed: the claim moves the data offset only. *)
MutantClaimKeepsIndex(curr, p) == [curr EXCEPT !.data = @ + FrameSize(p)]

(* The offset pair behind the frame of `p' at `curr'. *)
Claimed(curr, p) == [index |-> curr.index + 1, data |-> curr.data + FrameSize(p)]

ClaimFrame(t) ==
  LET curr == wr[t].curr
      p    == wr[t].buf
  IN  /\ At(t, "claim")
      /\ claim(t, Claimed(curr, p))
      /\ frames' = [i \in DOMAIN frames \cup {curr.index} |->
                      IF i = curr.index THEN [data |-> curr.data, payload |-> p]
                      ELSE frames[i]]
      /\ Goto(t, "copy")
      /\ UNCHANGED <<s_offset_pair, index, buffer, disk, locals, calls, fault>>

(* An access outside the two maps is undefined; the model stops there. *)
Crashes == fault' = TRUE /\ UNCHANGED <<shared, pc, locals, calls, frames>>

CopyToBuffer(t) ==
  LET off == wr[t].curr.data
  IN  /\ At(t, "copy")
      /\ IF InData(off, FrameSize(wr[t].buf))
         THEN /\ buffer' = CopyPayload(buffer, off, wr[t].buf)
              /\ Goto(t, "header_init")
              /\ UNCHANGED <<w_offset_pair, s_offset_pair, index, disk, locals, calls, fault, frames>>
         ELSE Crashes

(* Mutant of HeaderFields: the store of HEADER_FLAGS_READY is forgotten. *)
MutantNeverReady == {"size"}

(* The fields of the header that are stored after header_init. *)
HeaderFields == {"size", "flags"}

InitHeader(t) ==
  /\ At(t, "header_init")
  /\ buffer' = header_init(buffer, wr[t].curr.data)
  /\ wr' = [wr EXCEPT ![t].todo = HeaderFields]
  /\ Goto(t, "header")
  /\ UNCHANGED <<w_offset_pair, s_offset_pair, index, disk, rd, sy, calls, fault, frames>>

(* The two stores that make the frame readable, in either order. *)
StoreHeaderField(t, field) ==
  LET off == wr[t].curr.data
  IN  /\ At(t, "header")
      /\ field \in wr[t].todo
      /\ buffer' = IF field = "size"
                   THEN StoreSize(buffer, off, FrameSize(wr[t].buf))
                   ELSE StoreFlags(buffer, off, "READY")
      /\ wr' = [wr EXCEPT ![t].todo = @ \ {field}]
      /\ Goto(t, IF wr[t].todo = {field} THEN "index" ELSE "header")
      /\ UNCHANGED <<w_offset_pair, s_offset_pair, index, disk, rd, sy, calls, fault, frames>>

StoreIndexEntry(t) ==
  LET i == wr[t].curr.index
  IN  /\ At(t, "index")
      /\ IF i \in Entry
         THEN /\ index' = [index EXCEPT ![i] = wr[t].curr.data]
              /\ WriteReturns(t, SizeOf[wr[t].buf])
              /\ UNCHANGED <<w_offset_pair, s_offset_pair, buffer, disk, rd, sy, calls, fault, frames>>
         ELSE Crashes

(* mark_eos claims a header without an index entry, then writes it. *)
mark_eos(t) ==
  LET curr == wr[t].curr
  IN  /\ At(t, "mark_eos")
      /\ claim(t, [index |-> curr.index, data |-> curr.data + HeaderSize])
      /\ Goto(t, "eos_header")
      /\ UNCHANGED <<s_offset_pair, index, buffer, disk, locals, calls, fault, frames>>

InitEosHeader(t) ==
  LET off == wr[t].curr.data
  IN  /\ At(t, "eos_header")
      /\ IF InData(off, HeaderSize)
         THEN /\ buffer' = StoreSize(header_init(buffer, off), off, HeaderSize)
              /\ Goto(t, "eos_mark")
              /\ UNCHANGED <<w_offset_pair, s_offset_pair, index, disk, locals, calls, fault, frames>>
         ELSE Crashes

StoreEosFlags(t) ==
  /\ At(t, "eos_mark")
  /\ buffer' = StoreFlags(buffer, wr[t].curr.data, "EOS")
  /\ WriteReturns(t, ELEOS)
  /\ UNCHANGED <<w_offset_pair, s_offset_pair, index, disk, rd, sy, calls, fault, frames>>

WriterStep(t) ==
  \/ marked_eos(t) \/ CheckEosFlags(t) \/ ReadWriteOffset(t)
  \/ ClaimLost(t) \/ ClaimFrame(t) \/ CopyToBuffer(t) \/ InitHeader(t)
  \/ \E field \in {"size", "flags"} : StoreHeaderField(t, field)
  \/ StoreIndexEntry(t)
  \/ mark_eos(t) \/ InitEosHeader(t) \/ StoreEosFlags(t)

-----------------------------------------------------------------------------
(* segment_read: each of its reads of shared memory is a step. *)

ReadReturns(t, rc) ==
  /\ Goto(t, "idle")
  /\ rd' = [rd EXCEPT ![t].rc = rc]

(* Mutant of Boundary: SGM_RDCMT is ignored. *)
MutantReadsUncommitted == w_offset_pair.data

(* What a consumer may see: everything, or what has been synced. *)
Boundary == IF RdCmt THEN s_offset_pair.data ELSE w_offset_pair.data

segment_read(t, rel) ==
  /\ At(t, "idle")
  /\ rd' = [rd EXCEPT ![t] =
       [rel |-> rel, phys |-> 0, rc |-> ELNORD, boundary |-> Boundary]]
  /\ Goto(t, "read_offset")
  /\ UNCHANGED <<shared, wr, sy, calls, fault, frames>>

CheckWriteIndex(t) ==
  /\ At(t, "read_offset")
  /\ IF rd[t].rel >= w_offset_pair.index
     THEN ReadReturns(t, ELNORD)
     ELSE Goto(t, "read_entry") /\ UNCHANGED rd
  /\ UNCHANGED <<shared, wr, sy, calls, fault, frames>>

(* Mutant of EntryUnset: an entry that is still zero is used. *)
MutantUsesZeroEntry(rel, phys) == FALSE

(* Only the first entry is zero once it is set. *)
EntryUnset(rel, phys) == rel # 0 /\ phys = 0

ReadIndexEntry(t) ==
  LET rel == rd[t].rel
  IN  /\ At(t, "read_entry")
      /\ IF rel \notin Entry
         THEN Crashes
         ELSE /\ IF EntryUnset(rel, index[rel]) \/ index[rel] >= rd[t].boundary
                 THEN ReadReturns(t, ELNORD)
                 ELSE /\ rd' = [rd EXCEPT ![t].phys = index[rel]]
                      /\ Goto(t, "read_flags")
              /\ UNCHANGED <<shared, wr, sy, calls, fault, frames>>

ReadFlags(t) ==
  LET flags == HeaderAt(buffer, rd[t].phys).flags
  IN  /\ At(t, "read_flags")
      /\ CASE flags = "READY" -> Goto(t, "read_size") /\ UNCHANGED rd
           [] flags = "EOS"   -> ReadReturns(t, ELEOS)
           [] OTHER           -> ReadReturns(t, ELINVHD)
      /\ UNCHANGED <<shared, wr, sy, calls, fault, frames>>

ReadSize(t) ==
  /\ At(t, "read_size")
  /\ ReadReturns(t, HeaderAt(buffer, rd[t].phys).size - HeaderSize)
  /\ UNCHANGED <<shared, wr, sy, calls, fault, frames>>

ReaderStep(t) ==
  CheckWriteIndex(t) \/ ReadIndexEntry(t) \/ ReadFlags(t) \/ ReadSize(t)

-----------------------------------------------------------------------------
(* segment_sync: sync_data, then sync_index.  msync may fail. *)

SyncReturns(t, rc) ==
  /\ Goto(t, "idle")
  /\ sy' = [sy EXCEPT ![t] = [from |-> 0, to |-> 0, len |-> 0, rc |-> rc]]

(* msync of `len' bytes at the page boundary below `from', external: it    *)
(* rounds len up to whole pages in unsigned arithmetic, so a length that   *)
(* wrapped around by less than a page syncs nothing and succeeds, and one  *)
(* that wrapped around further fails.                                      *)
MsyncEnd(from, len) == page_aligned_addr(from) + PageCeil(len)
MsyncAccepts(len)   == PageCeil(len) >= 0

(* What the bytes [from, to) of `mem' hold replaces what `old' has. *)
Flushed(old, mem, from, to) ==
  LET synced(x) == from <= x /\ x < to
  IN  [x \in {y \in DOMAIN old : ~ synced(y)} \cup {y \in DOMAIN mem : synced(y)} |->
         IF synced(x) THEN mem[x] ELSE old[x]]

(* The entries reserved by a segment_write that has not finished them. *)
InFlight == {wr[t].curr.index : t \in
               {u \in Writers : pc[u] \in {"copy", "header_init", "header", "index"}}}

segment_sync(t) ==
  /\ At(t, "idle")
  /\ sy' = [sy EXCEPT ![t] = [from |-> s_offset_pair.data, to |-> 0, len |-> 0, rc |-> 0]]
  /\ Goto(t, "sync_data")
  /\ UNCHANGED <<shared, wr, rd, calls, fault, frames>>

SyncDataReadEnd(t) ==
  /\ At(t, "sync_data")
  /\ sy' = [sy EXCEPT ![t].to = w_offset_pair.data]
  /\ Goto(t, "sync_data_len")
  /\ UNCHANGED <<shared, wr, rd, calls, fault, frames>>

(* The length comes from a second read of s_offset_pair, which another     *)
(* syncing thread may have moved, even past `to'.                          *)
SyncDataLength(t) ==
  LET from == sy[t].from
  IN  /\ At(t, "sync_data_len")
      /\ sy' = [sy EXCEPT ![t].len =
                  (sy[t].to - s_offset_pair.data) + (from - page_aligned_addr(from))]
      /\ Goto(t, "msync_data")
      /\ UNCHANGED <<shared, wr, rd, calls, fault, frames>>

MsyncData(t) ==
  LET from == sy[t].from
      len  == sy[t].len
  IN  /\ At(t, "msync_data")
      /\ \/ /\ MsyncAccepts(len)
            /\ disk' = [disk EXCEPT
                 !.buffer = Flushed(@, buffer, page_aligned_addr(from), MsyncEnd(from, len)),
                 !.torn   = @ \cup {i \in InFlight : frames[i].data < sy[t].to}]
            /\ Goto(t, "synced_data")
            /\ UNCHANGED sy
         \/ SyncReturns(t, ELDTSYN) /\ UNCHANGED disk
      /\ UNCHANGED <<w_offset_pair, s_offset_pair, index, buffer, wr, rd, calls, fault, frames>>

(* Mutant of SyncedUpTo: the write offset is read again after msync. *)
MutantLateSyncOffset(t) == w_offset_pair.data

(* Mutant of SyncedUpTo: the length of what was synced is stored. *)
MutantSyncedLength(t) == sy[t].len

(* The new sync offset is the end that was read before msync. *)
SyncedUpTo(t) == sy[t].to

(* segment_sync goes on to the index only if sync_data's result, the       *)
(* length it passed to msync, is positive.                                 *)
StoreSyncedData(t) ==
  /\ At(t, "synced_data")
  /\ s_offset_pair' = [s_offset_pair EXCEPT !.data = SyncedUpTo(t)]
  /\ IF sy[t].len <= 0
     THEN SyncReturns(t, sy[t].len)
     ELSE Goto(t, "sync_index") /\ UNCHANGED sy
  /\ UNCHANGED <<w_offset_pair, index, buffer, disk, wr, rd, calls, fault, frames>>

SyncIndexReadStart(t) ==
  /\ At(t, "sync_index")
  /\ sy' = [sy EXCEPT ![t].from = s_offset_pair.index]
  /\ Goto(t, "sync_index_end")
  /\ UNCHANGED <<shared, wr, rd, calls, fault, frames>>

SyncIndexReadEnd(t) ==
  /\ At(t, "sync_index_end")
  /\ sy' = [sy EXCEPT ![t].to = w_offset_pair.index]
  /\ Goto(t, "sync_index_len")
  /\ UNCHANGED <<shared, wr, rd, calls, fault, frames>>

SyncIndexLength(t) ==
  /\ At(t, "sync_index_len")
  /\ sy' = [sy EXCEPT ![t].len = sy[t].to - s_offset_pair.index]
  /\ Goto(t, "msync_index")
  /\ UNCHANGED <<shared, wr, rd, calls, fault, frames>>

(* Mutant of EntryBytes: the number of entries is taken for their size. *)
MutantCountsEntries(n) == n

EntryBytes(n) == n * EntrySize

(* Only whole entries inside the index file reach the disk. *)
MsyncIndex(t) ==
  LET from == sy[t].from * EntrySize
      len  == EntryBytes(sy[t].len) + (from - page_aligned_addr(from))
      pages(i) == /\ i < max_index_entries(Size)
                  /\ page_aligned_addr(from) <= i * EntrySize
                  /\ i * EntrySize < MsyncEnd(from, len)
  IN  /\ At(t, "msync_index")
      /\ \/ /\ MsyncAccepts(len)
            /\ disk' = [disk EXCEPT
                 !.index = [i \in Entry |-> IF pages(i) THEN index[i] ELSE @[i]],
                 !.torn  = @ \cup {i \in InFlight : i < sy[t].to}]
            /\ Goto(t, "synced_index")
            /\ UNCHANGED sy
         \/ SyncReturns(t, ELDTSYN) /\ UNCHANGED disk
      /\ UNCHANGED <<w_offset_pair, s_offset_pair, index, buffer, wr, rd, calls, fault, frames>>

StoreSyncedIndex(t) ==
  /\ At(t, "synced_index")
  /\ s_offset_pair' = [s_offset_pair EXCEPT !.index = SyncedUpTo(t)]
  /\ SyncReturns(t, sy[t].len)
  /\ UNCHANGED <<w_offset_pair, index, buffer, disk, wr, rd, calls, fault, frames>>

SyncerStep(t) ==
  \/ SyncDataReadEnd(t) \/ SyncDataLength(t) \/ MsyncData(t) \/ StoreSyncedData(t)
  \/ SyncIndexReadStart(t) \/ SyncIndexReadEnd(t) \/ SyncIndexLength(t)
  \/ MsyncIndex(t) \/ StoreSyncedIndex(t)

-----------------------------------------------------------------------------
Next ==
  \/ \E t \in Writers : WriterStep(t) \/ \E p \in Payloads : segment_write(t, p)
  \/ \E t \in Readers : ReaderStep(t) \/ \E rel \in 0 .. MaxWrites - 1 : segment_read(t, rel)
  \/ \E t \in Syncers : SyncerStep(t) \/ segment_sync(t)

Spec == Init /\ [][Next]_vars

(* A thread inside a call is eventually scheduled; nobody is obliged to    *)
(* make another call.                                                      *)
Fairness == /\ \A t \in Writers : WF_vars(WriterStep(t))
            /\ \A t \in Readers : WF_vars(ReaderStep(t))
            /\ \A t \in Syncers : WF_vars(SyncerStep(t))
FairSpec == Spec /\ Fairness

-----------------------------------------------------------------------------
(* Properties *)

WriterLabels == {"idle", "marked_eos", "eos_flags", "curr", "claim", "copy", "header_init",
                 "header", "index", "mark_eos", "eos_header", "eos_mark"}
ReaderLabels == {"idle", "read_offset", "read_entry", "read_flags", "read_size"}
SyncerLabels == {"idle", "sync_data", "sync_data_len", "msync_data", "synced_data",
                 "sync_index", "sync_index_end", "sync_index_len", "msync_index", "synced_index"}

(* Every variable has its type; in particular the offsets computed by      *)
(* segment_write, segment_read and segment_sync stay natural numbers, and  *)
(* every entry below the write index belongs to one claimed frame.         *)
WriterState == [buf : Payloads \cup {NoPayload}, last : Nat, curr : Pair,
                todo : SUBSET {"size", "flags"}, rc : Int]
ReaderState == [rel : Nat, boundary : Nat, phys : Nat, rc : Int]
SyncerState == [from : Nat, to : Nat, len : Int, rc : Int]

OffsetsTypeOK == w_offset_pair \in Pair /\ s_offset_pair \in Pair
MapsTypeOK    == index \in [Entry -> Nat] /\ IsBuffer(buffer)
DiskTypeOK    == /\ DOMAIN disk = {"index", "buffer", "torn"}
                 /\ disk.index \in [Entry -> Nat]
                 /\ disk.torn \subseteq Nat
ThreadsTypeOK == /\ pc \in [Threads -> WriterLabels \cup ReaderLabels \cup SyncerLabels]
                 /\ wr \in [Writers -> WriterState]
                 /\ rd \in [Readers -> ReaderState]
                 /\ sy \in [Syncers -> SyncerState]
                 /\ \A t \in Writers : pc[t] # "idle" => wr[t].buf \in Payloads
CallsTypeOK   == calls \in 0 .. MaxWrites
FaultTypeOK   == fault \in BOOLEAN
FramesTypeOK  == /\ DOMAIN frames = 0 .. w_offset_pair.index - 1
                 /\ \A i \in DOMAIN frames : frames[i] \in [data : Nat, payload : Payloads]

TypeOK == /\ OffsetsTypeOK /\ MapsTypeOK /\ DiskTypeOK
          /\ ThreadsTypeOK /\ CallsTypeOK /\ FaultTypeOK /\ FramesTypeOK

FrameEnd(i) == frames[i].data + FrameSize(frames[i].payload)

(* Whatever the interleaving of the producers' compare-and-swaps, the      *)
(* frames they reserve follow one another in index order, never overlap    *)
(* and lie below the write offset.                                         *)
FramesDisjoint ==
  \A i \in DOMAIN frames :
    /\ FrameEnd(i) <= w_offset_pair.data
    /\ \A j \in DOMAIN frames : i < j => FrameEnd(i) <= frames[j].data

(* A successful segment_read returned the size of the payload that was     *)
(* written at that offset and a pointer to that very payload, which is     *)
(* still there: a consumer never gets a torn, partial or foreign frame.    *)
ReadCorrect ==
  \A t \in Readers :
    LET i == rd[t].rel
    IN  rd[t].rc >= 0 =>
          /\ i \in DOMAIN frames
          /\ rd[t].phys = frames[i].data
          /\ rd[t].rc = SizeOf[frames[i].payload]
          /\ HeaderAt(buffer, rd[t].phys).payload = frames[i].payload

(* The offsets a segment_read that starts now would succeed on. *)
Readable(i) ==
  /\ i \in DOMAIN frames
  /\ i \in Entry
  /\ i # 0 => index[i] # 0
  /\ HeaderAt(buffer, index[i]).flags = "READY"
  /\ HeaderAt(buffer, index[i]).size # 0

(* The segment is an immutable log: offsets are given out one by one, and  *)
(* once an offset is readable it stays readable with the same payload.     *)
Log == INSTANCE OffsetLog WITH
         next    <- w_offset_pair.index,
         entries <- [i \in DOMAIN frames |-> frames[i].payload],
         visible <- {i \in DOMAIN frames : Readable(i)}
ImplementsLog == Log!Spec

(* A frame that a producer has reserved becomes readable: no interleaving  *)
(* of producers leaves a hole at which a consumer waits for ever.          *)
FramesBecomeReadable ==
  \A i \in 0 .. MaxWrites - 1 : i < w_offset_pair.index ~> Readable(i)

(* The data just below the write offset is an EOS header, or is about to   *)
(* become one: mark_eos has reserved it.                                   *)
EosReserved ==
  \/ HeaderAt(buffer, w_offset_pair.data - HeaderSize).flags = "EOS"
  \/ \E t \in Writers : /\ pc[t] \in {"eos_header", "eos_mark"}
                        /\ wr[t].curr.data + HeaderSize = w_offset_pair.data

(* "Make sure there's always available space to include and End Of Segment *)
(* (EOS) frame" (segment_write): either an EOS header still fits behind    *)
(* what has been reserved, or it is what was reserved last and it fits.    *)
SpaceForEos ==
  \/ w_offset_pair.data + HeaderSize <= Size
  \/ w_offset_pair.data <= Size /\ EosReserved

(* With one syncing thread, what segment_sync has passed is on disk, byte  *)
(* for byte and entry for entry, whatever is written meanwhile and however *)
(* often msync fails: except the frames that were being written at the     *)
(* time, and the entries that do not fit in the index file.                *)
SyncedIsDurable ==
  \A i \in DOMAIN frames \ disk.torn :
    /\ FrameEnd(i) <= s_offset_pair.data =>
         HeaderAt(disk.buffer, frames[i].data) = HeaderAt(buffer, frames[i].data)
    /\ i < s_offset_pair.index /\ i < max_index_entries(Size) =>
         disk.index[i] = index[i]

(* With SGM_RDCMT a frame returned by segment_read is on disk: its header  *)
(* is complete there and holds the payload.                                *)
CommittedIsDurable ==
  RdCmt => \A t \in Readers :
             rd[t].rc >= 0 =>
               HeaderAt(disk.buffer, rd[t].phys) = HeaderAt(buffer, rd[t].phys)
=============================================================================
