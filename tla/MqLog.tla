-------------------------------- MODULE MqLog --------------------------------
(***************************************************************************)
(* The log (mqlog.c): a directory of segments, the tree that indexes the   *)
(* open ones by base offset, and a mutex.  Producers run mqlog_write,      *)
(* consumers mqlog_read, other threads mqlog_sync; the process may close   *)
(* the log or die at any point, or the machine crash, and open it again.   *)
(*                                                                         *)
(* mqlog_write holds the mutex while it writes, so a segment has one       *)
(* writer and segment_write is one step here; module Segment has the       *)
(* interleavings inside it.  The tree is the sequence of its elements,     *)
(* which is what module Mbptree shows it to hold; since mqlog_sync reads   *)
(* it without a lock, an append shows up as the two stores that the build  *)
(* makes of it, the size first and the value last.                         *)
(***************************************************************************)
EXTENDS SegmentLayout, Sequences, SequencesExt

CONSTANTS
  Writers, Readers, Syncers,   \* the threads
  NoThread,                    \* the mutex is free
  Size,                        \* size of a segment
  RdCmt,                       \* opened with MQLOG_RDCMT
  Failing,                     \* the calls that may fail: "open", "append", "floor"
  MaxWrites,                   \* bound: number of mqlog_write calls that get the mutex
  MaxStops                     \* bound: number of times the log stops (close or crash)

Threads == Writers \cup Readers \cup Syncers

ASSUME LogAssumption ==
  /\ Writers \cap Readers = {} /\ Writers \cap Syncers = {} /\ Readers \cap Syncers = {}
  /\ NoThread \notin Threads
  /\ Size \in Nat /\ Size >= PageSize /\ Size % PageSize = 0
  /\ RdCmt \in BOOLEAN
  /\ Failing \subseteq {"open", "append", "floor"}
  /\ MaxWrites \in Nat /\ MaxStops \in Nat

VARIABLES
  files,    \* base offset -> [sized, buffer, index]: the segments' two files
  disk,     \* base offset -> what msync has made durable of them
  sgms,     \* base offset -> [w, s, from]: the segments in the tree
  tree,     \* sequence of [key, sgm]; sgm is NULL until the value is stored
  lock,     \* the thread that holds the mutex, or NoThread
  pc, loc,  \* where each thread is, and its locals and last result
  phase,    \* "open", "stopped" or "failed" (the last mqlog_open failed)
  order,    \* the bases in the order the last readdir loop met them
  fault,    \* a thread has touched memory outside the maps, or followed NULL
  written,  \* history: <<offset, payload>> of every frame written
  acked,    \* history: <<offset, payload>> of every successful mqlog_write since a MachineCrash
  synced,   \* history: those that mqlog_sync or mqlog_close has synced
  crashed,  \* history: the machine has crashed
  torn,     \* history: and that has left files of a segment that are not Tidy
  reused,   \* history: and the log was opened and stopped once more after that
  writes, stops   \* the number of calls and stops so far

held  == <<files, disk, sgms, tree>>
life  == <<phase, order, stops, crashed, torn, reused>>
vars  == <<held, lock, pc, loc, life, fault, written, acked, synced, writes>>

NULL  == -1
Entry == 0 .. MappedEntries(Size) - 1

Unsized  == [sized |-> FALSE, buffer |-> [x \in {} |-> ZeroHeader], index |-> [i \in Entry |-> 0]]

(* `from' is history: the entry where writing resumed. *)
Opened(pair) == [w |-> pair, s |-> pair, from |-> pair.index]
NoSegment    == Opened([index |-> 0, data |-> 0])

(* `sgm' is the base of the segment in use, `new' the segment_t of one     *)
(* that create_segment has made and the tree does not have yet.            *)
Idle(rc) == [buf |-> NoPayload, off |-> 0, sgm |-> 0, fresh |-> FALSE, new |-> NoSegment, rc |-> rc]

Init ==
  /\ files = [b \in {} |-> Unsized]
  /\ disk  = files
  /\ sgms  = [b \in {} |-> NoSegment]
  /\ tree  = <<>>
  /\ lock  = NoThread
  /\ pc    = [t \in Threads |-> "idle"]
  /\ loc   = [t \in Threads |-> Idle(0)]
  /\ phase = "open" /\ order = <<>> /\ stops = 0 /\ crashed = FALSE
  /\ torn = FALSE /\ reused = FALSE
  /\ fault = FALSE
  /\ written = {} /\ acked = {} /\ synced = {} /\ writes = 0

At(t, label)   == ~ fault /\ phase = "open" /\ pc[t] = label
Goto(t, label) == pc' = [pc EXCEPT ![t] = label]

With(f, x, v)  == [y \in DOMAIN f \cup {x} |-> IF y = x THEN v ELSE f[y]]

Crashes == fault' = TRUE /\ UNCHANGED <<held, lock, pc, loc, life, written, acked, synced, writes>>

-----------------------------------------------------------------------------
(* The segment operations mqlog calls, each on one file and one pair. *)

EosAt(f, w) == w.data >= HeaderSize /\ HeaderAt(f.buffer, w.data - HeaderSize).flags = "EOS"

EosHeader == [flags |-> "EOS", size |-> HeaderSize, payload |-> NoPayload]

(* segment_write by the only writer: the new file, the new pair, and the   *)
(* result.                                                                 *)
SegmentWrite(f, w, p) ==
  IF EosAt(f, w)
  THEN [file |-> f, w |-> w, rc |-> ELEOS]
  ELSE IF ~ HasRoom(Size, w.data, p)
  THEN [file |-> [f EXCEPT !.buffer = StoreHeader(@, w.data, EosHeader)],
        w    |-> [w EXCEPT !.data = @ + HeaderSize],
        rc   |-> ELEOS]
  ELSE [file |-> [f EXCEPT
          !.buffer = StoreHeader(CopyPayload(@, w.data, p), w.data,
                       [flags |-> "READY", size |-> FrameSize(p), payload |-> p]),
          !.index  = With(@, w.index, w.data)],
        w    |-> [index |-> w.index + 1, data |-> w.data + FrameSize(p)],
        rc   |-> SizeOf[p]]

(* segment_read: the result, and the payload when there is one. *)
SegmentRead(f, sgm, rel) ==
  LET boundary == IF RdCmt THEN sgm.s.data ELSE sgm.w.data
      none(rc) == [rc |-> rc, payload |-> NoPayload]
      phys == f.index[rel]
      hdr  == HeaderAt(f.buffer, phys)
  IN  CASE rel >= sgm.w.index -> none(ELNORD)
        [] rel < sgm.w.index /\ ((rel # 0 /\ phys = 0) \/ phys >= boundary) -> none(ELNORD)
        [] OTHER -> CASE hdr.flags = "READY" ->
                           [rc |-> hdr.size - HeaderSize, payload |-> hdr.payload]
                      [] hdr.flags = "EOS"   -> none(ELEOS)
                      [] OTHER               -> none(ELINVHD)

(* Mutant of segment_write_offset: the offset after the next one. *)
MutantNextButOne(b, sgm) == b + sgm.w.index + 1

segment_write_offset(b, sgm) == b + sgm.w.index

(* Mutant of SegmentSynced: the index is not synced. *)
MutantDataOnly(d, f, sgm) ==
  [sized  |-> TRUE,
   buffer |-> [x \in DOMAIN f.buffer |->
                 IF x >= page_aligned_addr(sgm.s.data) THEN f.buffer[x] ELSE HeaderAt(d.buffer, x)],
   index  |-> d.index]

(* What segment_sync leaves on disk: the pages from the sync offsets on,   *)
(* without what lies behind the end of the index file.                     *)
SegmentSynced(d, f, sgm) ==
  [sized  |-> TRUE,
   buffer |-> [x \in DOMAIN f.buffer |->
                 IF x >= page_aligned_addr(sgm.s.data) THEN f.buffer[x] ELSE HeaderAt(d.buffer, x)],
   index  |-> [i \in Entry |->
                 IF /\ i * EntrySize >= page_aligned_addr(sgm.s.index * EntrySize)
                    /\ i < max_index_entries(Size)
                 THEN f.index[i] ELSE d.index[i]]]

(* mbptree_leaf_floor: the place of the greatest key up to `key'. *)
Floor(tr, key) == {i \in DOMAIN tr : /\ tr[i].key <= key
                                     /\ \A j \in DOMAIN tr : tr[j].key <= key => j <= i}

-----------------------------------------------------------------------------
(* mqlog_write *)

(* Mutant of Busy: the result of pthread_mutex_trylock is not looked at. *)
MutantNeverBusy == FALSE

Busy == lock # NoThread

(* A thread without the mutex returns at once, with ELLOCK; so does an     *)
(* empty write, with 0.  What mqlog_write returns is in `rc' until the     *)
(* mutex is unlocked; after that only the caller has it.                   *)
mqlog_write(t, p) ==
  /\ At(t, "idle")
  /\ writes < MaxWrites
  /\ IF SizeOf[p] = 0 \/ Busy
     THEN UNCHANGED <<lock, pc, loc, writes>>
     ELSE /\ lock' = t
          /\ writes' = writes + 1
          /\ loc' = [loc EXCEPT ![t] = [Idle(0) EXCEPT !.buf = p]]
          /\ Goto(t, "last_value")
  /\ UNCHANGED <<held, life, fault, written, acked, synced>>

(* The end of mqlog_trywrite, with its result. *)
TryWriteReturns(t, rc) ==
  /\ loc' = [loc EXCEPT ![t].rc = rc]
  /\ Goto(t, "unlock")

LastValue(t) ==
  /\ At(t, "last_value")
  /\ loc' = [loc EXCEPT ![t].sgm   = IF tree = <<>> THEN 0 ELSE Last(tree).sgm,
                        ![t].fresh = tree = <<>>]
  /\ Goto(t, IF tree = <<>> THEN "create_segment" ELSE "segment_write")
  /\ UNCHANGED <<held, lock, life, fault, written, acked, synced, writes>>

(* create_segment, up to the open that creates the files.  segment_open    *)
(* may fail, before or after that; files it has created stay.              *)
create_segment(t) ==
  LET b       == loc[t].sgm
      created == IF b \in DOMAIN files THEN files ELSE With(files, b, Unsized)
  IN  /\ At(t, "create_segment")
      /\ \/ files' = created /\ Goto(t, "segment_open") /\ UNCHANGED loc
         \/ /\ "open" \in Failing
            /\ files' \in {files, created}
            /\ TryWriteReturns(t, ELFLEOP)
      /\ disk' = [c \in DOMAIN files' |-> IF c \in DOMAIN disk THEN disk[c] ELSE Unsized]
      /\ UNCHANGED <<sgms, tree, lock, life, fault, written, acked, synced, writes>>

(* The rest of segment_open: the files get their size, the maps are made   *)
(* (which may fail), and writing resumes where the index says.             *)
segment_open(t) ==
  LET b     == loc[t].sgm
      found == find_w_offset_pair(files[b].buffer, files[b].index, Size)
  IN  /\ At(t, "segment_open")
      /\ files' = [files EXCEPT ![b].sized = TRUE]
      /\ \/ found.rc # 0 /\ TryWriteReturns(t, found.rc)
         \/ "open" \in Failing /\ TryWriteReturns(t, ELMADV)
         \/ /\ found.rc = 0
            /\ loc' = [loc EXCEPT ![t].new = Opened(found.pair)]
            /\ Goto(t, "segment_write")
      /\ UNCHANGED <<disk, sgms, tree, lock, life, fault, written, acked, synced, writes>>

(* One of the two calls of segment_write.  At the end of a segment that    *)
(* was already indexed a new one is created; a new segment that is at its  *)
(* end right away is closed again.                                         *)
segment_write(t) ==
  LET b     == loc[t].sgm
      p     == loc[t].buf
      fresh == loc[t].fresh
      sgm   == IF fresh THEN loc[t].new ELSE sgms[b]
      next  == segment_write_offset(b, sgm)
      res   == SegmentWrite(files[b], sgm.w, p)
  IN  /\ At(t, "segment_write")
      /\ IF res.rc # ELEOS /\ sgm.w.index \notin Entry
         THEN Crashes
         ELSE /\ files' = [files EXCEPT ![b] = res.file]
              /\ sgms' = IF fresh THEN sgms ELSE [sgms EXCEPT ![b].w = res.w]
              /\ \/ /\ res.rc # ELEOS
                    /\ loc' = [loc EXCEPT ![t].off = next, ![t].rc = res.rc,
                                          ![t].new = IF fresh THEN [@ EXCEPT !.w = res.w] ELSE @]
                    /\ written' = written \cup {<<next, p>>}
                    /\ Goto(t, IF fresh THEN "mbptree_append" ELSE "unlock")
                    /\ UNCHANGED disk
                 \/ /\ res.rc = ELEOS /\ ~ fresh
                    /\ loc' = [loc EXCEPT ![t].sgm = next, ![t].fresh = TRUE]
                    /\ Goto(t, "create_segment")
                    /\ UNCHANGED <<disk, written>>
                 \/ /\ res.rc = ELEOS /\ fresh
                    /\ TryWriteReturns(t, ELNOWCP)
                    /\ disk' = [disk EXCEPT ![b] = SegmentSynced(@, res.file, sgm)]
                    /\ UNCHANGED written
              /\ UNCHANGED <<tree, lock, life, fault, acked, synced, writes>>

(* mbptree_append of a segment's base offset: refused, with the segment    *)
(* closed, or done with the value still to come.                           *)
Monotonic(b) == IF tree = <<>> THEN TRUE ELSE b > Last(tree).key

AppendRefused(t) ==
  /\ At(t, "mbptree_append")
  /\ ~ Monotonic(loc[t].sgm) \/ "append" \in Failing
  /\ TryWriteReturns(t, ELIDXOP)
  /\ disk' = [disk EXCEPT ![loc[t].sgm] = SegmentSynced(@, files[loc[t].sgm], loc[t].new)]
  /\ UNCHANGED <<files, sgms, tree, lock, life, fault, written, acked, synced, writes>>

mbptree_append(t) ==
  /\ At(t, "mbptree_append")
  /\ Monotonic(loc[t].sgm)
  /\ tree' = Append(tree, [key |-> loc[t].sgm, sgm |-> NULL])
  /\ Goto(t, "store_value")
  /\ UNCHANGED <<files, disk, sgms, lock, loc, life, fault, written, acked, synced, writes>>

(* Mutant of NewSlot: the value goes to the first slot. *)
MutantFirstSlot == 1

NewSlot == Len(tree)

StoreValue(t) ==
  /\ At(t, "store_value")
  /\ tree' = [tree EXCEPT ![NewSlot].sgm = loc[t].sgm]
  /\ sgms' = With(sgms, loc[t].sgm, loc[t].new)
  /\ Goto(t, "unlock")
  /\ UNCHANGED <<files, disk, lock, loc, life, fault, written, acked, synced, writes>>

WriteUnlock(t) ==
  /\ At(t, "unlock")
  /\ lock' = NoThread
  /\ acked' = IF loc[t].rc > 0 THEN acked \cup {<<loc[t].off, loc[t].buf>>} ELSE acked
  /\ loc' = [loc EXCEPT ![t] = Idle(0)]
  /\ Goto(t, "idle")
  /\ UNCHANGED <<held, life, fault, written, synced, writes>>

WriterStep(t) ==
  \/ LastValue(t) \/ create_segment(t) \/ segment_open(t) \/ segment_write(t)
  \/ AppendRefused(t) \/ mbptree_append(t) \/ StoreValue(t) \/ WriteUnlock(t)

-----------------------------------------------------------------------------
(* mqlog_read *)

ReadReturns(t, rc, p) ==
  /\ loc' = [loc EXCEPT ![t] = [Idle(rc) EXCEPT !.off = IF rc > 0 THEN loc[t].off ELSE 0, !.buf = p]]
  /\ Goto(t, "idle")

mqlog_read(t, off) ==
  /\ At(t, "idle")
  /\ IF Busy
     THEN loc' = [loc EXCEPT ![t] = Idle(ELLOCK)] /\ UNCHANGED <<lock, pc>>
     ELSE /\ lock' = t
          /\ loc' = [loc EXCEPT ![t] = [Idle(0) EXCEPT !.off = off]]
          /\ Goto(t, "leaf_floor")
  /\ UNCHANGED <<held, life, fault, written, acked, synced, writes>>

(* Mutant of NothingFound: the mutex is not unlocked. *)
MutantKeepsMutex(t) == UNCHANGED lock /\ ReadReturns(t, ELNORD, NoPayload)

NothingFound(t) == lock' = NoThread /\ ReadReturns(t, ELNORD, NoPayload)

(* The segment is looked up under the mutex and read without it.  When the *)
(* lookup itself fails the mutex stays locked.                             *)
leaf_floor(t) ==
  LET at == Floor(tree, loc[t].off)
  IN  /\ At(t, "leaf_floor")
      /\ \/ /\ at # {}
            /\ lock' = NoThread
            /\ loc' = [loc EXCEPT ![t].sgm = tree[Max(at)].sgm]
            /\ Goto(t, "segment_read")
         \/ at = {} /\ NothingFound(t)
         \/ /\ "floor" \in Failing
            /\ ReadReturns(t, ELALLC, NoPayload)
            /\ UNCHANGED lock
      /\ UNCHANGED <<held, life, fault, written, acked, synced, writes>>

(* Mutant of relative_offset: the offset stays absolute. *)
MutantAbsoluteOffset(off, b) == off

relative_offset(off, b) == off - b

segment_read(t) ==
  LET b   == loc[t].sgm
      res == SegmentRead(files[b], sgms[b], relative_offset(loc[t].off, b))
  IN  /\ At(t, "segment_read")
      /\ ReadReturns(t, res.rc, res.payload)
      /\ UNCHANGED <<held, lock, life, fault, written, acked, synced, writes>>

ReaderStep(t) == leaf_floor(t) \/ segment_read(t)

-----------------------------------------------------------------------------
(* The frames of the segment at `b' that a sync of it promises to keep:    *)
(* none if writing resumed behind frames that may not be on disk.          *)
SyncedIn(b) == {a \in acked : sgms[b].from = 0 /\ a[1] \in b .. b + sgms[b].w.index - 1}

(* mqlog_sync: no mutex, and only the last segment.  segment_sync is one   *)
(* step here and succeeds; module Segment has its steps and failures.      *)

mqlog_sync(t) ==
  /\ At(t, "idle")
  /\ loc' = [loc EXCEPT ![t] = [Idle(0) EXCEPT !.off = Len(tree)]]
  /\ Goto(t, IF tree = <<>> THEN "idle" ELSE "segment_sync")
  /\ UNCHANGED <<held, lock, life, fault, written, acked, synced, writes>>

segment_sync(t) ==
  LET b == tree[loc[t].off].sgm
  IN  /\ At(t, "segment_sync")
      /\ IF b = NULL
         THEN Crashes
         ELSE /\ sgms' = [sgms EXCEPT ![b].s = sgms[b].w]
              /\ disk' = [disk EXCEPT ![b] = SegmentSynced(@, files[b], sgms[b])]
              /\ synced' = synced \cup SyncedIn(b)
              /\ loc' = [loc EXCEPT ![t] = Idle(0)]
              /\ Goto(t, "idle")
              /\ UNCHANGED <<files, tree, lock, life, fault, written, acked, writes>>

-----------------------------------------------------------------------------
(* Stopping and starting.  The maps are shared, so what was stored in them *)
(* is still in the files when the process is gone; everything else is not. *)

Stop ==
  /\ ~ fault /\ phase = "open" /\ stops < MaxStops
  /\ phase' = "stopped" /\ stops' = stops + 1
  /\ sgms' = [b \in {} |-> NoSegment] /\ tree' = <<>> /\ lock' = NoThread
  /\ pc'  = [t \in Threads |-> "idle"]
  /\ loc' = [t \in Threads |-> Idle(0)]
  /\ reused' = (reused \/ torn)
  /\ UNCHANGED <<order, fault, written, writes>>

(* segment_close syncs every segment of the index. *)
mqlog_close ==
  /\ \A t \in Threads : pc[t] = "idle"
  /\ Stop
  /\ disk' = [b \in DOMAIN disk |->
                IF b \in DOMAIN sgms THEN SegmentSynced(disk[b], files[b], sgms[b]) ELSE disk[b]]
  /\ synced' = synced \cup UNION {SyncedIn(b) : b \in DOMAIN sgms}
  /\ UNCHANGED <<files, crashed, torn, acked>>

Crash ==
  /\ \E t \in Threads : pc[t] # "idle"
  /\ Stop
  /\ UNCHANGED <<files, disk, crashed, torn, acked, synced>>

(* A segment's entries in use are the first ones, each of them leads to a  *)
(* frame, and no frame is without its entry.                               *)
Tidy(f) ==
  LET ready(x) == HeaderAt(f.buffer, x).flags = "READY"
  IN  /\ \A i \in Entry : f.index[i] # 0 =>
           i > 0 /\ ready(0) /\ ready(f.index[i]) /\ (i > 1 => f.index[i - 1] # 0)
      /\ \A x \in DOMAIN f.buffer : ready(x) => \E i \in Entry : f.index[i] = x

(* A crash of the machine: the files of each segment have what was synced, *)
(* or everything if the kernel got to write it; they may be missing if     *)
(* they were never synced.  Module SegmentRestart has single pages.  The   *)
(* directory entry is taken to be durable with the file.                   *)
MachineCrash ==
  /\ Stop
  /\ \E gone \in SUBSET {b \in DOMAIN disk : disk[b] = Unsized} :
       \E whole \in SUBSET (DOMAIN files \ gone) :
         files' = [b \in DOMAIN files \ gone |-> IF b \in whole THEN files[b] ELSE disk[b]]
  /\ disk' = files'
  /\ crashed' = TRUE
  /\ torn' = (torn \/ \E b \in DOMAIN files' : ~ Tidy(files'[b]))
  /\ acked' = {}
  /\ UNCHANGED synced

(* load_segments: the directory is read in no particular order, and one    *)
(* segment that cannot be opened or indexed fails the whole of mqlog_open. *)
Loads(ord) ==
  /\ \A i \in DOMAIN ord : LET f == files[ord[i]]
                           IN  f.sized /\ find_w_offset_pair(f.buffer, f.index, Size).rc = 0
  /\ \A i \in 2 .. Len(ord) : ord[i - 1] < ord[i]

mqlog_open(ord) ==
  /\ phase \in {"stopped", "failed"}
  /\ order' = ord
  /\ IF Loads(ord)
     THEN /\ phase' = "open"
          /\ tree' = [i \in DOMAIN ord |-> [key |-> ord[i], sgm |-> ord[i]]]
          /\ sgms' = [b \in DOMAIN files |->
                        Opened(find_w_offset_pair(files[b].buffer, files[b].index, Size).pair)]
     ELSE phase' = "failed" /\ UNCHANGED <<tree, sgms>>
  /\ UNCHANGED <<files, disk, lock, pc, loc, stops, crashed, torn, reused, fault, written, acked, synced, writes>>

Next ==
  \/ \E t \in Writers : WriterStep(t) \/ \E p \in Payloads : mqlog_write(t, p)
  \/ \E t \in Readers : ReaderStep(t) \/ \E off \in 0 .. MaxWrites : mqlog_read(t, off)
  \/ \E t \in Syncers : mqlog_sync(t) \/ segment_sync(t)
  \/ mqlog_close \/ Crash \/ MachineCrash
  \/ \E ord \in SetToSeqs(DOMAIN files) : mqlog_open(ord)

Spec == Init /\ [][Next]_vars

-----------------------------------------------------------------------------
(* Properties *)

Labels == {"idle", "last_value", "create_segment", "segment_open", "segment_write",
           "mbptree_append", "store_value", "unlock", "leaf_floor", "segment_read", "segment_sync"}
Pair   == [index : Nat, data : Nat]
Frame  == Nat \X Payloads

(* Every variable has its type; in particular every segment of the tree    *)
(* is open and its files exist, and its value is missing only while        *)
(* mbptree_append runs.                                                    *)
TypeOK ==
  /\ \A b \in DOMAIN files : /\ files[b].sized \in BOOLEAN
                             /\ IsBuffer(files[b].buffer)
                             /\ files[b].index \in [Entry -> Nat]
  /\ \A b \in DOMAIN sgms : sgms[b].w \in Pair /\ sgms[b].s \in Pair
  /\ DOMAIN sgms \subseteq DOMAIN files /\ DOMAIN files \subseteq Nat
  /\ \A i \in DOMAIN tree : /\ tree[i].key \in Nat
                            /\ tree[i].sgm \in {NULL} \cup DOMAIN sgms
                            /\ tree[i].sgm = NULL => \E t \in Writers : pc[t] = "store_value"
  /\ lock \in Threads \cup {NoThread}
  /\ pc \in [Threads -> Labels]
  /\ phase \in {"open", "stopped", "failed"}
  /\ fault \in BOOLEAN
  /\ written \subseteq Frame /\ acked \cup synced \subseteq written
  /\ DOMAIN disk = DOMAIN files

(* What an mqlog_read that ran now without interruption would return. *)
Lookup(off) ==
  LET at == Floor(tree, off)
      b  == tree[Max(at)].sgm
  IN  IF at = {} THEN [rc |-> ELNORD, payload |-> NoPayload]
      ELSE SegmentRead(files[b], sgms[b], off - b)

(* Immutability: whatever mqlog_write has acknowledged is read back at its *)
(* offset, for ever: while other producers write and fill segments, after  *)
(* writes that fail half-way, and after the log is closed or the process   *)
(* dies and the log is opened again; until a machine crash has torn a      *)
(* segment and the log is stopped once more.                               *)
AckedReadable ==
  phase = "open" /\ ~ RdCmt /\ ~ reused =>
    \A a \in acked : Lookup(a[1]) = [rc |-> SizeOf[a[2]], payload |-> a[2]]

(* Durability: what mqlog_sync has synced, and it syncs the last segment   *)
(* only, survives a crash of the machine, whatever happens to the other    *)
(* segments' files; so does what mqlog_close has synced, for all segments. *)
(* No such promise covers a segment that was opened with frames in it,     *)
(* which segment_open counts as synced although they may not be on disk.   *)
(* Nor does it hold in a log that was opened and stopped once more after a *)
(* crash has torn it: the index entries that have lost their frames are    *)
(* above those of the frames written since, so find_w_offset_pair counts   *)
(* them and resumes behind the last of them, in the middle of the frames.  *)
SyncedReadable ==
  phase = "open" /\ ~ RdCmt /\ ~ reused =>
    \A a \in synced : Lookup(a[1]) = [rc |-> SizeOf[a[2]], payload |-> a[2]]

(* mqlog_read returns what some mqlog_write wrote at that very offset,     *)
(* although the segment is looked up under the mutex and read without it.  *)
(* Not so after a crash of the machine that has torn a segment: one that   *)
(* was reopened and then synced may keep an index entry and lose the frame *)
(* behind it, and the next write puts its frame there, where both offsets  *)
(* now lead.                                                               *)
ReadsWritten ==
  ~ torn =>
    \A t \in Readers : pc[t] = "idle" /\ loc[t].rc > 0 => <<loc[t].off, loc[t].buf>> \in written

(* The segments in the index cover the offsets without gap or overlap:     *)
(* each one begins where the one before it has stopped, and stays so       *)
(* because a segment that is not the last is never written again.  A crash *)
(* of the machine may take frames from the end of any segment but the one  *)
(* that was synced last, and leave a gap.                                  *)
SegmentsAbut ==
  phase = "open" /\ ~ crashed =>
    \A i \in 2 .. Len(tree) : tree[i].key = tree[i - 1].key + sgms[tree[i - 1].key].w.index

(* What a producer has found stays true until it gives the mutex back, in  *)
(* every order of several producers' steps and whichever of them failed:   *)
(* the segment that mqlog_trywrite has picked is still the last of the     *)
(* index and is open, and a segment it adds begins where that one ends.    *)
PickedIsLast ==
  \A t \in Writers :
    /\ At(t, "segment_write") /\ ~ loc[t].fresh =>
         loc[t].sgm \in DOMAIN sgms /\ loc[t].sgm = Last(tree).sgm
    /\ pc[t] \in {"create_segment", "segment_open", "mbptree_append"} =>
         \/ tree = <<>> /\ loc[t].sgm = 0
         \/ /\ tree # <<>> /\ Last(tree).key \in DOMAIN sgms
            /\ loc[t].sgm = segment_write_offset(Last(tree).key, sgms[Last(tree).key])

(* A thread that returns from mqlog_write or mqlog_read does not hold the  *)
(* mutex any more, whichever way it returns: except from mqlog_read when   *)
(* mbptree_leaf_floor fails, after which every other call gets ELLOCK.     *)
LockReleased ==
  [][\A t \in Threads : pc[t] # "idle" /\ pc'[t] = "idle" =>
       lock' # t \/ (t \in Readers /\ loc'[t].rc = ELALLC)]_vars

(* The offsets that were written in the segment at `b'. *)
WrittenIn(b) == {a \in written : b <= a[1] /\ \A c \in DOMAIN files : c > b => a[1] < c}

(* mqlog_open fails only if the directory is read out of order, the        *)
(* process died while it created a segment, or a segment has as many       *)
(* frames as the index file has whole entries.  Not so in a log that was   *)
(* stopped once more after a crash has torn it: index entries without      *)
(* frames may then fill the index of a segment that has ended, so that     *)
(* nothing overwrites them.                                                *)
OpenFailsOnlyIf ==
  phase = "failed" /\ ~ reused =>
    \/ \E i \in 2 .. Len(order) : order[i] < order[i - 1]
    \/ \E b \in DOMAIN files : ~ files[b].sized
    \/ \E b \in DOMAIN files : Cardinality(WrittenIn(b)) >= max_index_entries(Size)

(* "This point is reached if a payload greater than the segment size is    *)
(* being inserted" (mqlog_trywrite): only such a write gets ELNOWCP.       *)
NoCapacityOnlyIfTooLarge ==
  \A t \in Writers : pc[t] = "unlock" /\ loc[t].rc = ELNOWCP =>
                       HeaderSize + FrameSize(loc[t].buf) > Size

(* mqlog_sync, a "thread safe" function (mqlog.h), never meets a segment   *)
(* that is not there, however it interleaves with mqlog_write.             *)
SyncFindsSegment == ~ fault
=============================================================================
