---------------------------- MODULE SegmentLayout ----------------------------
(***************************************************************************)
(* What a segment's two memory maps hold, and the pure computations of     *)
(* segment.c and prot.c on them.                                           *)
(*                                                                         *)
(* Offsets and sizes are bytes, with the code's sizes of a header and of   *)
(* an index entry.  The data map is represented by what reading a          *)
(* struct header at an offset yields: a cell [flags, size, payload], where *)
(* payload stands for the bytes that follow the header.  An offset outside *)
(* the domain of `buffer' reads as a header of zeroes.                     *)
(***************************************************************************)
EXTENDS MqlogErrno, FiniteSets

CONSTANTS
  Payloads,    \* what a producer may write
  NoPayload,   \* the bytes after a header nobody wrote
  SizeOf,      \* payload -> its size in bytes
  EosLike,     \* payloads whose last twelve bytes begin with 0xaaaa
  PageSize     \* pagesize()

(* mqlog_write refuses an empty payload but segment_write does not. *)
ASSUME PayloadAssumption ==
  /\ NoPayload \notin Payloads
  /\ SizeOf \in [Payloads -> Nat]
  /\ EosLike \subseteq Payloads
(* A page holds at least a header. *)
ASSUME PageAssumption == PageSize \in Nat /\ PageSize >= 12

HeaderSize == 12     \* sizeof(struct header)
EntrySize  == 8      \* sizeof(struct index_entry)

(* The tail of a payload can be mistaken for a header only if it is as     *)
(* long as one.                                                            *)
ASSUME EosLikeAssumption == \A p \in EosLike : SizeOf[p] >= HeaderSize

FrameSize(p) == HeaderSize + SizeOf[p]

HeaderFlags == {"EMPTY", "READY", "EOS"}
Header      == [flags : HeaderFlags, size : Nat, payload : Payloads \cup {NoPayload}]
ZeroHeader  == [flags |-> "EMPTY", size |-> 0, payload |-> NoPayload]

IsBuffer(buf) == DOMAIN buf \subseteq Nat /\ \A x \in DOMAIN buf : buf[x] \in Header

HeaderAt(buf, off) == IF off \in DOMAIN buf THEN buf[off] ELSE ZeroHeader

StoreHeader(buf, off, hdr) ==
  [x \in DOMAIN buf \cup {off} |-> IF x = off THEN hdr ELSE buf[x]]

StoreFlags(buf, off, flags) ==
  StoreHeader(buf, off, [HeaderAt(buf, off) EXCEPT !.flags = flags])

StoreSize(buf, off, size) ==
  StoreHeader(buf, off, [HeaderAt(buf, off) EXCEPT !.size = size])

(* header_init resets the flags; it leaves size and crc32 as they are. *)
header_init(buf, off) == StoreFlags(buf, off, "EMPTY")

prot_is_header(hdr) == hdr.flags \in {"READY", "EOS"}

(* The memcpy of a payload behind the header at `off'.  It overwrites      *)
(* whatever the frame's bytes held, and a payload of EosLike leaves bytes  *)
(* that read as an EOS header at the very end of the frame.                *)
CopyPayload(buf, off, p) ==
  LET fake == IF p \in EosLike THEN {off + SizeOf[p]} ELSE {}
      kept == {x \in DOMAIN buf : x < off \/ x >= off + FrameSize(p)}
  IN  [x \in kept \cup fake \cup {off} |->
         IF x = off THEN [HeaderAt(buf, off) EXCEPT !.payload = p]
         ELSE IF x \in fake THEN [ZeroHeader EXCEPT !.flags = "EOS"]
         ELSE buf[x]]

-----------------------------------------------------------------------------
(* The index map. *)

calculate_index_size(data_size) == (data_size + 1) \div HeaderSize

(* The entries find_w_offset_pair looks at, and the only whole entries     *)
(* the index file holds.                                                   *)
max_index_entries(data_size) == calculate_index_size(data_size) \div EntrySize

PageCeil(n)          == ((n + PageSize - 1) \div PageSize) * PageSize
page_aligned_addr(n) == (n \div PageSize) * PageSize

(* mmap maps whole pages, so the process can also address the entries      *)
(* between the end of the index file and the end of its last page.         *)
MappedEntries(data_size) == PageCeil(calculate_index_size(data_size)) \div EntrySize

(* Mutant of HasRoom: the space for the EOS header is forgotten. *)
MutantNoRoomForEos(data_size, w_offset, p) ==
  \/ w_offset > data_size
  \/ FrameSize(p) <= data_size - w_offset

(* Room for the frame and for the EOS header that must follow it.  The     *)
(* subtraction is unsigned: past the end of the segment it wraps around to *)
(* a huge number and there is room again.                                  *)
HasRoom(data_size, w_offset, p) ==
  \/ w_offset > data_size
  \/ HeaderSize + FrameSize(p) <= data_size - w_offset

(* Mutant of FreeEntries: no exception for the frame at offset 0. *)
MutantForgetsFirst(buf, idx, data_size) ==
  {i \in 0 .. max_index_entries(data_size) - 1 : idx[i] = 0}

(* Mutant of FreeEntries: the last entry is not looked at. *)
MutantSkipsLastEntry(buf, idx, data_size) ==
  {i \in 0 .. max_index_entries(data_size) - 2 :
     idx[i] = 0 /\ ~ (i = 0 /\ prot_is_header(HeaderAt(buf, 0)))}

(* The entries that look unused: entry 0 is zero even when it is in use.   *)
FreeEntries(buf, idx, data_size) ==
  {i \in 0 .. max_index_entries(data_size) - 1 :
     idx[i] = 0 /\ ~ (i = 0 /\ prot_is_header(HeaderAt(buf, 0)))}

(* Where writing resumes when a segment is opened: at the first entry that *)
(* looks unused, behind the frame of the entry before it.                  *)
find_w_offset_pair(buf, idx, data_size) ==
  LET free == FreeEntries(buf, idx, data_size)
      i    == CHOOSE n \in free : \A m \in free : n <= m
      prev == IF i = 0 THEN 0 ELSE idx[i - 1]
      used == IF i = 0 THEN 0 ELSE HeaderAt(buf, prev).size
  IN  IF free = {}
      THEN [rc |-> ELWOFFS, pair |-> [index |-> 0, data |-> 0]]
      ELSE [rc |-> 0, pair |-> [index |-> i, data |-> prev + used]]
=============================================================================
