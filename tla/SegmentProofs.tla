---------------------------- MODULE SegmentProofs ----------------------------
(***************************************************************************)
(* Proofs about Segment, for every set of threads, every payload size,     *)
(* every segment and page size: its types, FramesDisjoint, ReadCorrect and *)
(* the refinement of OffsetLog.                                            *)
(***************************************************************************)
EXTENDS Segment, TLAPS

-----------------------------------------------------------------------------
(* The operators of SegmentLayout. *)

(* A header read from a well-typed buffer is a header. *)
LEMMA HeaderAtType ==
  ASSUME NEW buf, IsBuffer(buf), NEW off
  PROVE  HeaderAt(buf, off) \in Header
BY PayloadAssumption DEF IsBuffer, HeaderAt, ZeroHeader, Header, HeaderFlags

(* A store to one header: where the buffer is defined afterwards, what the *)
(* store changes, and that it changes nothing else.                        *)
LEMMA StoreHeaderDomain ==
  ASSUME NEW buf, IsBuffer(buf), NEW off \in Nat, NEW hdr \in Header,
         NEW new, new = StoreHeader(buf, off, hdr)
  PROVE  IsBuffer(new) /\ DOMAIN new = DOMAIN buf \cup {off}
BY DEF IsBuffer, StoreHeader

(* What StoreHeader stores is read back, and nothing else changes. *)
LEMMA StoreHeaderFacts ==
  ASSUME NEW buf, IsBuffer(buf), NEW off \in Nat, NEW hdr \in Header,
         NEW new, new = StoreHeader(buf, off, hdr)
  PROVE  /\ HeaderAt(new, off) = hdr
         /\ \A x \in Int : x # off => HeaderAt(new, x) = HeaderAt(buf, x)
BY DEF StoreHeader, HeaderAt

(* header_init, and the stores of flags and of size, change one field. *)
LEMMA StoreFlagsDomain ==
  ASSUME NEW buf, IsBuffer(buf), NEW off \in Nat, NEW f \in HeaderFlags,
         NEW new, new = StoreFlags(buf, off, f)
  PROVE  IsBuffer(new) /\ DOMAIN new = DOMAIN buf \cup {off}
<1>1. HeaderAt(buf, off) \in Header
  BY HeaderAtType
<1>2. [HeaderAt(buf, off) EXCEPT !.flags = f] \in Header
  BY <1>1 DEF Header
<1> QED
  BY <1>2, StoreHeaderDomain DEF StoreFlags

(* StoreFlags changes the flags of one header. *)
LEMMA StoreFlagsFacts ==
  ASSUME NEW buf, IsBuffer(buf), NEW off \in Nat, NEW f \in HeaderFlags,
         NEW new, new = StoreFlags(buf, off, f)
  PROVE  /\ HeaderAt(new, off).flags = f
         /\ HeaderAt(new, off).size = HeaderAt(buf, off).size
         /\ HeaderAt(new, off).payload = HeaderAt(buf, off).payload
         /\ \A x \in Int : x # off => HeaderAt(new, x) = HeaderAt(buf, x)
<1> DEFINE hdr == [HeaderAt(buf, off) EXCEPT !.flags = f]
<1>1. HeaderAt(buf, off) \in Header
  BY HeaderAtType
<1>2. /\ hdr \in Header
      /\ hdr.flags = f
      /\ hdr.size = HeaderAt(buf, off).size
      /\ hdr.payload = HeaderAt(buf, off).payload
  BY <1>1 DEF Header
<1>3. new = StoreHeader(buf, off, hdr)
  BY DEF StoreFlags
<1> HIDE DEF hdr
<1>4. /\ HeaderAt(new, off) = hdr
      /\ \A x \in Int : x # off => HeaderAt(new, x) = HeaderAt(buf, x)
  BY <1>2, <1>3, StoreHeaderFacts
<1> QED
  BY <1>2, <1>4

(* StoreSize leaves a well-typed buffer. *)
LEMMA StoreSizeDomain ==
  ASSUME NEW buf, IsBuffer(buf), NEW off \in Nat, NEW n \in Nat,
         NEW new, new = StoreSize(buf, off, n)
  PROVE  IsBuffer(new) /\ DOMAIN new = DOMAIN buf \cup {off}
<1>1. HeaderAt(buf, off) \in Header
  BY HeaderAtType
<1>2. [HeaderAt(buf, off) EXCEPT !.size = n] \in Header
  BY <1>1 DEF Header
<1> QED
  BY <1>2, StoreHeaderDomain DEF StoreSize

(* StoreSize changes the size of one header. *)
LEMMA StoreSizeFacts ==
  ASSUME NEW buf, IsBuffer(buf), NEW off \in Nat, NEW n \in Nat,
         NEW new, new = StoreSize(buf, off, n)
  PROVE  /\ HeaderAt(new, off).size = n
         /\ HeaderAt(new, off).flags = HeaderAt(buf, off).flags
         /\ HeaderAt(new, off).payload = HeaderAt(buf, off).payload
         /\ \A x \in Int : x # off => HeaderAt(new, x) = HeaderAt(buf, x)
<1> DEFINE hdr == [HeaderAt(buf, off) EXCEPT !.size = n]
<1>1. HeaderAt(buf, off) \in Header
  BY HeaderAtType
<1>2. /\ hdr \in Header
      /\ hdr.size = n
      /\ hdr.flags = HeaderAt(buf, off).flags
      /\ hdr.payload = HeaderAt(buf, off).payload
  BY <1>1 DEF Header
<1>3. new = StoreHeader(buf, off, hdr)
  BY DEF StoreSize
<1> HIDE DEF hdr
<1>4. /\ HeaderAt(new, off) = hdr
      /\ \A x \in Int : x # off => HeaderAt(new, x) = HeaderAt(buf, x)
  BY <1>2, <1>3, StoreHeaderFacts
<1> QED
  BY <1>2, <1>4

(* The memcpy of a payload sets the payload of its own frame, and changes  *)
(* no header outside the bytes of the frame.                               *)
LEMMA CopyPayloadFacts ==
  ASSUME NEW buf, IsBuffer(buf), NEW off \in Nat, NEW p \in Payloads,
         NEW new, new = CopyPayload(buf, off, p)
  PROVE  /\ IsBuffer(new)
         /\ \A x \in DOMAIN new : x \in DOMAIN buf \/ (off <= x /\ x < off + FrameSize(p))
         /\ HeaderAt(new, off).payload = p
         /\ HeaderAt(new, off).size = HeaderAt(buf, off).size
         /\ HeaderAt(new, off).flags = HeaderAt(buf, off).flags
         /\ \A x \in Nat : x < off \/ x >= off + FrameSize(p) =>
                             HeaderAt(new, x) = HeaderAt(buf, x)
         /\ \A x \in Nat : off < x /\ x < off + FrameSize(p) =>
                             \/ HeaderAt(new, x) = ZeroHeader
                             \/ /\ HeaderAt(new, x).flags = "EOS"
                                /\ x = off + SizeOf[p]
                                /\ x \in DOMAIN new
<1> DEFINE fake == IF p \in EosLike THEN {off + SizeOf[p]} ELSE {}
           kept == {x \in DOMAIN buf : x < off \/ x >= off + FrameSize(p)}
           hdr  == [HeaderAt(buf, off) EXCEPT !.payload = p]
           eos  == [ZeroHeader EXCEPT !.flags = "EOS"]
<1>1. new = [x \in kept \cup fake \cup {off} |->
               IF x = off THEN hdr ELSE IF x \in fake THEN eos ELSE buf[x]]
  BY DEF CopyPayload
<1>2. SizeOf[p] \in Nat /\ FrameSize(p) = 12 + SizeOf[p]
  BY PayloadAssumption DEF FrameSize, HeaderSize
<1>3. p \in EosLike => SizeOf[p] >= 12
  BY EosLikeAssumption DEF HeaderSize
<1>4. /\ hdr \in Header /\ eos \in Header /\ eos.flags = "EOS" /\ hdr.payload = p
      /\ hdr.size = HeaderAt(buf, off).size /\ hdr.flags = HeaderAt(buf, off).flags
  <2>1. HeaderAt(buf, off) \in Header
    BY HeaderAtType
  <2> QED
    BY <2>1, PayloadAssumption DEF Header, ZeroHeader, HeaderFlags
<1>5. \A x \in fake : x \in Nat /\ off < x /\ x < off + FrameSize(p) /\ x = off + SizeOf[p]
  BY <1>2, <1>3
<1>6. DOMAIN new = kept \cup fake \cup {off}
  BY <1>1
<1> HIDE DEF hdr, eos, fake
<1>7. \A x \in DOMAIN new : new[x] \in Header
  BY <1>1, <1>4, <1>6 DEF IsBuffer
<1>8. DOMAIN new \subseteq Nat
  BY <1>5, <1>6 DEF IsBuffer
<1>9. \A x \in DOMAIN new : x \in DOMAIN buf \/ (off <= x /\ x < off + FrameSize(p))
  BY <1>2, <1>5, <1>6
<1>10. HeaderAt(new, off) = hdr
  BY <1>1, <1>6 DEF HeaderAt
<1>11. \A x \in Nat : x < off \/ x >= off + FrameSize(p) => HeaderAt(new, x) = HeaderAt(buf, x)
  <2> SUFFICES ASSUME NEW x \in Nat, x < off \/ x >= off + FrameSize(p)
               PROVE  HeaderAt(new, x) = HeaderAt(buf, x)
    OBVIOUS
  <2>1. x # off /\ x \notin fake
    BY <1>2, <1>5
  <2>2. x \in DOMAIN new <=> x \in DOMAIN buf
    BY <2>1, <1>6
  <2> QED
    BY <2>1, <2>2, <1>1, <1>6 DEF HeaderAt
<1>12. \A x \in Nat : off < x /\ x < off + FrameSize(p) =>
          HeaderAt(new, x) = ZeroHeader
            \/ (HeaderAt(new, x) = eos /\ x = off + SizeOf[p] /\ x \in DOMAIN new)
  <2> SUFFICES ASSUME NEW x \in Nat, off < x, x < off + FrameSize(p)
               PROVE  \/ HeaderAt(new, x) = ZeroHeader
                      \/ HeaderAt(new, x) = eos /\ x = off + SizeOf[p] /\ x \in DOMAIN new
    OBVIOUS
  <2>1. x # off /\ x \notin kept
    BY <1>2
  <2>2. CASE x \in fake
    BY <2>1, <2>2, <1>1, <1>5, <1>6 DEF HeaderAt
  <2>3. CASE x \notin fake
    <3>1. x \notin DOMAIN new
      BY <2>1, <2>3, <1>6
    <3> QED
      BY <3>1 DEF HeaderAt
  <2> QED
    BY <2>2, <2>3
<1> QED
  BY <1>4, <1>7, <1>8, <1>9, <1>10, <1>11, <1>12 DEF IsBuffer

(* The arithmetic of pages stays in the integers. *)
LEMMA PageArithmetic ==
  ASSUME NEW n \in Int
  PROVE  page_aligned_addr(n) \in Int /\ PageCeil(n) \in Int
BY PageAssumption DEF page_aligned_addr, PageCeil

(* The sizes of frames. *)
LEMMA FrameSizeType ==
  ASSUME NEW p \in Payloads
  PROVE  FrameSize(p) \in Nat /\ FrameSize(p) = 12 + SizeOf[p] /\ SizeOf[p] \in Nat
BY PayloadAssumption DEF FrameSize, HeaderSize

-----------------------------------------------------------------------------
(* Type correctness. *)

(* segment_open hands out a segment of the right types. *)
LEMMA InitTypeOK == Init => TypeOK
<1> SUFFICES ASSUME Init PROVE TypeOK
  OBVIOUS
<1> USE DEF Init
<1>1. OffsetsTypeOK
  BY DEF OffsetsTypeOK, Pair
<1>2. MapsTypeOK
  BY DEF MapsTypeOK, IsBuffer
<1>3. DiskTypeOK
  BY DEF DiskTypeOK
<1>4. ThreadsTypeOK
  <2>1. pc \in [Threads -> WriterLabels \cup ReaderLabels \cup SyncerLabels]
    BY DEF WriterLabels
  <2>2. wr \in [Writers -> WriterState]
    BY DEF IdleWriter, Pair, WriterState
  <2>3. rd \in [Readers -> ReaderState]
    BY DEF ELNORD, ReaderState
  <2>4. sy \in [Syncers -> SyncerState]
    BY DEF SyncerState
  <2>5. \A t \in Writers : pc[t] = "idle"
    BY DEF Threads
  <2> QED
    BY <2>1, <2>2, <2>3, <2>4, <2>5 DEF ThreadsTypeOK
<1>5. CallsTypeOK
  BY BoundAssumption DEF CallsTypeOK
<1>6. FaultTypeOK
  BY DEF FaultTypeOK
<1>7. FramesTypeOK
  BY DEF FramesTypeOK
<1> QED
  BY <1>1, <1>2, <1>3, <1>4, <1>5, <1>6, <1>7 DEF TypeOK

(* All of TypeOK but the history of the frames: what holds of a segment    *)
(* that was opened on any files, too.                                      *)
StateOK == OffsetsTypeOK /\ MapsTypeOK /\ DiskTypeOK /\ ThreadsTypeOK /\ CallsTypeOK /\ FaultTypeOK

(* What each kind of thread leaves alone. *)
LEMMA UnchangedTypes ==
  ASSUME StateOK
  PROVE  /\ UNCHANGED <<w_offset_pair, s_offset_pair>> => OffsetsTypeOK'
         /\ UNCHANGED <<index, buffer>> => MapsTypeOK'
         /\ UNCHANGED disk => DiskTypeOK'
         /\ UNCHANGED calls => CallsTypeOK'
         /\ UNCHANGED fault => FaultTypeOK'
         /\ fault' = TRUE => FaultTypeOK'
<1> USE DEF StateOK
<1>1. UNCHANGED <<w_offset_pair, s_offset_pair>> => OffsetsTypeOK'
  BY DEF OffsetsTypeOK
<1>2. UNCHANGED <<index, buffer>> => MapsTypeOK'
  BY DEF MapsTypeOK
<1>3. UNCHANGED disk => DiskTypeOK'
  BY DEF DiskTypeOK
<1>4. UNCHANGED calls => CallsTypeOK'
  BY DEF CallsTypeOK
<1>5. UNCHANGED fault => FaultTypeOK'
  BY Zenon DEF FaultTypeOK
<1>6. fault' = TRUE => FaultTypeOK'
  BY Zenon DEF FaultTypeOK
<1> QED
  BY <1>1, <1>2, <1>3, <1>4, <1>5, <1>6

(* A writer's locals, field by field. *)
LEMMA WriterTypes ==
  ASSUME StateOK, NEW t \in Writers, NEW label \in WriterLabels, Goto(t, label),
         wr' \in [Writers -> WriterState],
         \A u \in Writers : u # t => wr'[u] = wr[u],
         label # "idle" => wr'[t].buf \in Payloads,
         UNCHANGED <<rd, sy>>
  PROVE  ThreadsTypeOK'
BY DEF StateOK, ThreadsTypeOK, Goto, Threads

(* A reader's locals, field by field. *)
LEMMA ReaderTypes ==
  ASSUME StateOK, NEW t \in Readers, NEW label \in ReaderLabels, Goto(t, label),
         rd' \in [Readers -> ReaderState],
         UNCHANGED <<wr, sy>>
  PROVE  ThreadsTypeOK'
BY ThreadAssumption DEF StateOK, ThreadsTypeOK, Goto, Threads

(* A syncing thread's locals, field by field. *)
LEMMA SyncerTypes ==
  ASSUME StateOK, NEW t \in Syncers, NEW label \in SyncerLabels, Goto(t, label),
         sy' \in [Syncers -> SyncerState],
         UNCHANGED <<wr, rd>>
  PROVE  ThreadsTypeOK'
BY ThreadAssumption DEF StateOK, ThreadsTypeOK, Goto, Threads

(* A return from segment_write keeps the threads' types. *)
LEMMA WriteReturnsType ==
  ASSUME StateOK, NEW t \in Writers, NEW rc \in Int, WriteReturns(t, rc), UNCHANGED <<rd, sy>>
  PROVE  ThreadsTypeOK'
<1>1. wr' \in [Writers -> WriterState]
  BY PayloadAssumption
  DEF StateOK, ThreadsTypeOK, WriteReturns, IdleWriter, WriterState, Pair
<1>2. \A u \in Writers : u # t => wr'[u] = wr[u]
  BY DEF StateOK, ThreadsTypeOK, WriteReturns
<1>3. "idle" \in WriterLabels /\ Goto(t, "idle")
  BY DEF WriteReturns, WriterLabels
<1> QED
  BY <1>1, <1>2, <1>3, WriterTypes

(* The call of segment_write. *)
LEMMA WriteType ==
  ASSUME StateOK, NEW t \in Writers, NEW p \in Payloads, segment_write(t, p)
  PROVE  StateOK'
<1>1. ThreadsTypeOK'
  <2>1. wr' \in [Writers -> WriterState]
    BY DEF StateOK, ThreadsTypeOK, segment_write, WriterState, IdleWriter, Pair
  <2>2. wr'[t].buf \in Payloads /\ \A u \in Writers : u # t => wr'[u] = wr[u]
    BY DEF StateOK, ThreadsTypeOK, segment_write, IdleWriter
  <2>3. "marked_eos" \in WriterLabels
    BY DEF WriterLabels
  <2> QED
    BY <2>1, <2>2, <2>3, WriterTypes DEF segment_write
<1>2. CallsTypeOK'
  BY BoundAssumption DEF StateOK, CallsTypeOK, segment_write
<1> QED
  BY <1>1, <1>2, UnchangedTypes DEF StateOK, segment_write, shared

(* A step of a writer that only moves it on, keeping its locals. *)
LEMMA WriterMovesType ==
  ASSUME StateOK, NEW t \in Writers, NEW label \in WriterLabels, Goto(t, label),
         pc[t] # "idle", UNCHANGED <<wr, rd, sy>>
  PROVE  ThreadsTypeOK'
<1>1. wr[t].buf \in Payloads /\ wr' \in [Writers -> WriterState]
  BY DEF StateOK, ThreadsTypeOK
<1> QED
  BY <1>1, WriterTypes

(* marked_eos: the offset it computes is not negative. *)
LEMMA MarkedEosType ==
  ASSUME StateOK, NEW t \in Writers, marked_eos(t)
  PROVE  StateOK'
<1>1. pc[t] # "idle" /\ "curr" \in WriterLabels /\ "eos_flags" \in WriterLabels
  BY DEF marked_eos, At, WriterLabels
<1>2. CASE w_offset_pair.data < HeaderSize
  <2>1. ThreadsTypeOK'
    BY <1>1, <1>2, WriterMovesType DEF marked_eos
  <2> QED
    BY <2>1, UnchangedTypes DEF StateOK, marked_eos, shared
<1>3. CASE ~ (w_offset_pair.data < HeaderSize)
  <2>1. w_offset_pair.data - HeaderSize \in Nat
    BY <1>3 DEF StateOK, OffsetsTypeOK, Pair, HeaderSize
  <2>2. wr' \in [Writers -> WriterState]
    BY <1>3, <2>1 DEF StateOK, ThreadsTypeOK, marked_eos, LastHeader, WriterState
  <2>3. wr'[t].buf \in Payloads /\ \A u \in Writers : u # t => wr'[u] = wr[u]
    BY <1>1, <1>3 DEF StateOK, ThreadsTypeOK, marked_eos, LastHeader, WriterState
  <2>4. ThreadsTypeOK'
    BY <1>1, <1>3, <2>2, <2>3, WriterTypes DEF marked_eos
  <2> QED
    BY <2>4, UnchangedTypes DEF StateOK, marked_eos, shared
<1> QED
  BY <1>2, <1>3

(* The check of the EOS flag. *)
LEMMA CheckEosFlagsType ==
  ASSUME StateOK, NEW t \in Writers, CheckEosFlags(t)
  PROVE  StateOK'
<1>1. pc[t] # "idle" /\ "curr" \in WriterLabels /\ ELEOS \in Int
  BY DEF CheckEosFlags, At, WriterLabels, ELEOS
<1>2. ThreadsTypeOK'
  BY <1>1, WriterMovesType, WriteReturnsType DEF CheckEosFlags
<1> QED
  BY <1>2, UnchangedTypes DEF StateOK, CheckEosFlags, shared

(* The read of the write offset and the check for room. *)
LEMMA ReadWriteOffsetType ==
  ASSUME StateOK, NEW t \in Writers, ReadWriteOffset(t)
  PROVE  StateOK'
<1>1. pc[t] # "idle" /\ "claim" \in WriterLabels /\ "mark_eos" \in WriterLabels
  BY DEF ReadWriteOffset, At, WriterLabels
<1>2. wr' \in [Writers -> WriterState]
  BY DEF StateOK, ThreadsTypeOK, OffsetsTypeOK, ReadWriteOffset, WriterState
<1>3. wr'[t].buf \in Payloads /\ \A u \in Writers : u # t => wr'[u] = wr[u]
  BY <1>1 DEF StateOK, ThreadsTypeOK, ReadWriteOffset, WriterState
<1>4. ThreadsTypeOK'
  BY <1>1, <1>2, <1>3, WriterTypes DEF ReadWriteOffset
<1> QED
  BY <1>4, UnchangedTypes DEF StateOK, ReadWriteOffset, shared

(* A lost compare-and-swap. *)
LEMMA ClaimLostType ==
  ASSUME StateOK, NEW t \in Writers, ClaimLost(t)
  PROVE  StateOK'
<1>1. ThreadsTypeOK'
  BY WriteReturnsType DEF ClaimLost, ELLOCK
<1> QED
  BY <1>1, UnchangedTypes DEF StateOK, ClaimLost, shared

(* The compare-and-swap that succeeds. *)
LEMMA ClaimFrameType ==
  ASSUME StateOK, NEW t \in Writers, ClaimFrame(t)
  PROVE  StateOK'
<1> DEFINE curr == wr[t].curr
           p    == wr[t].buf
<1>1. p \in Payloads /\ pc[t] # "idle" /\ "copy" \in WriterLabels
  BY DEF StateOK, ThreadsTypeOK, ClaimFrame, At, WriterLabels
<1>2. FrameSize(p) \in Nat
  BY <1>1, FrameSizeType
<1>3. w_offset_pair = curr /\ curr \in Pair
  BY DEF ClaimFrame, Claimed, claim, StateOK, OffsetsTypeOK
<1>4. w_offset_pair' = [index |-> curr.index + 1, data |-> curr.data + FrameSize(p)]
  BY DEF ClaimFrame, Claimed, claim
<1>5. OffsetsTypeOK'
  BY <1>2, <1>3, <1>4 DEF ClaimFrame, StateOK, OffsetsTypeOK, Pair
<1>6. ThreadsTypeOK'
  BY <1>1, WriterMovesType DEF ClaimFrame, locals
<1> QED
  BY <1>5, <1>6, UnchangedTypes DEF StateOK, ClaimFrame

(* An access outside the maps stops the model. *)
LEMMA CrashesType ==
  ASSUME StateOK, Crashes
  PROVE  StateOK'
<1>1. ThreadsTypeOK'
  BY DEF StateOK, ThreadsTypeOK, Crashes, locals
<1> QED
  BY <1>1, UnchangedTypes DEF StateOK, Crashes, shared

(* Stores to the data map that keep every header a header. *)
LEMMA BufferType ==
  ASSUME StateOK, index' = index, IsBuffer(buffer')
  PROVE  MapsTypeOK'
BY DEF StateOK, MapsTypeOK

(* The offset a writer works at is a natural number. *)
LEMMA OwnOffset ==
  ASSUME StateOK, NEW t \in Writers
  PROVE  /\ wr[t].curr.data \in Nat /\ wr[t].curr.index \in Nat
         /\ IsBuffer(buffer)
         /\ pc[t] # "idle" => wr[t].buf \in Payloads
BY DEF StateOK, ThreadsTypeOK, MapsTypeOK, WriterState, Pair

(* The memcpy of the payload. *)
LEMMA CopyToBufferType ==
  ASSUME StateOK, NEW t \in Writers, CopyToBuffer(t)
  PROVE  StateOK'
<1>1. pc[t] # "idle" /\ "header_init" \in WriterLabels
  BY DEF CopyToBuffer, At, WriterLabels
<1>2. CASE ~ InData(wr[t].curr.data, FrameSize(wr[t].buf))
  BY <1>2, CrashesType DEF CopyToBuffer
<1>3. CASE InData(wr[t].curr.data, FrameSize(wr[t].buf))
  <2>1. buffer' = CopyPayload(buffer, wr[t].curr.data, wr[t].buf) /\ index' = index
    BY <1>3 DEF CopyToBuffer
  <2>2. MapsTypeOK'
    BY <1>1, <2>1, OwnOffset, CopyPayloadFacts, BufferType
  <2>3. ThreadsTypeOK'
    BY <1>1, <1>3, WriterMovesType DEF CopyToBuffer, locals
  <2> QED
    BY <1>3, <2>2, <2>3, UnchangedTypes DEF StateOK, CopyToBuffer
<1> QED
  BY <1>2, <1>3

(* header_init of a frame. *)
LEMMA InitHeaderType ==
  ASSUME StateOK, NEW t \in Writers, InitHeader(t)
  PROVE  StateOK'
<1>1. pc[t] # "idle" /\ "header" \in WriterLabels
  BY DEF InitHeader, At, WriterLabels
<1>2. buffer' = StoreFlags(buffer, wr[t].curr.data, "EMPTY") /\ index' = index
  BY DEF InitHeader, header_init
<1>3. MapsTypeOK'
  <2>1. "EMPTY" \in HeaderFlags
    BY DEF HeaderFlags
  <2>2. IsBuffer(buffer')
    BY <1>2, <2>1, OwnOffset, StoreFlagsDomain, Zenon
  <2> QED
    BY <1>2, <2>2, BufferType
<1>4. wr' \in [Writers -> WriterState]
  BY DEF StateOK, ThreadsTypeOK, InitHeader, HeaderFields, WriterState
<1>5. wr'[t].buf \in Payloads /\ \A u \in Writers : u # t => wr'[u] = wr[u]
  BY <1>1 DEF StateOK, ThreadsTypeOK, InitHeader, HeaderFields, WriterState
<1>6. ThreadsTypeOK'
  BY <1>1, <1>4, <1>5, WriterTypes DEF InitHeader
<1> QED
  BY <1>3, <1>6, UnchangedTypes DEF StateOK, InitHeader

(* The stores of size and flags. *)
LEMMA StoreHeaderFieldType ==
  ASSUME StateOK, NEW t \in Writers, NEW field \in {"size", "flags"}, StoreHeaderField(t, field)
  PROVE  StateOK'
<1>1. pc[t] # "idle" /\ "header" \in WriterLabels /\ "index" \in WriterLabels
  BY DEF StoreHeaderField, At, WriterLabels
<1>2. MapsTypeOK'
  <2>1. CASE field = "size"
    <3>1. buffer' = StoreSize(buffer, wr[t].curr.data, FrameSize(wr[t].buf)) /\ index' = index
      BY <2>1 DEF StoreHeaderField
    <3> QED
      BY <1>1, <3>1, OwnOffset, FrameSizeType, StoreSizeDomain, BufferType
  <2>2. CASE field = "flags"
    <3>1. buffer' = StoreFlags(buffer, wr[t].curr.data, "READY") /\ index' = index
      BY <2>2 DEF StoreHeaderField
    <3> QED
      BY <3>1, OwnOffset, StoreFlagsDomain, BufferType DEF HeaderFlags
  <2> QED
    BY <2>1, <2>2
<1>3. wr' \in [Writers -> WriterState]
  BY DEF StateOK, ThreadsTypeOK, StoreHeaderField, WriterState
<1>4. wr'[t].buf \in Payloads /\ \A u \in Writers : u # t => wr'[u] = wr[u]
  BY <1>1 DEF StateOK, ThreadsTypeOK, StoreHeaderField, WriterState
<1>5. ThreadsTypeOK'
  BY <1>1, <1>3, <1>4, WriterTypes DEF StoreHeaderField
<1> QED
  BY <1>2, <1>5, UnchangedTypes DEF StateOK, StoreHeaderField

(* The store of the index entry. *)
LEMMA StoreIndexEntryType ==
  ASSUME StateOK, NEW t \in Writers, StoreIndexEntry(t)
  PROVE  StateOK'
<1>1. CASE wr[t].curr.index \notin Entry
  BY <1>1, CrashesType DEF StoreIndexEntry
<1>2. CASE wr[t].curr.index \in Entry
  <2>1. MapsTypeOK'
    BY <1>2, OwnOffset DEF StateOK, MapsTypeOK, StoreIndexEntry
  <2>2. SizeOf[wr[t].buf] \in Int
    BY OwnOffset, FrameSizeType DEF StoreIndexEntry, At
  <2>3. ThreadsTypeOK'
    BY <1>2, <2>2, WriteReturnsType DEF StoreIndexEntry
  <2> QED
    BY <1>2, <2>1, <2>3, UnchangedTypes DEF StateOK, StoreIndexEntry
<1> QED
  BY <1>1, <1>2

(* The reservation of an EOS header. *)
LEMMA MarkEosType ==
  ASSUME StateOK, NEW t \in Writers, mark_eos(t)
  PROVE  StateOK'
<1>1. pc[t] # "idle" /\ "eos_header" \in WriterLabels
  BY DEF mark_eos, At, WriterLabels
<1>2. /\ w_offset_pair = wr[t].curr
      /\ w_offset_pair' = [index |-> wr[t].curr.index, data |-> wr[t].curr.data + HeaderSize]
  BY DEF mark_eos, claim
<1>3. OffsetsTypeOK'
  BY <1>2, OwnOffset DEF mark_eos, StateOK, OffsetsTypeOK, Pair, HeaderSize
<1>4. ThreadsTypeOK'
  BY <1>1, WriterMovesType DEF mark_eos, locals
<1> QED
  BY <1>3, <1>4, UnchangedTypes DEF StateOK, mark_eos

(* The EOS header up to its flags. *)
LEMMA InitEosHeaderType ==
  ASSUME StateOK, NEW t \in Writers, InitEosHeader(t)
  PROVE  StateOK'
<1> DEFINE off == wr[t].curr.data
           buf == StoreFlags(buffer, off, "EMPTY")
<1>1. pc[t] # "idle" /\ "eos_mark" \in WriterLabels
  BY DEF InitEosHeader, At, WriterLabels
<1>2. CASE ~ InData(off, HeaderSize)
  BY <1>2, CrashesType DEF InitEosHeader
<1>3. CASE InData(off, HeaderSize)
  <2>1. buffer' = StoreSize(buf, off, HeaderSize) /\ index' = index
    BY <1>3 DEF InitEosHeader, header_init
  <2>2. IsBuffer(buf)
    <3>1. "EMPTY" \in HeaderFlags
      BY DEF HeaderFlags
    <3> QED
      BY <3>1, OwnOffset, StoreFlagsDomain, Zenon
  <2>3. off \in Nat /\ HeaderSize \in Nat
    BY OwnOffset DEF HeaderSize
  <2> HIDE DEF buf
  <2>4. MapsTypeOK'
    BY <2>1, <2>2, <2>3, StoreSizeDomain, BufferType
  <2>5. ThreadsTypeOK'
    BY <1>1, <1>3, WriterMovesType DEF InitEosHeader, locals
  <2> QED
    BY <1>3, <2>4, <2>5, UnchangedTypes DEF StateOK, InitEosHeader
<1> QED
  BY <1>2, <1>3

(* The EOS flags. *)
LEMMA StoreEosFlagsType ==
  ASSUME StateOK, NEW t \in Writers, StoreEosFlags(t)
  PROVE  StateOK'
<1>1. buffer' = StoreFlags(buffer, wr[t].curr.data, "EOS") /\ index' = index
  BY DEF StoreEosFlags
<1>2. MapsTypeOK'
  <2>1. "EOS" \in HeaderFlags
    BY DEF HeaderFlags
  <2>2. IsBuffer(buffer')
    BY <1>1, <2>1, OwnOffset, StoreFlagsDomain, Zenon
  <2> QED
    BY <1>1, <2>2, BufferType
<1>3. ThreadsTypeOK'
  BY WriteReturnsType DEF StoreEosFlags, ELEOS
<1> QED
  BY <1>2, <1>3, UnchangedTypes DEF StateOK, StoreEosFlags

(* The steps of segment_read. *)
LEMMA ReaderStepType ==
  ASSUME StateOK, NEW t \in Readers,
         ReaderStep(t) \/ \E rel \in 0 .. MaxWrites - 1 : segment_read(t, rel)
  PROVE  StateOK'
<1> USE DEF ReaderLabels
<1>1. rd \in [Readers -> ReaderState]
  BY DEF StateOK, ThreadsTypeOK
<1>2. ASSUME NEW rel \in 0 .. MaxWrites - 1, segment_read(t, rel) PROVE StateOK'
  <2>1. w_offset_pair.data \in Nat /\ s_offset_pair.data \in Nat
    BY DEF StateOK, OffsetsTypeOK, Pair
  <2>2. rd' \in [Readers -> ReaderState]
    BY <1>1, <1>2, <2>1, BoundAssumption DEF segment_read, Boundary, ReaderState, ELNORD
  <2>3. ThreadsTypeOK'
    BY <1>2, <2>2, ReaderTypes DEF segment_read
  <2> QED
    BY <1>2, <2>3, UnchangedTypes DEF StateOK, segment_read, shared
<1>3. ASSUME NEW rc \in Int, ReadReturns(t, rc), UNCHANGED <<wr, sy>> PROVE ThreadsTypeOK'
  <2>1. rd' \in [Readers -> ReaderState]
    BY <1>1, <1>3 DEF ReadReturns, ReaderState
  <2> QED
    BY <1>3, <2>1, ReaderTypes DEF ReadReturns
<1>4. CASE CheckWriteIndex(t)
  <2>1. ThreadsTypeOK'
    BY <1>1, <1>3, <1>4, ReaderTypes DEF CheckWriteIndex, ELNORD
  <2> QED
    BY <1>4, <2>1, UnchangedTypes DEF StateOK, CheckWriteIndex, shared
<1>5. CASE ReadIndexEntry(t)
  <2>1. CASE rd[t].rel \notin Entry
    BY <1>5, <2>1, CrashesType DEF ReadIndexEntry
  <2>2. CASE rd[t].rel \in Entry
    <3>1. index[rd[t].rel] \in Nat
      BY <2>2 DEF StateOK, MapsTypeOK
    <3>2. CASE \/ rd[t].rel # 0 /\ index[rd[t].rel] = 0
               \/ index[rd[t].rel] >= rd[t].boundary
      <4>1. ThreadsTypeOK'
        BY <1>3, <1>5, <2>2, <3>2 DEF ReadIndexEntry, EntryUnset, ELNORD
      <4> QED
        BY <1>5, <2>2, <4>1, UnchangedTypes DEF StateOK, ReadIndexEntry, shared
    <3>3. CASE ~ (\/ rd[t].rel # 0 /\ index[rd[t].rel] = 0
                  \/ index[rd[t].rel] >= rd[t].boundary)
      <4>1. rd' = [rd EXCEPT ![t].phys = index[rd[t].rel]]
        BY <1>5, <2>2, <3>3 DEF ReadIndexEntry, EntryUnset
      <4>2. rd' \in [Readers -> ReaderState]
        BY <1>1, <3>1, <4>1 DEF ReaderState
      <4>3. ThreadsTypeOK'
        BY <1>5, <2>2, <3>3, <4>2, ReaderTypes DEF ReadIndexEntry, EntryUnset
      <4> QED
        BY <1>5, <2>2, <4>3, UnchangedTypes DEF StateOK, ReadIndexEntry, shared
    <3> QED
      BY <3>2, <3>3
  <2> QED
    BY <2>1, <2>2
<1>6. CASE ReadFlags(t)
  <2>1. \/ Goto(t, "read_size") /\ UNCHANGED rd
        \/ ReadReturns(t, ELEOS)
        \/ ReadReturns(t, ELINVHD)
    BY <1>6 DEF ReadFlags
  <2>2. ThreadsTypeOK'
    BY <1>1, <1>3, <1>6, <2>1, ReaderTypes DEF ReadFlags, ELEOS, ELINVHD
  <2> QED
    BY <1>6, <2>2, UnchangedTypes DEF StateOK, ReadFlags, shared
<1>7. CASE ReadSize(t)
  <2>1. HeaderAt(buffer, rd[t].phys) \in Header
    BY HeaderAtType DEF StateOK, MapsTypeOK
  <2>2. HeaderAt(buffer, rd[t].phys).size - HeaderSize \in Int
    BY <2>1 DEF Header, HeaderSize
  <2>3. ThreadsTypeOK'
    BY <1>3, <1>7, <2>2 DEF ReadSize
  <2> QED
    BY <1>7, <2>3, UnchangedTypes DEF StateOK, ReadSize, shared
<1> QED
  BY <1>2, <1>4, <1>5, <1>6, <1>7 DEF ReaderStep

(* The steps of segment_sync. *)
LEMMA SyncerStepType ==
  ASSUME StateOK, NEW t \in Syncers, SyncerStep(t) \/ segment_sync(t)
  PROVE  StateOK'
<1> USE DEF SyncerLabels
<1>1. sy \in [Syncers -> SyncerState] /\ sy[t] \in SyncerState
  BY DEF StateOK, ThreadsTypeOK
<1>2. w_offset_pair \in Pair /\ s_offset_pair \in Pair
  BY DEF StateOK, OffsetsTypeOK
<1>3. ASSUME NEW rc \in Int, SyncReturns(t, rc), UNCHANGED <<wr, rd>> PROVE ThreadsTypeOK'
  <2>1. sy' \in [Syncers -> SyncerState]
    BY <1>1, <1>3 DEF SyncReturns, SyncerState
  <2> QED
    BY <1>3, <2>1, SyncerTypes DEF SyncReturns
<1>4. InFlight \subseteq Nat
  BY OwnOffset DEF InFlight
<1>5. CASE segment_sync(t)
  <2>1. sy' \in [Syncers -> SyncerState]
    BY <1>1, <1>2, <1>5 DEF segment_sync, SyncerState, Pair
  <2>2. ThreadsTypeOK'
    BY <1>5, <2>1, SyncerTypes DEF segment_sync
  <2> QED
    BY <1>5, <2>2, UnchangedTypes DEF StateOK, segment_sync, shared
<1>6. CASE SyncDataReadEnd(t)
  <2>1. sy' \in [Syncers -> SyncerState]
    BY <1>1, <1>2, <1>6 DEF SyncDataReadEnd, SyncerState, Pair
  <2>2. ThreadsTypeOK'
    BY <1>6, <2>1, SyncerTypes DEF SyncDataReadEnd
  <2> QED
    BY <1>6, <2>2, UnchangedTypes DEF StateOK, SyncDataReadEnd, shared
<1>7. CASE SyncDataLength(t)
  <2>1. page_aligned_addr(sy[t].from) \in Int
    BY <1>1, PageArithmetic DEF SyncerState
  <2>2. (sy[t].to - s_offset_pair.data) + (sy[t].from - page_aligned_addr(sy[t].from)) \in Int
    BY <1>1, <1>2, <2>1 DEF SyncerState, Pair
  <2>3. sy' \in [Syncers -> SyncerState]
    BY <1>1, <1>7, <2>2 DEF SyncDataLength, SyncerState
  <2>4. ThreadsTypeOK'
    BY <1>7, <2>3, SyncerTypes DEF SyncDataLength
  <2> QED
    BY <1>7, <2>4, UnchangedTypes DEF StateOK, SyncDataLength, shared
<1>8. CASE MsyncData(t)
  <2>1. ThreadsTypeOK'
    BY <1>1, <1>3, <1>8, SyncerTypes DEF MsyncData, ELDTSYN
  <2>2. DiskTypeOK'
    BY <1>4, <1>8 DEF StateOK, DiskTypeOK, MsyncData
  <2> QED
    BY <1>8, <2>1, <2>2, UnchangedTypes DEF StateOK, MsyncData
<1>9. CASE StoreSyncedData(t)
  <2>1. OffsetsTypeOK'
    BY <1>1, <1>2, <1>9 DEF StoreSyncedData, SyncedUpTo, OffsetsTypeOK, Pair, SyncerState
  <2>2. ThreadsTypeOK'
    <3>1. sy[t].len \in Int
      BY <1>1 DEF SyncerState
    <3> QED
      BY <1>1, <1>3, <1>9, <3>1, SyncerTypes DEF StoreSyncedData
  <2> QED
    BY <1>9, <2>1, <2>2, UnchangedTypes DEF StateOK, StoreSyncedData
<1>10. CASE SyncIndexReadStart(t)
  <2>1. sy' \in [Syncers -> SyncerState]
    BY <1>1, <1>2, <1>10 DEF SyncIndexReadStart, SyncerState, Pair
  <2>2. ThreadsTypeOK'
    BY <1>10, <2>1, SyncerTypes DEF SyncIndexReadStart
  <2> QED
    BY <1>10, <2>2, UnchangedTypes DEF StateOK, SyncIndexReadStart, shared
<1>11. CASE SyncIndexReadEnd(t)
  <2>1. sy' \in [Syncers -> SyncerState]
    BY <1>1, <1>2, <1>11 DEF SyncIndexReadEnd, SyncerState, Pair
  <2>2. ThreadsTypeOK'
    BY <1>11, <2>1, SyncerTypes DEF SyncIndexReadEnd
  <2> QED
    BY <1>11, <2>2, UnchangedTypes DEF StateOK, SyncIndexReadEnd, shared
<1>12. CASE SyncIndexLength(t)
  <2>1. sy' \in [Syncers -> SyncerState]
    BY <1>1, <1>2, <1>12 DEF SyncIndexLength, SyncerState, Pair
  <2>2. ThreadsTypeOK'
    BY <1>12, <2>1, SyncerTypes DEF SyncIndexLength
  <2> QED
    BY <1>12, <2>2, UnchangedTypes DEF StateOK, SyncIndexLength, shared
<1>13. CASE MsyncIndex(t)
  <2>1. ThreadsTypeOK'
    BY <1>1, <1>3, <1>13, SyncerTypes DEF MsyncIndex, ELDTSYN
  <2>2. DiskTypeOK'
    <3>1. CASE UNCHANGED disk
      BY <3>1, UnchangedTypes
    <3>2. ASSUME NEW new, \A i \in Entry : new[i] \in {index[i], disk.index[i]},
                 new = [i \in Entry |-> new[i]], NEW torn \in SUBSET Nat,
                 disk' = [disk EXCEPT !.index = new, !.torn = disk.torn \cup torn]
          PROVE  DiskTypeOK'
      <4>1. new \in [Entry -> Nat]
        BY <3>2 DEF StateOK, DiskTypeOK, MapsTypeOK
      <4> QED
        BY <3>2, <4>1 DEF StateOK, DiskTypeOK
    <3> DEFINE from == sy[t].from * EntrySize
               len  == EntryBytes(sy[t].len) + (from - page_aligned_addr(from))
               pages(i) == /\ i < max_index_entries(Size)
                           /\ page_aligned_addr(from) <= i * EntrySize
                           /\ i * EntrySize < MsyncEnd(from, len)
               new  == [i \in Entry |-> IF pages(i) THEN index[i] ELSE disk.index[i]]
               torn == {i \in InFlight : i < sy[t].to}
    <3>3. UNCHANGED disk \/ disk' = [disk EXCEPT !.index = new, !.torn = disk.torn \cup torn]
      BY <1>13 DEF MsyncIndex, StateOK, DiskTypeOK
    <3> HIDE DEF pages
    <3>4. (\A i \in Entry : new[i] \in {index[i], disk.index[i]}) /\ new = [i \in Entry |-> new[i]]
      OBVIOUS
    <3>5. torn \in SUBSET Nat
      BY <1>4
    <3> HIDE DEF new, torn
    <3> QED
      BY <3>1, <3>2, <3>3, <3>4, <3>5
  <2> QED
    BY <1>13, <2>1, <2>2, UnchangedTypes DEF StateOK, MsyncIndex
<1>14. CASE StoreSyncedIndex(t)
  <2>1. OffsetsTypeOK'
    BY <1>1, <1>2, <1>14 DEF StoreSyncedIndex, SyncedUpTo, OffsetsTypeOK, Pair, SyncerState
  <2>2. ThreadsTypeOK'
    <3>1. sy[t].len \in Int
      BY <1>1 DEF SyncerState
    <3> QED
      BY <1>3, <1>14, <3>1 DEF StoreSyncedIndex
  <2> QED
    BY <1>14, <2>1, <2>2, UnchangedTypes DEF StateOK, StoreSyncedIndex
<1> QED
  BY <1>5, <1>6, <1>7, <1>8, <1>9, <1>10, <1>11, <1>12, <1>13, <1>14 DEF SyncerStep

(* Every step of the system keeps the types of the state. *)
LEMMA NextState == ASSUME StateOK, [Next]_vars PROVE StateOK'
<1>1. ASSUME NEW t \in Writers, WriterStep(t) PROVE StateOK'
  BY <1>1, MarkedEosType, CheckEosFlagsType, ReadWriteOffsetType, ClaimLostType, ClaimFrameType,
     CopyToBufferType, InitHeaderType, StoreHeaderFieldType, StoreIndexEntryType, MarkEosType,
     InitEosHeaderType, StoreEosFlagsType
  DEF WriterStep
<1>2. CASE UNCHANGED vars
  <2>1. ThreadsTypeOK'
    BY <1>2 DEF StateOK, ThreadsTypeOK, vars, locals
  <2> QED
    BY <1>2, <2>1, UnchangedTypes DEF StateOK, vars, shared
<1> QED
  BY <1>1, <1>2, WriteType, ReaderStepType, SyncerStepType DEF Next

(* The offset a writer works at is a natural number. *)
LEMMA WriterOffset ==
  ASSUME TypeOK, NEW t \in Writers
  PROVE  /\ wr[t].curr.data \in Nat /\ wr[t].curr.index \in Nat
         /\ IsBuffer(buffer)
         /\ pc[t] # "idle" => wr[t].buf \in Payloads
BY OwnOffset DEF TypeOK, StateOK

(* The compare-and-swap that succeeds: the new frame is the next entry. *)
LEMMA ClaimFrameFrames ==
  ASSUME TypeOK, NEW t \in Writers, ClaimFrame(t)
  PROVE  FramesTypeOK'
<1> DEFINE curr == wr[t].curr
           p    == wr[t].buf
<1>1. p \in Payloads
  BY WriterOffset DEF ClaimFrame, At
<1>2. w_offset_pair = curr /\ curr \in Pair
  BY DEF ClaimFrame, claim, TypeOK, OffsetsTypeOK
<1>3. /\ w_offset_pair' = [index |-> curr.index + 1, data |-> curr.data + FrameSize(p)]
      /\ frames' = [i \in DOMAIN frames \cup {curr.index} |->
                      IF i = curr.index THEN [data |-> curr.data, payload |-> p] ELSE frames[i]]
  BY DEF ClaimFrame, Claimed, claim
<1>4. DOMAIN frames = 0 .. curr.index - 1 /\ curr.index \in Nat /\ curr.data \in Nat
  BY <1>2 DEF TypeOK, FramesTypeOK, Pair
<1>5. DOMAIN frames' = 0 .. (curr.index + 1) - 1
  BY <1>3, <1>4
<1>6. \A i \in DOMAIN frames' : frames'[i] \in [data : Nat, payload : Payloads]
  BY <1>1, <1>3, <1>4 DEF TypeOK, FramesTypeOK
<1> QED
  BY <1>3, <1>5, <1>6 DEF FramesTypeOK

(* No other step adds a frame, or moves the write index. *)
LEMMA NextFrames == ASSUME TypeOK, [Next]_vars PROVE FramesTypeOK'
<1>1. ASSUME UNCHANGED frames, w_offset_pair'.index = w_offset_pair.index PROVE FramesTypeOK'
  BY <1>1 DEF TypeOK, FramesTypeOK
<1>2. ASSUME NEW t \in Writers, WriterStep(t), ~ ClaimFrame(t), ~ mark_eos(t)
      PROVE  UNCHANGED <<frames, w_offset_pair>>
  BY <1>2 DEF WriterStep, marked_eos, CheckEosFlags, ReadWriteOffset, ClaimLost, CopyToBuffer,
              InitHeader, StoreHeaderField, StoreIndexEntry, InitEosHeader, StoreEosFlags,
              Crashes, shared
<1>3. ASSUME NEW t \in Writers, mark_eos(t)
      PROVE  UNCHANGED frames /\ w_offset_pair'.index = w_offset_pair.index
  BY <1>3 DEF mark_eos, claim
<1>4. ASSUME NEW t \in Writers, NEW p \in Payloads, segment_write(t, p)
      PROVE  UNCHANGED <<frames, w_offset_pair>>
  BY <1>4 DEF segment_write, shared
<1>5. ASSUME NEW t \in Readers, ReaderStep(t) \/ \E rel \in 0 .. MaxWrites - 1 : segment_read(t, rel)
      PROVE  UNCHANGED <<frames, w_offset_pair>>
  BY <1>5 DEF ReaderStep, segment_read, CheckWriteIndex, ReadIndexEntry, ReadFlags, ReadSize,
              Crashes, shared
<1>6. ASSUME NEW t \in Syncers, SyncerStep(t) \/ segment_sync(t)
      PROVE  UNCHANGED <<frames, w_offset_pair>>
  BY <1>6 DEF SyncerStep, segment_sync, SyncDataReadEnd, SyncDataLength, MsyncData, StoreSyncedData,
              SyncIndexReadStart, SyncIndexReadEnd, SyncIndexLength, MsyncIndex, StoreSyncedIndex,
              shared
<1>7. CASE UNCHANGED vars
  BY <1>1, <1>7 DEF vars, shared
<1> QED
  BY <1>1, <1>2, <1>3, <1>4, <1>5, <1>6, <1>7, ClaimFrameFrames DEF Next

(* Every step of the system. *)
LEMMA NextType == ASSUME TypeOK, [Next]_vars PROVE TypeOK'
<1>1. StateOK
  BY DEF TypeOK, StateOK
<1>2. StateOK' /\ FramesTypeOK'
  BY <1>1, NextState, NextFrames
<1> QED
  BY <1>2 DEF TypeOK, StateOK

(* Every variable keeps its type, for any number of threads and any sizes. *)
THEOREM TypeCorrect == Spec => []TypeOK
<1>1. Init => TypeOK
  BY InitTypeOK
<1>2. TypeOK /\ [Next]_vars => TypeOK'
  BY NextType
<1> QED
  BY <1>1, <1>2, PTL DEF Spec

-----------------------------------------------------------------------------
(* FramesDisjoint and ReadCorrect, for any number of producers, consumers  *)
(* and syncing threads.  The invariant behind them says who owns which     *)
(* bytes of the segment: the frames follow one another below the write     *)
(* offset, a writer between its claim and its return stores only to the    *)
(* header of its own frame, an EOS header is apart from every frame, and   *)
(* above the write offset nothing has been stored yet.  From the same      *)
(* invariant, Segment implements OffsetLog.                                *)

Writing   == {"copy", "header_init", "header", "index"}
EosLabels == {"eos_header", "eos_mark"}

(* A writer past its claim holds exactly the frame recorded for its entry. *)
OwnsFrame ==
  \A t \in Writers : pc[t] \in Writing =>
    /\ wr[t].curr.index \in DOMAIN frames
    /\ frames[wr[t].curr.index].data = wr[t].curr.data
    /\ frames[wr[t].curr.index].payload = wr[t].buf

(* The payload is in place before the header is written. *)
PayloadCopied ==
  \A t \in Writers : pc[t] \in Writing \ {"copy"} =>
    HeaderAt(buffer, wr[t].curr.data).payload = wr[t].buf

(* An EOS header that is being written overlaps no frame. *)
EosApart ==
  \A t \in Writers : pc[t] \in EosLabels =>
    /\ wr[t].curr.data + HeaderSize <= w_offset_pair.data
    /\ \A i \in DOMAIN frames : \/ FrameEnd(i) <= wr[t].curr.data
                                \/ wr[t].curr.data + HeaderSize <= frames[i].data

(* Nothing has been stored at or above the write offset. *)
BelowWriteOffset == \A x \in DOMAIN buffer : x < w_offset_pair.data

(* A header that says READY is the header of a frame. *)
ReadyIsFrame ==
  \A x \in DOMAIN buffer : HeaderAt(buffer, x).flags = "READY" =>
    \E i \in DOMAIN frames : frames[i].data = x

(* A header of a frame whose size is set has its payload. *)
SizeMeansWhole ==
  \A i \in DOMAIN frames :
    HeaderAt(buffer, frames[i].data).size # 0 =>
      /\ HeaderAt(buffer, frames[i].data).size = FrameSize(frames[i].payload)
      /\ HeaderAt(buffer, frames[i].data).payload = frames[i].payload

(* An index entry that is not zero has the offset of its frame. *)
IndexPointsToFrame ==
  \A i \in Entry : index[i] # 0 => i \in DOMAIN frames /\ index[i] = frames[i].data

(* A reader's index lookup led to its frame, or to offset 0 when the entry *)
(* of relative offset 0 has not been stored.                               *)
ReaderOnFrame ==
  \A t \in Readers :
    /\ pc[t] # "idle" => rd[t].rc < 0
    /\ pc[t] \in {"read_entry", "read_flags", "read_size"} => rd[t].rel \in DOMAIN frames
    /\ pc[t] = "read_flags" =>
         \/ rd[t].phys = frames[rd[t].rel].data
         \/ rd[t].rel = 0 /\ rd[t].phys = 0
    /\ pc[t] = "read_size" => rd[t].phys = frames[rd[t].rel].data

ReadInv ==
  /\ TypeOK
  /\ FramesDisjoint /\ OwnsFrame /\ PayloadCopied /\ EosApart
  /\ BelowWriteOffset /\ ReadyIsFrame /\ SizeMeansWhole /\ IndexPointsToFrame
  /\ ReaderOnFrame /\ ReadCorrect

-----------------------------------------------------------------------------
(* Consequences of the invariant that the steps below need. *)

(* The types of a frame's entry, offset, payload and end. *)
LEMMA FrameFacts ==
  ASSUME TypeOK, NEW i \in DOMAIN frames
  PROVE  /\ i \in Nat
         /\ frames[i].data \in Nat
         /\ frames[i].payload \in Payloads
         /\ FrameEnd(i) \in Nat
         /\ FrameEnd(i) = frames[i].data + FrameSize(frames[i].payload)
         /\ FrameSize(frames[i].payload) \in Nat
         /\ FrameEnd(i) >= frames[i].data + 12
<1>1. w_offset_pair.index \in Nat
  BY DEF TypeOK, OffsetsTypeOK, Pair
<1>2. frames[i] \in [data : Nat, payload : Payloads] /\ i \in Nat
  BY <1>1 DEF TypeOK, FramesTypeOK
<1>3. FrameSize(frames[i].payload) \in Nat /\ FrameSize(frames[i].payload) >= 12
  BY <1>2, FrameSizeType
<1> QED
  BY <1>2, <1>3 DEF FrameEnd

(* Two frames are one behind the other. *)
LEMMA FramesApart ==
  ASSUME TypeOK, FramesDisjoint, NEW i \in DOMAIN frames, NEW j \in DOMAIN frames, i # j
  PROVE  FrameEnd(i) <= frames[j].data \/ FrameEnd(j) <= frames[i].data
<1>1. i \in Nat /\ j \in Nat
  BY FrameFacts
<1>2. i < j \/ j < i
  BY <1>1
<1> QED
  BY <1>2 DEF FramesDisjoint

(* Only the frame's own entry starts where it starts. *)
LEMMA FrameUnique ==
  ASSUME TypeOK, FramesDisjoint, NEW i \in DOMAIN frames, NEW j \in DOMAIN frames,
         frames[i].data = frames[j].data
  PROVE  i = j
<1> SUFFICES ASSUME i # j PROVE FALSE
  OBVIOUS
<1>1. FrameEnd(i) >= frames[i].data + 12 /\ FrameEnd(j) >= frames[j].data + 12
  BY FrameFacts
<1>2. FrameEnd(i) \in Nat /\ FrameEnd(j) \in Nat /\ frames[i].data \in Nat /\ frames[j].data \in Nat
  BY FrameFacts
<1> QED
  BY <1>1, <1>2, FramesApart

(* The frame a writer is writing. *)
LEMMA OwnerFacts ==
  ASSUME ReadInv, NEW t \in Writers, pc[t] \in Writing
  PROVE  /\ wr[t].curr.index \in DOMAIN frames
         /\ frames[wr[t].curr.index].data = wr[t].curr.data
         /\ frames[wr[t].curr.index].payload = wr[t].buf
         /\ wr[t].curr.data \in Nat /\ wr[t].curr.index \in Nat
         /\ wr[t].buf \in Payloads
         /\ FrameSize(wr[t].buf) \in Nat /\ FrameSize(wr[t].buf) = 12 + SizeOf[wr[t].buf]
         /\ SizeOf[wr[t].buf] \in Nat
         /\ wr[t].curr.data + FrameSize(wr[t].buf) <= w_offset_pair.data
         /\ w_offset_pair.data \in Nat
<1>1. /\ wr[t].curr.index \in DOMAIN frames
      /\ frames[wr[t].curr.index].data = wr[t].curr.data
      /\ frames[wr[t].curr.index].payload = wr[t].buf
  BY DEF ReadInv, OwnsFrame
<1>2. TypeOK /\ w_offset_pair.data \in Nat
  BY DEF ReadInv, TypeOK, OffsetsTypeOK, Pair
<1>3. wr[t].buf \in Payloads /\ wr[t].curr.data \in Nat /\ wr[t].curr.index \in Nat
  BY <1>2, WriterOffset DEF Writing
<1>4. FrameEnd(wr[t].curr.index) <= w_offset_pair.data
  BY <1>1 DEF ReadInv, FramesDisjoint
<1> QED
  BY <1>1, <1>2, <1>3, <1>4, FrameSizeType DEF FrameEnd

-----------------------------------------------------------------------------
(* Steps that touch neither the maps nor the offsets of the frames. *)

(* An empty segment has no frames and nobody in a call. *)
LEMMA InitReadInv == Init => ReadInv
<1> SUFFICES ASSUME Init PROVE ReadInv
  OBVIOUS
<1>1. TypeOK
  BY InitTypeOK
<1>2. DOMAIN frames = {} /\ DOMAIN buffer = {} /\ \A i \in Entry : index[i] = 0
  BY DEF Init
<1>3. /\ \A t \in Writers : pc[t] = "idle"
      /\ \A t \in Readers : pc[t] = "idle" /\ rd[t].rc < 0
  BY DEF Init, Threads, ELNORD
<1>4. FramesDisjoint /\ SizeMeansWhole /\ IndexPointsToFrame
  BY <1>2 DEF FramesDisjoint, SizeMeansWhole, IndexPointsToFrame
<1>5. BelowWriteOffset /\ ReadyIsFrame
  BY <1>2 DEF BelowWriteOffset, ReadyIsFrame
<1>6. OwnsFrame /\ PayloadCopied /\ EosApart
  BY <1>3 DEF OwnsFrame, PayloadCopied, EosApart, Writing, EosLabels
<1>7. ReaderOnFrame
  BY <1>3 DEF ReaderOnFrame
<1>8. ReadCorrect
  <2>1. \A t \in Readers : ~ (rd[t].rc >= 0)
    BY DEF Init, ELNORD
  <2> QED
    BY <2>1 DEF ReadCorrect
<1> QED
  BY <1>1, <1>4, <1>5, <1>6, <1>7, <1>8 DEF ReadInv

(* The writers' and the memory's part of the invariant. *)
MemoryInv ==
  /\ FramesDisjoint /\ OwnsFrame /\ PayloadCopied /\ EosApart
  /\ BelowWriteOffset /\ ReadyIsFrame /\ SizeMeansWhole /\ IndexPointsToFrame

(* A step that leaves the memory and the reservations alone. *)
LEMMA MemoryKept ==
  ASSUME ReadInv, UNCHANGED <<w_offset_pair, index, buffer, frames>>,
         \A u \in Writers : pc'[u] \in Writing \cup EosLabels =>
                               pc'[u] = pc[u] /\ wr'[u] = wr[u]
  PROVE  MemoryInv'
<1> USE DEF ReadInv
<1>1. FramesDisjoint' /\ BelowWriteOffset' /\ ReadyIsFrame' /\ SizeMeansWhole' /\ IndexPointsToFrame'
  BY DEF FramesDisjoint, BelowWriteOffset, ReadyIsFrame, SizeMeansWhole, IndexPointsToFrame, FrameEnd
<1>2. OwnsFrame'
  BY DEF OwnsFrame
<1>3. PayloadCopied'
  BY DEF PayloadCopied
<1>4. EosApart'
  BY DEF EosApart, FrameEnd
<1> QED
  BY <1>1, <1>2, <1>3, <1>4 DEF MemoryInv

(* Steps that leave the frames and their payloads in place do not disturb  *)
(* the readers.                                                            *)
LEMMA ReadersKept ==
  ASSUME ReadInv, UNCHANGED rd, \A u \in Readers : pc'[u] = pc[u],
         DOMAIN frames \subseteq DOMAIN frames',
         \A i \in DOMAIN frames : frames'[i] = frames[i],
         \A i \in DOMAIN frames :
            HeaderAt(buffer, frames[i].data).payload = frames[i].payload =>
              HeaderAt(buffer', frames[i].data).payload = frames[i].payload
  PROVE  ReaderOnFrame' /\ ReadCorrect'
<1> USE DEF ReadInv
<1>1. ReaderOnFrame'
  BY DEF ReaderOnFrame
<1>2. ReadCorrect'
  BY DEF ReadCorrect
<1> QED
  BY <1>1, <1>2

(* The same, for a step of a writer or a syncing thread. *)
LEMMA QuietStep ==
  ASSUME ReadInv, TypeOK', UNCHANGED <<w_offset_pair, index, buffer, frames, rd>>,
         \A u \in Readers : pc'[u] = pc[u],
         \A u \in Writers : pc'[u] \in Writing \cup EosLabels =>
                               pc'[u] = pc[u] /\ wr'[u] = wr[u]
  PROVE  ReadInv'
<1>1. MemoryInv'
  BY MemoryKept
<1>2. ReaderOnFrame' /\ ReadCorrect'
  BY ReadersKept
<1> QED
  BY <1>1, <1>2 DEF ReadInv, MemoryInv

(* An access outside the maps changes nothing that is modelled. *)
LEMMA CrashesRead ==
  ASSUME ReadInv, TypeOK', Crashes
  PROVE  ReadInv'
BY QuietStep DEF Crashes, shared, locals

(* A thread's step changes no other thread's program counter. *)
LEMMA OthersStay ==
  ASSUME TypeOK, NEW t \in Threads, NEW label, Goto(t, label)
  PROVE  pc'[t] = label /\ \A u \in Threads : u # t => pc'[u] = pc[u]
BY DEF TypeOK, ThreadsTypeOK, Goto

(* A writer before its claim, or on its way out, owns nothing. *)
LEMMA WriterBeforeClaim ==
  ASSUME ReadInv, TypeOK', NEW t \in Writers,
         NEW label \in WriterLabels \ (Writing \cup EosLabels), Goto(t, label),
         UNCHANGED <<w_offset_pair, index, buffer, frames, rd>>,
         \A u \in Writers : u # t => wr'[u] = wr[u]
  PROVE  ReadInv'
<1>1. pc'[t] = label /\ \A u \in Threads : u # t => pc'[u] = pc[u]
  BY OthersStay DEF ReadInv, Threads
<1>2. \A u \in Readers : pc'[u] = pc[u]
  BY <1>1, ThreadAssumption DEF Threads
<1>3. \A u \in Writers : pc'[u] \in Writing \cup EosLabels => pc'[u] = pc[u] /\ wr'[u] = wr[u]
  BY <1>1 DEF Threads
<1> QED
  BY <1>2, <1>3, QuietStep

(* The steps of segment_write up to its reservation. *)
LEMMA WriterQuietSteps ==
  ASSUME ReadInv, TypeOK', NEW t \in Writers,
         \/ \E p \in Payloads : segment_write(t, p)
         \/ marked_eos(t) \/ CheckEosFlags(t) \/ ReadWriteOffset(t) \/ ClaimLost(t)
  PROVE  ReadInv'
<1>0. wr \in [Writers -> WriterState]
  BY DEF ReadInv, TypeOK, ThreadsTypeOK
<1>l. {"idle", "marked_eos", "eos_flags", "curr", "claim", "mark_eos"} \subseteq
         WriterLabels \ (Writing \cup EosLabels)
  BY DEF WriterLabels, Writing, EosLabels
<1>1. CASE \E p \in Payloads : segment_write(t, p)
  BY <1>0, <1>l, <1>1, WriterBeforeClaim DEF segment_write, shared
<1>2. CASE marked_eos(t)
  BY <1>0, <1>l, <1>2, WriterBeforeClaim DEF marked_eos, shared
<1>3. CASE CheckEosFlags(t)
  BY <1>0, <1>l, <1>3, WriterBeforeClaim DEF CheckEosFlags, WriteReturns, shared
<1>4. CASE ReadWriteOffset(t)
  BY <1>0, <1>l, <1>4, WriterBeforeClaim DEF ReadWriteOffset, shared
<1>5. CASE ClaimLost(t)
  BY <1>0, <1>l, <1>5, WriterBeforeClaim DEF ClaimLost, WriteReturns, shared
<1> QED
  BY <1>1, <1>2, <1>3, <1>4, <1>5

(* segment_sync touches only the sync offsets and the disk. *)
LEMMA SyncerShape ==
  ASSUME TypeOK, NEW t \in Syncers, SyncerStep(t) \/ segment_sync(t)
  PROVE  /\ UNCHANGED <<w_offset_pair, index, buffer, frames, rd, wr>>
         /\ \A u \in Readers \cup Writers : pc'[u] = pc[u]
<1>1. UNCHANGED <<w_offset_pair, index, buffer, frames, rd, wr>>
  BY DEF SyncerStep, segment_sync, SyncDataReadEnd, SyncDataLength, MsyncData, StoreSyncedData,
         SyncIndexReadStart, SyncIndexReadEnd, SyncIndexLength, MsyncIndex, StoreSyncedIndex, shared
<1>2. \E label : Goto(t, label)
  <2>1. CASE segment_sync(t) \/ SyncDataReadEnd(t) \/ SyncDataLength(t)
    BY <2>1 DEF segment_sync, SyncDataReadEnd, SyncDataLength
  <2>2. CASE MsyncData(t) \/ StoreSyncedData(t)
    BY <2>2 DEF MsyncData, StoreSyncedData, SyncReturns
  <2>3. CASE SyncIndexReadStart(t) \/ SyncIndexReadEnd(t) \/ SyncIndexLength(t)
    BY <2>3 DEF SyncIndexReadStart, SyncIndexReadEnd, SyncIndexLength
  <2>4. CASE MsyncIndex(t) \/ StoreSyncedIndex(t)
    BY <2>4 DEF MsyncIndex, StoreSyncedIndex, SyncReturns
  <2> QED
    BY <2>1, <2>2, <2>3, <2>4 DEF SyncerStep
<1>3. \A u \in Readers \cup Writers : pc'[u] = pc[u]
  BY <1>2, OthersStay, ThreadAssumption DEF Threads
<1> QED
  BY <1>1, <1>3

(* So it keeps the invariant. *)
LEMMA SyncerRead ==
  ASSUME ReadInv, TypeOK', NEW t \in Syncers, SyncerStep(t) \/ segment_sync(t)
  PROVE  ReadInv'
<1>1. /\ UNCHANGED <<w_offset_pair, index, buffer, frames, rd, wr>>
      /\ \A u \in Readers \cup Writers : pc'[u] = pc[u]
  BY SyncerShape DEF ReadInv
<1> QED
  BY <1>1, QuietStep

(* segment_read touches nothing but the reader's locals. *)
LEMMA ReaderShape ==
  ASSUME TypeOK, NEW t \in Readers,
         ReaderStep(t) \/ \E rel \in 0 .. MaxWrites - 1 : segment_read(t, rel)
  PROVE  /\ UNCHANGED <<w_offset_pair, s_offset_pair, index, buffer, disk, frames, wr, sy>>
         /\ \A u \in Writers \cup Syncers : pc'[u] = pc[u]
<1>1. UNCHANGED <<w_offset_pair, s_offset_pair, index, buffer, disk, frames, wr, sy>>
  BY DEF ReaderStep, segment_read, CheckWriteIndex, ReadIndexEntry, ReadFlags, ReadSize,
         Crashes, shared, locals
<1>2. (\E label : Goto(t, label)) \/ UNCHANGED pc
  BY DEF ReaderStep, segment_read, CheckWriteIndex, ReadIndexEntry, ReadFlags, ReadSize,
         ReadReturns, Crashes
<1>3. \A u \in Writers \cup Syncers : pc'[u] = pc[u]
  BY <1>2, OthersStay, ThreadAssumption DEF Threads
<1> QED
  BY <1>1, <1>3

-----------------------------------------------------------------------------
(* The steps of segment_read. *)

(* What is left to show for a step of a reader. *)
LEMMA ReaderFrame ==
  ASSUME ReadInv, TypeOK', NEW t \in Readers, NEW label, Goto(t, label),
         UNCHANGED <<w_offset_pair, index, buffer, frames, wr>>,
         \A u \in Readers : u # t => rd'[u] = rd[u],
         label # "idle" => rd'[t].rc < 0,
         label \in {"read_entry", "read_flags", "read_size"} => rd'[t].rel \in DOMAIN frames,
         label = "read_flags" => \/ rd'[t].phys = frames[rd'[t].rel].data
                                 \/ rd'[t].rel = 0 /\ rd'[t].phys = 0,
         label = "read_size" => rd'[t].phys = frames[rd'[t].rel].data,
         rd'[t].rc >= 0 =>
           /\ rd'[t].rel \in DOMAIN frames
           /\ rd'[t].phys = frames[rd'[t].rel].data
           /\ rd'[t].rc = SizeOf[frames[rd'[t].rel].payload]
           /\ HeaderAt(buffer, rd'[t].phys).payload = frames[rd'[t].rel].payload
  PROVE  ReadInv'
<1>1. pc'[t] = label /\ \A u \in Threads : u # t => pc'[u] = pc[u]
  BY OthersStay DEF ReadInv, Threads
<1>2. \A u \in Writers : pc'[u] = pc[u]
  BY <1>1, ThreadAssumption DEF Threads
<1>3. MemoryInv'
  BY <1>2, MemoryKept
<1>4. ReaderOnFrame'
  BY <1>1 DEF ReadInv, ReaderOnFrame, Threads
<1>5. ReadCorrect'
  BY DEF ReadInv, ReadCorrect
<1> QED
  BY <1>3, <1>4, <1>5 DEF ReadInv, MemoryInv

(* Every step of segment_read. *)
LEMMA ReaderRead ==
  ASSUME ReadInv, TypeOK', NEW t \in Readers,
         ReaderStep(t) \/ \E rel \in 0 .. MaxWrites - 1 : segment_read(t, rel)
  PROVE  ReadInv'
<1>0. TypeOK /\ rd \in [Readers -> ReaderState] /\ rd[t] \in ReaderState
  BY DEF ReadInv, TypeOK, ThreadsTypeOK
<1>1. ASSUME NEW rel \in 0 .. MaxWrites - 1, segment_read(t, rel) PROVE ReadInv'
  <2>1. rd'[t].rc = -12 /\ \A u \in Readers : u # t => rd'[u] = rd[u]
    BY <1>0, <1>1 DEF segment_read, ELNORD
  <2>2. /\ Goto(t, "read_offset")
        /\ UNCHANGED <<w_offset_pair, index, buffer, frames, wr>>
    BY <1>1 DEF segment_read, shared
  <2> QED
    BY <2>1, <2>2, ReaderFrame
<1>2. ASSUME NEW rc \in Int, rc < 0, ReadReturns(t, rc),
             UNCHANGED <<w_offset_pair, index, buffer, frames, wr>>
      PROVE  ReadInv'
  <2>1. rd'[t].rc = rc /\ \A u \in Readers : u # t => rd'[u] = rd[u]
    BY <1>0, <1>2 DEF ReadReturns, ReaderState
  <2> QED
    BY <1>2, <2>1, ReaderFrame DEF ReadReturns
<1>3. CASE CheckWriteIndex(t)
  <2>1. CASE rd[t].rel >= w_offset_pair.index
    BY <1>2, <1>3, <2>1 DEF CheckWriteIndex, ELNORD, shared
  <2>2. CASE ~ (rd[t].rel >= w_offset_pair.index)
    <3>1. rd[t].rel \in DOMAIN frames
      BY <1>0, <2>2 DEF TypeOK, FramesTypeOK, OffsetsTypeOK, Pair, ReaderState
    <3>2. rd[t].rc < 0
      BY <1>3 DEF CheckWriteIndex, At, ReadInv, ReaderOnFrame
    <3>3. Goto(t, "read_entry") /\ UNCHANGED <<w_offset_pair, index, buffer, frames, wr, rd>>
      BY <1>3, <2>2 DEF CheckWriteIndex, shared
    <3>4. rd[t].rc \in Int
      BY <1>0 DEF ReaderState
    <3> QED
      BY <3>1, <3>2, <3>3, <3>4, ReaderFrame
  <2> QED
    BY <2>1, <2>2
<1>4. CASE ReadIndexEntry(t)
  <2> DEFINE rel == rd[t].rel
  <2>0. rel \in DOMAIN frames /\ rd[t].rc < 0 /\ rd[t].rc \in Int
    BY <1>0, <1>4 DEF ReadIndexEntry, At, ReadInv, ReaderOnFrame, ReaderState
  <2>1. CASE rel \notin Entry
    BY <1>4, <2>1, CrashesRead DEF ReadIndexEntry
  <2>2. CASE rel \in Entry /\ ((rel # 0 /\ index[rel] = 0) \/ index[rel] >= rd[t].boundary)
    BY <1>2, <1>4, <2>2 DEF ReadIndexEntry, EntryUnset, ELNORD, shared
  <2>3. CASE rel \in Entry /\ ~ ((rel # 0 /\ index[rel] = 0) \/ index[rel] >= rd[t].boundary)
    <3>1. /\ rd' = [rd EXCEPT ![t].phys = index[rel]]
          /\ Goto(t, "read_flags")
          /\ UNCHANGED <<w_offset_pair, index, buffer, frames, wr>>
      BY <1>4, <2>3 DEF ReadIndexEntry, EntryUnset, shared
    <3>2. /\ rd'[t].rel = rel /\ rd'[t].phys = index[rel] /\ rd'[t].rc = rd[t].rc
          /\ \A u \in Readers : u # t => rd'[u] = rd[u]
      BY <1>0, <3>1 DEF ReaderState
    <3>3. index[rel] # 0 => index[rel] = frames[rel].data
      BY <2>3 DEF ReadInv, IndexPointsToFrame
    <3> QED
      BY <2>0, <2>3, <3>1, <3>2, <3>3, ReaderFrame
  <2> QED
    BY <2>1, <2>2, <2>3
<1>5. CASE ReadFlags(t)
  <2> DEFINE hdr == HeaderAt(buffer, rd[t].phys)
  <2>1. CASE hdr.flags = "READY"
    <3>1. Goto(t, "read_size") /\ UNCHANGED <<w_offset_pair, index, buffer, frames, wr, rd>>
      BY <1>5, <2>1 DEF ReadFlags, shared
    <3>2. /\ rd[t].rel \in DOMAIN frames /\ rd[t].rc < 0 /\ rd[t].rc \in Int
          /\ rd[t].phys = frames[rd[t].rel].data \/ (rd[t].rel = 0 /\ rd[t].phys = 0)
      BY <1>0, <1>5 DEF ReadFlags, At, ReadInv, ReaderOnFrame, ReaderState
    <3>3. rd[t].phys \in DOMAIN buffer
      BY <2>1 DEF HeaderAt, ZeroHeader
    <3>4. PICK i \in DOMAIN frames : frames[i].data = rd[t].phys
      BY <2>1, <3>3 DEF ReadInv, ReadyIsFrame
    <3>5. rd[t].phys = frames[rd[t].rel].data
      <4> SUFFICES ASSUME rd[t].rel = 0, rd[t].phys = 0 PROVE i = 0
        BY <3>2, <3>4
      <4>1. i \in Nat /\ 0 \in DOMAIN frames
        BY <1>0, <3>2, FrameFacts
      <4>2. FrameEnd(0) >= frames[0].data + 12 /\ frames[0].data \in Nat /\ FrameEnd(0) \in Nat
        BY <1>0, <4>1, FrameFacts
      <4>3. 0 < i => FrameEnd(0) <= frames[i].data
        BY <4>1 DEF ReadInv, FramesDisjoint
      <4> QED
        BY <3>4, <4>1, <4>2, <4>3
    <3> QED
      BY <3>1, <3>2, <3>5, ReaderFrame
  <2>2. CASE hdr.flags # "READY"
    <3>1. ReadReturns(t, ELEOS) \/ ReadReturns(t, ELINVHD)
      BY <1>5, <2>2 DEF ReadFlags
    <3> QED
      BY <1>2, <1>5, <3>1 DEF ReadFlags, shared, ELEOS, ELINVHD
  <2> QED
    BY <2>1, <2>2
<1>6. CASE ReadSize(t)
  <2> DEFINE i   == rd[t].rel
             hdr == HeaderAt(buffer, rd[t].phys)
             rc  == hdr.size - HeaderSize
  <2>1. i \in DOMAIN frames /\ rd[t].phys = frames[i].data
    BY <1>6 DEF ReadSize, At, ReadInv, ReaderOnFrame
  <2>2. hdr \in Header
    BY <1>0, HeaderAtType DEF TypeOK, MapsTypeOK, IsBuffer
  <2>3. hdr.size \in Nat /\ rc \in Int
    BY <2>2 DEF Header, HeaderSize
  <2>4. ReadReturns(t, rc) /\ UNCHANGED <<w_offset_pair, index, buffer, frames, wr>>
    BY <1>6 DEF ReadSize, shared
  <2>5. CASE hdr.size = 0
    <3>1. rc < 0
      BY <2>5 DEF HeaderSize
    <3> QED
      BY <1>2, <2>3, <2>4, <3>1
  <2>6. CASE hdr.size # 0
    <3>1. hdr.size = FrameSize(frames[i].payload) /\ hdr.payload = frames[i].payload
      BY <2>1, <2>6 DEF ReadInv, SizeMeansWhole
    <3>2. frames[i].payload \in Payloads
      BY <1>0, <2>1, FrameFacts
    <3>3. rc = SizeOf[frames[i].payload]
      BY <3>1, <3>2, FrameSizeType DEF HeaderSize
    <3>4. /\ rd'[t].rel = i /\ rd'[t].phys = rd[t].phys /\ rd'[t].rc = rc
          /\ \A u \in Readers : u # t => rd'[u] = rd[u]
      BY <1>0, <2>3, <2>4 DEF ReadReturns, ReaderState
    <3> QED
      BY <2>1, <2>4, <3>1, <3>3, <3>4, ReaderFrame DEF ReadReturns
  <2> QED
    BY <2>5, <2>6
<1> QED
  BY <1>1, <1>3, <1>4, <1>5, <1>6 DEF ReaderStep

-----------------------------------------------------------------------------
(* The steps of segment_write after its claim. *)

(* A writer's step leaves the other threads where they are. *)
LEMMA WriterMoves ==
  ASSUME TypeOK, NEW t \in Writers, NEW label, Goto(t, label)
  PROVE  /\ pc'[t] = label
         /\ \A u \in Writers : u # t => pc'[u] = pc[u]
         /\ \A u \in Readers : pc'[u] = pc[u]
BY OthersStay, ThreadAssumption DEF Threads

(* The reservation of a frame: it begins at the old write offset. *)
LEMMA ClaimFrameRead ==
  ASSUME ReadInv, TypeOK', NEW t \in Writers, ClaimFrame(t)
  PROVE  ReadInv'
<1> DEFINE curr == wr[t].curr
           p    == wr[t].buf
<1>0. PICK new : new = wr[t].curr.index
  OBVIOUS
<1>1. /\ w_offset_pair = curr
      /\ w_offset_pair' = [index |-> curr.index + 1, data |-> curr.data + FrameSize(p)]
      /\ frames' = [i \in DOMAIN frames \cup {new} |->
                      IF i = new THEN [data |-> curr.data, payload |-> p] ELSE frames[i]]
      /\ UNCHANGED <<index, buffer, wr, rd>>
  BY <1>0 DEF ClaimFrame, Claimed, claim, locals
<1>2. TypeOK /\ curr.data \in Nat /\ new \in Nat /\ p \in Payloads
  BY <1>0, WriterOffset DEF ReadInv, ClaimFrame, At
<1>3. FrameSize(p) \in Nat /\ FrameSize(p) >= 12
  BY <1>2, FrameSizeType
<1>4. DOMAIN frames = 0 .. new - 1
  BY <1>0, <1>1, <1>2 DEF TypeOK, FramesTypeOK
<1>5. /\ pc'[t] = "copy"
      /\ \A u \in Writers : u # t => pc'[u] = pc[u]
      /\ \A u \in Readers : pc'[u] = pc[u]
  BY <1>2, WriterMoves DEF ClaimFrame
<1>6. /\ DOMAIN frames' = DOMAIN frames \cup {new} /\ new \notin DOMAIN frames
      /\ frames'[new].data = curr.data /\ frames'[new].payload = p
      /\ \A i \in DOMAIN frames : frames'[i] = frames[i]
  BY <1>1, <1>2, <1>4
<1>7. w_offset_pair'.data = curr.data + FrameSize(p) /\ w_offset_pair.data = curr.data
  BY <1>1
<1>8. /\ \A i \in DOMAIN frames : (FrameEnd(i))' = FrameEnd(i)
      /\ (FrameEnd(new))' = curr.data + FrameSize(p)
  BY <1>6 DEF FrameEnd
<1>9. \A i \in DOMAIN frames : FrameEnd(i) <= curr.data /\ i < new
                                 /\ FrameEnd(i) \in Nat /\ frames[i].data \in Nat /\ i \in Nat
  BY <1>2, <1>4, <1>7, FrameFacts DEF ReadInv, FramesDisjoint
<1>10. FramesDisjoint'
  <2> SUFFICES ASSUME NEW i \in DOMAIN frames'
               PROVE  /\ (FrameEnd(i))' <= w_offset_pair'.data
                      /\ \A j \in DOMAIN frames' : i < j => (FrameEnd(i))' <= frames'[j].data
    BY DEF FramesDisjoint
  <2>1. CASE i = new
    BY <2>1, <1>2, <1>3, <1>6, <1>7, <1>8, <1>9
  <2>2. CASE i \in DOMAIN frames
    <3>1. \A j \in DOMAIN frames : i < j => FrameEnd(i) <= frames[j].data
      BY <2>2 DEF ReadInv, FramesDisjoint
    <3> QED
      BY <2>2, <3>1, <1>2, <1>3, <1>6, <1>7, <1>8, <1>9
  <2> QED
    BY <2>1, <2>2, <1>6
<1>11. OwnsFrame'
  BY <1>0, <1>1, <1>5, <1>6 DEF ReadInv, OwnsFrame
<1>12. PayloadCopied'
  BY <1>1, <1>5 DEF ReadInv, PayloadCopied, Writing
<1>13. EosApart'
  <2> SUFFICES ASSUME NEW u \in Writers, pc'[u] \in EosLabels
               PROVE  /\ wr'[u].curr.data + HeaderSize <= w_offset_pair'.data
                      /\ \A i \in DOMAIN frames' :
                           \/ (FrameEnd(i))' <= wr'[u].curr.data
                           \/ wr'[u].curr.data + HeaderSize <= frames'[i].data
    BY DEF EosApart
  <2>1. u # t /\ pc[u] \in EosLabels /\ wr'[u] = wr[u]
    BY <1>1, <1>5 DEF EosLabels
  <2>2. /\ wr[u].curr.data + HeaderSize <= curr.data
        /\ \A i \in DOMAIN frames : \/ FrameEnd(i) <= wr[u].curr.data
                                    \/ wr[u].curr.data + HeaderSize <= frames[i].data
    BY <2>1, <1>7 DEF ReadInv, EosApart
  <2>3. wr[u].curr.data + HeaderSize \in Nat
    BY <1>2, WriterOffset DEF HeaderSize
  <2> QED
    BY <2>1, <2>2, <2>3, <1>2, <1>3, <1>6, <1>7, <1>8
<1>14. BelowWriteOffset'
  BY <1>1, <1>2, <1>3, <1>7 DEF ReadInv, BelowWriteOffset, TypeOK, MapsTypeOK, IsBuffer
<1>15. ReadyIsFrame'
  BY <1>1, <1>6 DEF ReadInv, ReadyIsFrame
<1>16. SizeMeansWhole'
  <2>1. curr.data \notin DOMAIN buffer
    BY <1>2, <1>7 DEF ReadInv, BelowWriteOffset
  <2>2. HeaderAt(buffer, curr.data).size = 0
    BY <2>1 DEF HeaderAt, ZeroHeader
  <2> QED
    BY <2>2, <1>1, <1>6 DEF ReadInv, SizeMeansWhole
<1>17. IndexPointsToFrame'
  BY <1>1, <1>6 DEF ReadInv, IndexPointsToFrame
<1>18. ReaderOnFrame' /\ ReadCorrect'
  BY <1>1, <1>5, <1>6, ReadersKept
<1> QED
  BY <1>10, <1>11, <1>12, <1>13, <1>14, <1>15, <1>16, <1>17, <1>18 DEF ReadInv

(* The reservation of an EOS header: it overlaps no frame. *)
LEMMA MarkEosRead ==
  ASSUME ReadInv, TypeOK', NEW t \in Writers, mark_eos(t)
  PROVE  ReadInv'
<1> DEFINE curr == wr[t].curr
<1>1. /\ w_offset_pair = curr
      /\ w_offset_pair'.data = curr.data + 12
      /\ UNCHANGED <<index, buffer, frames, wr, rd>>
  BY DEF mark_eos, claim, locals, HeaderSize
<1>2. TypeOK /\ curr.data \in Nat
  BY WriterOffset DEF ReadInv
<1>3. /\ pc'[t] = "eos_header"
      /\ \A u \in Writers : u # t => pc'[u] = pc[u]
      /\ \A u \in Readers : pc'[u] = pc[u]
  BY <1>2, WriterMoves DEF mark_eos
<1>4. \A i \in DOMAIN frames : FrameEnd(i) <= curr.data /\ FrameEnd(i) \in Nat
  BY <1>1, <1>2, FrameFacts DEF ReadInv, FramesDisjoint
<1>5. FramesDisjoint'
  BY <1>1, <1>2, <1>4 DEF ReadInv, FramesDisjoint, FrameEnd
<1>6. OwnsFrame' /\ PayloadCopied'
  BY <1>1, <1>3 DEF ReadInv, OwnsFrame, PayloadCopied, Writing
<1>7. EosApart'
  <2> SUFFICES ASSUME NEW u \in Writers, pc'[u] \in EosLabels
               PROVE  /\ wr[u].curr.data + 12 <= curr.data + 12
                      /\ \A i \in DOMAIN frames : \/ FrameEnd(i) <= wr[u].curr.data
                                                  \/ wr[u].curr.data + 12 <= frames[i].data
    BY <1>1 DEF EosApart, FrameEnd, HeaderSize
  <2>1. CASE u = t
    BY <2>1, <1>2, <1>4
  <2>2. CASE u # t
    <3>1. wr[u].curr.data + 12 <= curr.data
      BY <2>2, <1>1, <1>3 DEF ReadInv, EosApart, HeaderSize
    <3>2. wr[u].curr.data \in Nat
      BY <1>2, WriterOffset
    <3> QED
      BY <2>2, <3>1, <3>2, <1>2, <1>3 DEF ReadInv, EosApart, HeaderSize
  <2> QED
    BY <2>1, <2>2
<1>8. BelowWriteOffset'
  BY <1>1, <1>2 DEF ReadInv, BelowWriteOffset, TypeOK, MapsTypeOK, IsBuffer
<1>9. ReadyIsFrame' /\ SizeMeansWhole' /\ IndexPointsToFrame'
  BY <1>1 DEF ReadInv, ReadyIsFrame, SizeMeansWhole, IndexPointsToFrame
<1>10. ReaderOnFrame' /\ ReadCorrect'
  BY <1>1, <1>3, ReadersKept
<1> QED
  BY <1>5, <1>6, <1>7, <1>8, <1>9, <1>10 DEF ReadInv

(* A step that stores into the data map, and what it may change: headers   *)
(* of no frame but the writer's own, a size only together with its         *)
(* payload, READY only in the header of a frame.                           *)
LEMMA BufferStore ==
  ASSUME ReadInv, TypeOK', NEW t \in Writers, NEW label \in WriterLabels, Goto(t, label),
         UNCHANGED <<w_offset_pair, index, frames, rd>>,
         \A u \in Writers : u # t => wr'[u] = wr[u],
         label \in Writing =>
           /\ pc[t] \in Writing /\ wr'[t].curr = wr[t].curr /\ wr'[t].buf = wr[t].buf
           /\ label # "copy"
           /\ HeaderAt(buffer', wr[t].curr.data).payload = wr[t].buf,
         label \in EosLabels => pc[t] \in EosLabels /\ wr'[t].curr = wr[t].curr,
         \A x \in DOMAIN buffer' : x \in Nat /\ x < w_offset_pair.data,
         \A i \in DOMAIN frames :
           \/ HeaderAt(buffer', frames[i].data) = HeaderAt(buffer, frames[i].data)
           \/ /\ HeaderAt(buffer', frames[i].data).payload = frames[i].payload
              /\ HeaderAt(buffer', frames[i].data).size \in
                    {HeaderAt(buffer, frames[i].data).size, FrameSize(frames[i].payload)},
         \A x \in DOMAIN buffer' : HeaderAt(buffer', x).flags = "READY" =>
           \E i \in DOMAIN frames : frames[i].data = x
  PROVE  ReadInv'
<1>0. TypeOK
  BY DEF ReadInv
<1>1. /\ pc'[t] = label
      /\ \A u \in Writers : u # t => pc'[u] = pc[u]
      /\ \A u \in Readers : pc'[u] = pc[u]
  BY <1>0, WriterMoves
<1>2. FramesDisjoint' /\ IndexPointsToFrame' /\ BelowWriteOffset' /\ ReadyIsFrame'
  BY DEF ReadInv, FramesDisjoint, IndexPointsToFrame, BelowWriteOffset, ReadyIsFrame, FrameEnd
<1>3. SizeMeansWhole'
  BY DEF ReadInv, SizeMeansWhole
<1>4. OwnsFrame'
  BY <1>1 DEF ReadInv, OwnsFrame
<1>5. PayloadCopied'
  <2> SUFFICES ASSUME NEW u \in Writers, pc'[u] \in Writing \ {"copy"}
               PROVE  HeaderAt(buffer', wr'[u].curr.data).payload = wr'[u].buf
    BY DEF PayloadCopied
  <2>1. CASE u = t
    BY <2>1, <1>1
  <2>2. CASE u # t
    <3>1. /\ HeaderAt(buffer, wr[u].curr.data).payload = wr[u].buf
          /\ wr[u].curr.index \in DOMAIN frames
          /\ frames[wr[u].curr.index].data = wr[u].curr.data
          /\ frames[wr[u].curr.index].payload = wr[u].buf
      BY <2>2, <1>1 DEF ReadInv, PayloadCopied, OwnsFrame
    <3>2. HeaderAt(buffer', wr[u].curr.data).payload = wr[u].buf
      BY <3>1
    <3> QED
      BY <2>2, <3>2
  <2> QED
    BY <2>1, <2>2
<1>6. EosApart'
  BY <1>1 DEF ReadInv, EosApart, FrameEnd
<1>7. ReaderOnFrame' /\ ReadCorrect'
  BY <1>1, ReadersKept
<1> QED
  BY <1>2, <1>3, <1>4, <1>5, <1>6, <1>7 DEF ReadInv

(* A store to the header of the writer's own frame. *)
LEMMA OwnHeaderStore ==
  ASSUME ReadInv, TypeOK', NEW t \in Writers, pc[t] \in Writing \ {"copy"},
         NEW label \in Writing \ {"copy"}, Goto(t, label),
         UNCHANGED <<w_offset_pair, index, frames, rd>>,
         \A u \in Writers : u # t => wr'[u] = wr[u],
         wr'[t].curr = wr[t].curr, wr'[t].buf = wr[t].buf,
         DOMAIN buffer' = DOMAIN buffer \cup {wr[t].curr.data},
         \A x \in Int : x # wr[t].curr.data => HeaderAt(buffer', x) = HeaderAt(buffer, x),
         HeaderAt(buffer', wr[t].curr.data).payload = HeaderAt(buffer, wr[t].curr.data).payload,
         HeaderAt(buffer', wr[t].curr.data).size \in
           {HeaderAt(buffer, wr[t].curr.data).size, FrameSize(wr[t].buf)}
  PROVE  ReadInv'
<1> DEFINE off == wr[t].curr.data
           own == wr[t].curr.index
<1>0. TypeOK /\ FramesDisjoint /\ label \in WriterLabels
  BY DEF ReadInv, Writing, WriterLabels
<1>1. /\ own \in DOMAIN frames /\ frames[own].data = off /\ frames[own].payload = wr[t].buf
      /\ off \in Nat /\ FrameSize(wr[t].buf) \in Nat /\ FrameSize(wr[t].buf) >= 12
      /\ off + FrameSize(wr[t].buf) <= w_offset_pair.data /\ w_offset_pair.data \in Nat
  BY OwnerFacts
<1>2. HeaderAt(buffer', off).payload = wr[t].buf
  BY DEF ReadInv, PayloadCopied
<1>3. \A x \in DOMAIN buffer' : x \in Nat /\ x < w_offset_pair.data
  BY <1>0, <1>1 DEF ReadInv, BelowWriteOffset, TypeOK, MapsTypeOK, IsBuffer
<1>4. \A i \in DOMAIN frames :
        \/ HeaderAt(buffer', frames[i].data) = HeaderAt(buffer, frames[i].data)
        \/ /\ HeaderAt(buffer', frames[i].data).payload = frames[i].payload
           /\ HeaderAt(buffer', frames[i].data).size \in
                 {HeaderAt(buffer, frames[i].data).size, FrameSize(frames[i].payload)}
  <2> SUFFICES ASSUME NEW i \in DOMAIN frames, frames[i].data = off
               PROVE  /\ HeaderAt(buffer', off).payload = frames[i].payload
                      /\ HeaderAt(buffer', off).size \in
                            {HeaderAt(buffer, off).size, FrameSize(frames[i].payload)}
    <3>1. \A i \in DOMAIN frames : frames[i].data \in Int
      BY <1>0, FrameFacts
    <3> QED
      BY <3>1
  <2>1. i = own
    BY <1>0, <1>1, FrameUnique
  <2> QED
    BY <2>1, <1>1, <1>2
<1>5. \A x \in DOMAIN buffer' : HeaderAt(buffer', x).flags = "READY" =>
        \E i \in DOMAIN frames : frames[i].data = x
  <2> SUFFICES ASSUME NEW x \in DOMAIN buffer', HeaderAt(buffer', x).flags = "READY"
               PROVE  \E i \in DOMAIN frames : frames[i].data = x
    OBVIOUS
  <2>1. CASE x = off
    BY <2>1, <1>1
  <2>2. CASE x # off
    <3>1. x \in DOMAIN buffer /\ HeaderAt(buffer', x) = HeaderAt(buffer, x)
      BY <1>3, <2>2
    <3> QED
      BY <3>1 DEF ReadInv, ReadyIsFrame
  <2> QED
    BY <2>1, <2>2
<1>6. pc[t] \in Writing /\ label # "copy" /\ label \notin EosLabels
  BY DEF Writing, EosLabels
<1> QED
  BY <1>0, <1>2, <1>3, <1>4, <1>5, <1>6, BufferStore

(* header_init of a writer's own frame. *)
LEMMA InitHeaderRead ==
  ASSUME ReadInv, TypeOK', NEW t \in Writers, InitHeader(t)
  PROVE  ReadInv'
<1> DEFINE off == wr[t].curr.data
<1>1. TypeOK /\ pc[t] \in Writing \ {"copy"} /\ "header" \in Writing \ {"copy"}
  BY DEF ReadInv, InitHeader, At, Writing
<1>2. /\ off \in Nat
      /\ IsBuffer(buffer)
  BY <1>1, WriterOffset
<1>3. buffer' = StoreFlags(buffer, off, "EMPTY")
  BY DEF InitHeader, header_init
<1>5. /\ DOMAIN buffer' = DOMAIN buffer \cup {off}
      /\ \A x \in Int : x # off => HeaderAt(buffer', x) = HeaderAt(buffer, x)
      /\ HeaderAt(buffer', off).payload = HeaderAt(buffer, off).payload
      /\ HeaderAt(buffer', off).size = HeaderAt(buffer, off).size
  <2>1. "EMPTY" \in HeaderFlags
    BY DEF HeaderFlags
  <2>2. DOMAIN buffer' = DOMAIN buffer \cup {off}
    BY <1>2, <1>3, <2>1, StoreFlagsDomain
  <2> QED
    BY <1>2, <1>3, <2>1, <2>2, StoreFlagsFacts
<1>7. /\ wr'[t].curr = wr[t].curr /\ wr'[t].buf = wr[t].buf
      /\ \A u \in Writers : u # t => wr'[u] = wr[u]
  BY <1>1 DEF TypeOK, ThreadsTypeOK, WriterState, InitHeader, HeaderFields
<1>8. Goto(t, "header") /\ UNCHANGED <<w_offset_pair, index, frames, rd>>
  BY DEF InitHeader
<1> QED
  BY <1>1, <1>5, <1>7, <1>8, OwnHeaderStore

(* The stores of size and flags, in either order, to a writer's own frame. *)
LEMMA StoreHeaderFieldRead ==
  ASSUME ReadInv, TypeOK', NEW t \in Writers, NEW field \in {"size", "flags"},
         StoreHeaderField(t, field)
  PROVE  ReadInv'
<1> DEFINE off == wr[t].curr.data
<1>1. /\ TypeOK /\ pc[t] \in Writing \ {"copy"}
      /\ "header" \in Writing \ {"copy"} /\ "index" \in Writing \ {"copy"}
  BY DEF ReadInv, StoreHeaderField, At, Writing
<1>2. /\ off \in Nat /\ wr[t].buf \in Payloads
      /\ IsBuffer(buffer)
  BY <1>1, WriterOffset DEF Writing
<1>4. /\ DOMAIN buffer' = DOMAIN buffer \cup {off}
      /\ \A x \in Int : x # off => HeaderAt(buffer', x) = HeaderAt(buffer, x)
      /\ HeaderAt(buffer', off).payload = HeaderAt(buffer, off).payload
      /\ HeaderAt(buffer', off).size \in {HeaderAt(buffer, off).size, FrameSize(wr[t].buf)}
  <2>1. CASE field = "size"
    <3>1. buffer' = StoreSize(buffer, off, FrameSize(wr[t].buf)) /\ FrameSize(wr[t].buf) \in Nat
      BY <1>2, <2>1, FrameSizeType DEF StoreHeaderField
    <3>2. DOMAIN buffer' = DOMAIN buffer \cup {off}
      BY <1>2, <3>1, StoreSizeDomain
    <3> QED
      BY <1>2, <3>1, <3>2, StoreSizeFacts
  <2>2. CASE field = "flags"
    <3>1. buffer' = StoreFlags(buffer, off, "READY")
      BY <2>2 DEF StoreHeaderField
    <3>2. "READY" \in HeaderFlags
      BY DEF HeaderFlags
    <3>3. DOMAIN buffer' = DOMAIN buffer \cup {off}
      BY <1>2, <3>1, <3>2, StoreFlagsDomain
    <3> QED
      BY <1>2, <3>1, <3>2, <3>3, StoreFlagsFacts
  <2> QED
    BY <2>1, <2>2
<1>5. /\ wr'[t].curr = wr[t].curr /\ wr'[t].buf = wr[t].buf
      /\ \A u \in Writers : u # t => wr'[u] = wr[u]
  BY <1>1 DEF TypeOK, ThreadsTypeOK, WriterState, StoreHeaderField
<1>6. /\ Goto(t, "header") \/ Goto(t, "index")
      /\ UNCHANGED <<w_offset_pair, index, frames, rd>>
  BY DEF StoreHeaderField
<1> QED
  BY <1>1, <1>4, <1>5, <1>6, OwnHeaderStore

(* The memcpy stays inside the writer's own frame. *)
LEMMA CopyToBufferRead ==
  ASSUME ReadInv, TypeOK', NEW t \in Writers, CopyToBuffer(t)
  PROVE  ReadInv'
<1> DEFINE off == wr[t].curr.data
           own == wr[t].curr.index
           p   == wr[t].buf
<1>1. CASE ~ InData(off, FrameSize(p))
  BY <1>1, CrashesRead DEF CopyToBuffer
<1>2. CASE InData(off, FrameSize(p))
  <2>0. TypeOK /\ FramesDisjoint /\ pc[t] \in Writing
    BY DEF ReadInv, CopyToBuffer, At, Writing
  <2>1. /\ own \in DOMAIN frames /\ frames[own].data = off /\ frames[own].payload = p
        /\ off \in Nat /\ p \in Payloads /\ FrameSize(p) \in Nat /\ FrameSize(p) >= 12
        /\ off + FrameSize(p) <= w_offset_pair.data /\ w_offset_pair.data \in Nat
    BY <2>0, OwnerFacts
  <2>2. /\ buffer' = CopyPayload(buffer, off, p) /\ Goto(t, "header_init")
        /\ UNCHANGED <<w_offset_pair, index, frames, rd, wr>>
    BY <1>2 DEF CopyToBuffer, locals
  <2>3. /\ IsBuffer(buffer)
    BY <2>0, WriterOffset
  <2>4. /\ DOMAIN buffer' \subseteq Nat
        /\ \A x \in DOMAIN buffer' : x \in DOMAIN buffer \/ (off <= x /\ x < off + FrameSize(p))
        /\ HeaderAt(buffer', off).payload = p
        /\ HeaderAt(buffer', off).size = HeaderAt(buffer, off).size
        /\ \A x \in Nat : x < off \/ x >= off + FrameSize(p) =>
                            HeaderAt(buffer', x) = HeaderAt(buffer, x)
        /\ \A x \in Nat : off < x /\ x < off + FrameSize(p) =>
                            \/ HeaderAt(buffer', x) = ZeroHeader
                            \/ HeaderAt(buffer', x).flags = "EOS"
    BY <2>1, <2>2, <2>3, CopyPayloadFacts DEF IsBuffer
  <2>6. \A x \in DOMAIN buffer' : x \in Nat /\ x < w_offset_pair.data
    BY <2>1, <2>4 DEF ReadInv, BelowWriteOffset
  <2>7. \A i \in DOMAIN frames :
          \/ HeaderAt(buffer', frames[i].data) = HeaderAt(buffer, frames[i].data)
          \/ /\ HeaderAt(buffer', frames[i].data).payload = frames[i].payload
             /\ HeaderAt(buffer', frames[i].data).size \in
                   {HeaderAt(buffer, frames[i].data).size, FrameSize(frames[i].payload)}
    <3> SUFFICES ASSUME NEW i \in DOMAIN frames, i # own
                 PROVE  HeaderAt(buffer', frames[i].data) = HeaderAt(buffer, frames[i].data)
      BY <2>1, <2>4
    <3>1. FrameEnd(i) <= off \/ off + FrameSize(p) <= frames[i].data
      BY <2>0, <2>1, FramesApart DEF FrameEnd
    <3>2. frames[i].data \in Nat /\ FrameEnd(i) \in Nat /\ FrameEnd(i) >= frames[i].data + 12
      BY <2>0, FrameFacts
    <3>3. frames[i].data < off \/ frames[i].data >= off + FrameSize(p)
      BY <2>1, <3>1, <3>2
    <3> QED
      BY <2>4, <3>2, <3>3
  <2>8. \A x \in DOMAIN buffer' : HeaderAt(buffer', x).flags = "READY" =>
          \E i \in DOMAIN frames : frames[i].data = x
    <3> SUFFICES ASSUME NEW x \in DOMAIN buffer', HeaderAt(buffer', x).flags = "READY"
                 PROVE  \E i \in DOMAIN frames : frames[i].data = x
      OBVIOUS
    <3>0. x \in Nat
      BY <2>4
    <3>1. CASE x = off
      BY <3>1, <2>1
    <3>2. CASE off < x /\ x < off + FrameSize(p)
      <4>1. HeaderAt(buffer', x).flags # "READY"
        BY <2>4, <3>0, <3>2 DEF ZeroHeader
      <4> QED
        BY <4>1
    <3>3. CASE x < off \/ x >= off + FrameSize(p)
      <4>1. x \in DOMAIN buffer /\ HeaderAt(buffer', x) = HeaderAt(buffer, x)
        BY <2>1, <2>4, <3>0, <3>3
      <4> QED
        BY <4>1 DEF ReadInv, ReadyIsFrame
    <3> QED
      BY <2>1, <3>0, <3>1, <3>2, <3>3
  <2>9. /\ "header_init" \in WriterLabels /\ "header_init" # "copy"
        /\ "header_init" \notin EosLabels
    BY DEF WriterLabels, EosLabels
  <2> QED
    BY <2>0, <2>2, <2>4, <2>6, <2>7, <2>8, <2>9, BufferStore
<1> QED
  BY <1>1, <1>2

(* The index entry that is stored names the writer's own frame. *)
LEMMA StoreIndexEntryRead ==
  ASSUME ReadInv, TypeOK', NEW t \in Writers, StoreIndexEntry(t)
  PROVE  ReadInv'
<1> DEFINE own == wr[t].curr.index
<1>0. TypeOK /\ pc[t] \in Writing
  BY DEF ReadInv, StoreIndexEntry, At, Writing
<1>1. CASE own \notin Entry
  BY <1>1, CrashesRead DEF StoreIndexEntry
<1>2. CASE own \in Entry
  <2>1. /\ index' = [index EXCEPT ![own] = wr[t].curr.data]
        /\ Goto(t, "idle")
        /\ wr' = [wr EXCEPT ![t] = IdleWriter(SizeOf[wr[t].buf])]
        /\ UNCHANGED <<w_offset_pair, buffer, frames, rd>>
    BY <1>2 DEF StoreIndexEntry, WriteReturns
  <2>2. /\ pc'[t] = "idle"
        /\ \A u \in Writers : u # t => pc'[u] = pc[u] /\ wr'[u] = wr[u]
        /\ \A u \in Readers : pc'[u] = pc[u]
    <3>1. wr \in [Writers -> WriterState]
      BY <1>0 DEF TypeOK, ThreadsTypeOK
    <3> QED
      BY <1>0, <2>1, <3>1, WriterMoves
  <2>3. own \in DOMAIN frames /\ frames[own].data = wr[t].curr.data
    BY <1>0, OwnerFacts
  <2>4. IndexPointsToFrame'
    <3>1. index \in [Entry -> Nat]
      BY <1>0 DEF TypeOK, MapsTypeOK
    <3> QED
      BY <1>2, <2>1, <2>3, <3>1 DEF ReadInv, IndexPointsToFrame
  <2>5. FramesDisjoint' /\ BelowWriteOffset' /\ ReadyIsFrame' /\ SizeMeansWhole'
    BY <2>1 DEF ReadInv, FramesDisjoint, BelowWriteOffset, ReadyIsFrame, SizeMeansWhole, FrameEnd
  <2>6. OwnsFrame'
    BY <2>1, <2>2 DEF ReadInv, OwnsFrame, Writing
  <2>7. PayloadCopied'
    BY <2>1, <2>2 DEF ReadInv, PayloadCopied, Writing
  <2>8. EosApart'
    BY <2>1, <2>2 DEF ReadInv, EosApart, EosLabels, FrameEnd
  <2>9. ReaderOnFrame' /\ ReadCorrect'
    BY <2>1, <2>2, ReadersKept
  <2> QED
    BY <2>4, <2>5, <2>6, <2>7, <2>8, <2>9 DEF ReadInv
<1> QED
  BY <1>1, <1>2

(* The stores to an EOS header touch no frame. *)
LEMMA EosStore ==
  ASSUME ReadInv, TypeOK', NEW t \in Writers, pc[t] \in EosLabels,
         NEW label \in {"eos_mark", "idle"}, Goto(t, label),
         UNCHANGED <<w_offset_pair, index, frames, rd>>,
         \A u \in Writers : u # t => wr'[u] = wr[u],
         label = "eos_mark" => wr'[t].curr = wr[t].curr,
         DOMAIN buffer' = DOMAIN buffer \cup {wr[t].curr.data},
         \A x \in Int : x # wr[t].curr.data => HeaderAt(buffer', x) = HeaderAt(buffer, x),
         HeaderAt(buffer', wr[t].curr.data).flags # "READY"
  PROVE  ReadInv'
<1> DEFINE off == wr[t].curr.data
<1>0. TypeOK /\ label \in WriterLabels /\ label \notin Writing
  BY DEF ReadInv, Writing, WriterLabels
<1>1. /\ off \in Nat /\ w_offset_pair.data \in Nat /\ off + 12 <= w_offset_pair.data
      /\ \A i \in DOMAIN frames : FrameEnd(i) <= off \/ off + 12 <= frames[i].data
  BY <1>0, WriterOffset DEF ReadInv, EosApart, HeaderSize, TypeOK, OffsetsTypeOK, Pair
<1>2. \A x \in DOMAIN buffer' : x \in Nat /\ x < w_offset_pair.data
  BY <1>0, <1>1 DEF ReadInv, BelowWriteOffset, TypeOK, MapsTypeOK, IsBuffer
<1>3. \A i \in DOMAIN frames : HeaderAt(buffer', frames[i].data) = HeaderAt(buffer, frames[i].data)
  <2> SUFFICES ASSUME NEW i \in DOMAIN frames
               PROVE  frames[i].data # off /\ frames[i].data \in Int
    OBVIOUS
  <2>1. frames[i].data \in Nat /\ FrameEnd(i) \in Nat /\ FrameEnd(i) >= frames[i].data + 12
    BY <1>0, FrameFacts
  <2> QED
    BY <1>1, <2>1
<1>4. \A x \in DOMAIN buffer' : HeaderAt(buffer', x).flags = "READY" =>
        \E i \in DOMAIN frames : frames[i].data = x
  <2> SUFFICES ASSUME NEW x \in DOMAIN buffer', HeaderAt(buffer', x).flags = "READY"
               PROVE  \E i \in DOMAIN frames : frames[i].data = x
    OBVIOUS
  <2>1. x # off
    OBVIOUS
  <2>2. x \in DOMAIN buffer /\ HeaderAt(buffer', x) = HeaderAt(buffer, x)
    BY <1>2, <2>1
  <2> QED
    BY <2>2 DEF ReadInv, ReadyIsFrame
<1>5. label \in EosLabels => label = "eos_mark"
  BY DEF EosLabels
<1> QED
  BY <1>0, <1>2, <1>3, <1>4, <1>5, BufferStore

(* The EOS header is written where no frame is. *)
LEMMA InitEosHeaderRead ==
  ASSUME ReadInv, TypeOK', NEW t \in Writers, InitEosHeader(t)
  PROVE  ReadInv'
<1> DEFINE off == wr[t].curr.data
<1>0. TypeOK /\ pc[t] \in EosLabels /\ off \in Nat /\ IsBuffer(buffer)
  BY WriterOffset DEF ReadInv, InitEosHeader, At, EosLabels
<1>1. CASE ~ InData(off, HeaderSize)
  BY <1>1, CrashesRead DEF InitEosHeader
<1>2. CASE InData(off, HeaderSize)
  <2>1. PICK buf : buf = StoreFlags(buffer, off, "EMPTY")
    OBVIOUS
  <2>2. "EMPTY" \in HeaderFlags /\ HeaderSize \in Nat
    BY DEF HeaderFlags, HeaderSize
  <2>3. IsBuffer(buf) /\ DOMAIN buf = DOMAIN buffer \cup {off}
    BY <1>0, <2>1, <2>2, StoreFlagsDomain
  <2>4. /\ HeaderAt(buf, off).flags = "EMPTY"
        /\ \A x \in Int : x # off => HeaderAt(buf, x) = HeaderAt(buffer, x)
    BY <1>0, <2>1, <2>2, StoreFlagsFacts
  <2>5. /\ buffer' = StoreSize(buf, off, HeaderSize)
        /\ Goto(t, "eos_mark")
        /\ UNCHANGED <<w_offset_pair, index, frames, rd, wr>>
    BY <1>2, <2>1 DEF InitEosHeader, header_init, locals
  <2>6. DOMAIN buffer' = DOMAIN buffer \cup {off}
    <3>1. PICK new : new = buffer'
      OBVIOUS
    <3>2. new = StoreSize(buf, off, HeaderSize)
      BY <2>5, <3>1
    <3>3. IsBuffer(buf) /\ off \in Nat /\ HeaderSize \in Nat
      BY <1>0, <2>2, <2>3
    <3>4. DOMAIN new = DOMAIN buf \cup {off}
      BY <3>2, <3>3, StoreSizeDomain
    <3> QED
      BY <2>3, <3>1, <3>4
  <2>7. /\ HeaderAt(buffer', off).flags = HeaderAt(buf, off).flags
        /\ \A x \in Int : x # off => HeaderAt(buffer', x) = HeaderAt(buf, x)
    BY <1>0, <2>2, <2>3, <2>5, StoreSizeFacts
  <2>8. /\ HeaderAt(buffer', off).flags # "READY"
        /\ \A x \in Int : x # off => HeaderAt(buffer', x) = HeaderAt(buffer, x)
    BY <2>4, <2>7
  <2> QED
    BY <1>0, <2>5, <2>6, <2>8, EosStore
<1> QED
  BY <1>1, <1>2

(* So are its flags. *)
LEMMA StoreEosFlagsRead ==
  ASSUME ReadInv, TypeOK', NEW t \in Writers, StoreEosFlags(t)
  PROVE  ReadInv'
<1> DEFINE off == wr[t].curr.data
<1>0. TypeOK /\ pc[t] \in EosLabels /\ off \in Nat /\ IsBuffer(buffer)
  BY WriterOffset DEF ReadInv, StoreEosFlags, At, EosLabels
<1>1. /\ buffer' = StoreFlags(buffer, off, "EOS") /\ Goto(t, "idle")
      /\ UNCHANGED <<w_offset_pair, index, frames, rd>>
  BY DEF StoreEosFlags, WriteReturns
<1>2. "EOS" \in HeaderFlags
  BY DEF HeaderFlags
<1>3. DOMAIN buffer' = DOMAIN buffer \cup {off}
  BY <1>0, <1>1, <1>2, StoreFlagsDomain
<1>4. /\ HeaderAt(buffer', off).flags = "EOS"
      /\ \A x \in Int : x # off => HeaderAt(buffer', x) = HeaderAt(buffer, x)
  BY <1>0, <1>1, <1>2, StoreFlagsFacts
<1>5. \A u \in Writers : u # t => wr'[u] = wr[u]
  BY <1>0 DEF StoreEosFlags, WriteReturns, TypeOK, ThreadsTypeOK
<1> QED
  BY <1>0, <1>1, <1>3, <1>4, <1>5, EosStore

-----------------------------------------------------------------------------
(* What a step of a writer stores, for the invariants built on this one. *)

(* A store to one header is a store to no frame that begins elsewhere. *)
LEMMA FramesElsewhereKept ==
  ASSUME TypeOK, NEW off \in Nat,
         \A x \in Int : x # off => HeaderAt(buffer', x) = HeaderAt(buffer, x),
         NEW i \in DOMAIN frames, frames[i].data # off
  PROVE  HeaderAt(buffer', frames[i].data) = HeaderAt(buffer, frames[i].data)
<1>1. frames[i].data \in Int
  BY FrameFacts
<1> QED
  BY <1>1

(* segment_write stores to the header of its own frame and to no other. *)
LEMMA StoresToOwnFrame ==
  ASSUME ReadInv, NEW t \in Writers, WriterStep(t),
         NEW i \in DOMAIN frames, pc[t] \in Writing => i # wr[t].curr.index
  PROVE  HeaderAt(buffer', frames[i].data) = HeaderAt(buffer, frames[i].data)
<1> DEFINE off == wr[t].curr.data
           own == wr[t].curr.index
           p   == wr[t].buf
<1>0. TypeOK /\ FramesDisjoint /\ IsBuffer(buffer) /\ off \in Nat
  BY WriterOffset DEF ReadInv
<1>1. /\ frames[i].data \in Nat /\ FrameEnd(i) \in Nat /\ FrameEnd(i) >= frames[i].data + 12
      /\ "EMPTY" \in HeaderFlags /\ "READY" \in HeaderFlags /\ "EOS" \in HeaderFlags
      /\ HeaderSize \in Nat
  BY <1>0, FrameFacts DEF HeaderFlags, HeaderSize
<1>2. pc[t] \in Writing => own \in DOMAIN frames /\ frames[own].data = off
  BY OwnerFacts
<1>3. pc[t] \in Writing => frames[i].data # off
  BY <1>0, <1>2, FrameUnique
<1>4. pc[t] \in EosLabels => frames[i].data # off
  <2> SUFFICES ASSUME pc[t] \in EosLabels PROVE frames[i].data # off
    OBVIOUS
  <2>1. FrameEnd(i) <= off \/ off + 12 <= frames[i].data
    BY DEF ReadInv, EosApart, HeaderSize
  <2> QED
    BY <1>0, <1>1, <2>1
<1>5. CASE \/ marked_eos(t) \/ CheckEosFlags(t) \/ ReadWriteOffset(t) \/ ClaimLost(t)
           \/ ClaimFrame(t) \/ StoreIndexEntry(t) \/ mark_eos(t)
  BY <1>5 DEF marked_eos, CheckEosFlags, ReadWriteOffset, ClaimLost, ClaimFrame,
              StoreIndexEntry, mark_eos, Crashes, shared
<1>6. CASE CopyToBuffer(t)
  <2>1. CASE ~ InData(off, FrameSize(p))
    BY <1>6, <2>1 DEF CopyToBuffer, Crashes, shared
  <2>2. CASE InData(off, FrameSize(p))
    <3>1. pc[t] \in Writing /\ buffer' = CopyPayload(buffer, off, p)
      BY <1>6, <2>2 DEF CopyToBuffer, At, Writing
    <3>2. p \in Payloads /\ frames[own].payload = p /\ FrameSize(p) \in Nat
      BY <3>1, OwnerFacts
    <3>3. /\ HeaderAt(buffer', off).size = HeaderAt(buffer, off).size
          /\ \A x \in Nat : x < off \/ x >= off + FrameSize(p) =>
                              HeaderAt(buffer', x) = HeaderAt(buffer, x)
      BY <1>0, <3>1, <3>2, CopyPayloadFacts
    <3>4. FrameEnd(i) <= off \/ off + FrameSize(p) <= frames[i].data
      BY <1>0, <1>2, <3>1, <3>2, FramesApart DEF FrameEnd
    <3>5. frames[i].data < off \/ frames[i].data >= off + FrameSize(p)
      BY <1>0, <1>1, <3>2, <3>4
    <3> QED
      BY <1>1, <3>3, <3>5
  <2> QED
    BY <2>1, <2>2
<1>7. CASE InitHeader(t)
  <2>1. pc[t] \in Writing /\ buffer' = StoreFlags(buffer, off, "EMPTY")
    BY <1>7 DEF InitHeader, At, Writing, header_init
  <2>2. \A x \in Int : x # off => HeaderAt(buffer', x) = HeaderAt(buffer, x)
    BY <1>0, <1>1, <2>1, StoreFlagsFacts
  <2> QED
    BY <1>0, <1>3, <2>1, <2>2, FramesElsewhereKept
<1>8. CASE \E field \in {"size", "flags"} : StoreHeaderField(t, field)
  <2>1. /\ pc[t] \in Writing
        /\ \/ buffer' = StoreSize(buffer, off, FrameSize(p))
           \/ buffer' = StoreFlags(buffer, off, "READY")
    BY <1>8 DEF StoreHeaderField, At, Writing
  <2>2. FrameSize(p) \in Nat
    BY <2>1, OwnerFacts
  <2>3. \A x \in Int : x # off => HeaderAt(buffer', x) = HeaderAt(buffer, x)
    BY <1>0, <1>1, <2>1, <2>2, StoreFlagsFacts, StoreSizeFacts
  <2> QED
    BY <1>0, <1>3, <2>1, <2>3, FramesElsewhereKept
<1>9. CASE InitEosHeader(t)
  <2>1. CASE ~ InData(off, HeaderSize)
    BY <1>9, <2>1 DEF InitEosHeader, Crashes, shared
  <2>2. CASE InData(off, HeaderSize)
    <3>1. PICK buf : buf = StoreFlags(buffer, off, "EMPTY")
      OBVIOUS
    <3>2. pc[t] \in EosLabels /\ buffer' = StoreSize(buf, off, HeaderSize)
      BY <1>9, <2>2, <3>1 DEF InitEosHeader, At, EosLabels, header_init
    <3>3. IsBuffer(buf)
      BY <1>0, <1>1, <3>1, StoreFlagsDomain
    <3>4. \A x \in Int : x # off => HeaderAt(buf, x) = HeaderAt(buffer, x)
      BY <1>0, <1>1, <3>1, StoreFlagsFacts
    <3>5. \A x \in Int : x # off => HeaderAt(buffer', x) = HeaderAt(buf, x)
      BY <1>0, <1>1, <3>2, <3>3, StoreSizeFacts
    <3>6. \A x \in Int : x # off => HeaderAt(buffer', x) = HeaderAt(buffer, x)
      BY <3>4, <3>5
    <3> QED
      BY <1>0, <1>4, <3>2, <3>6, FramesElsewhereKept
  <2> QED
    BY <2>1, <2>2
<1>10. CASE StoreEosFlags(t)
  <2>1. pc[t] \in EosLabels /\ buffer' = StoreFlags(buffer, off, "EOS")
    BY <1>10 DEF StoreEosFlags, At, EosLabels
  <2>2. \A x \in Int : x # off => HeaderAt(buffer', x) = HeaderAt(buffer, x)
    BY <1>0, <1>1, <2>1, StoreFlagsFacts
  <2> QED
    BY <1>0, <1>4, <2>1, <2>2, FramesElsewhereKept
<1> QED
  BY <1>5, <1>6, <1>7, <1>8, <1>9, <1>10 DEF WriterStep

-----------------------------------------------------------------------------
(* The invariant, and the two theorems it gives. *)

(* Every step of the system. *)
LEMMA NextReadInv == ASSUME ReadInv, [Next]_vars PROVE ReadInv'
<1>0. TypeOK'
  BY NextType DEF ReadInv
<1>1. ASSUME NEW t \in Writers, WriterStep(t) \/ \E p \in Payloads : segment_write(t, p)
      PROVE  ReadInv'
  BY <1>0, <1>1, WriterQuietSteps, ClaimFrameRead, CopyToBufferRead, InitHeaderRead,
     StoreHeaderFieldRead, StoreIndexEntryRead, MarkEosRead, InitEosHeaderRead, StoreEosFlagsRead
  DEF WriterStep
<1>2. CASE UNCHANGED vars
  BY <1>0, <1>2, QuietStep DEF vars, shared, locals
<1> QED
  BY <1>0, <1>1, <1>2, ReaderRead, SyncerRead DEF Next

(* The invariant holds in every reachable state. *)
LEMMA ReadInvariant == Spec => []ReadInv
<1>1. Init => ReadInv
  BY InitReadInv
<1>2. ReadInv /\ [Next]_vars => ReadInv'
  BY NextReadInv
<1> QED
  BY <1>1, <1>2, PTL DEF Spec

(* Whatever the interleaving of the producers' compare-and-swaps in        *)
(* segment_write, the reserved frames never overlap.                       *)
THEOREM FramesNeverOverlap == Spec => []FramesDisjoint
<1>1. ReadInv => FramesDisjoint
  BY DEF ReadInv
<1> QED
  BY <1>1, ReadInvariant, PTL

(* A successful segment_read returns the whole frame written at its        *)
(* offset, for any number of threads, although producers and consumers     *)
(* share memory without a lock and READY may be stored before the size.    *)
THEOREM ReadsAreCorrect == Spec => []ReadCorrect
<1>1. ReadInv => ReadCorrect
  BY DEF ReadInv
<1> QED
  BY <1>1, ReadInvariant, PTL

-----------------------------------------------------------------------------
(* The refinement.  A compare-and-swap of segment_write gives out the next *)
(* offset, the store that makes a frame readable publishes it, and no      *)
(* other step changes what a consumer can read.                            *)

(* No two writers are writing the same entry. *)
OwnersDistinct ==
  \A t, u \in Writers :
    t # u /\ pc[t] \in Writing /\ pc[u] \in Writing => wr[t].curr.index # wr[u].curr.index

(* Nobody has stored a size in a header that has not been initialised. *)
SizePending ==
  \A t \in Writers : pc[t] \in {"copy", "header_init"} =>
    HeaderAt(buffer, wr[t].curr.data).size = 0

LogInv == ReadInv /\ OwnersDistinct /\ SizePending

(* What Readable amounts to: the entry leads to its own frame, and the     *)
(* header of that frame is complete.                                       *)
Shown(i) ==
  /\ i \in DOMAIN frames /\ i \in Entry
  /\ index[i] = frames[i].data
  /\ HeaderAt(buffer, frames[i].data).flags = "READY"
  /\ HeaderAt(buffer, frames[i].data).size # 0

-----------------------------------------------------------------------------
(* Only the frame of entry 0 can begin at offset 0. *)
LEMMA FirstFrame ==
  ASSUME ReadInv, NEW i \in DOMAIN frames, frames[i].data = 0
  PROVE  i = 0
<1> SUFFICES ASSUME i # 0 PROVE FALSE
  OBVIOUS
<1>1. TypeOK /\ i \in Nat
  BY FrameFacts DEF ReadInv
<1>2. 0 \in DOMAIN frames /\ 0 < i
  BY <1>1 DEF TypeOK, FramesTypeOK, OffsetsTypeOK, Pair
<1>3. FrameEnd(0) <= 0
  BY <1>2 DEF ReadInv, FramesDisjoint
<1>4. FrameEnd(0) \in Nat /\ frames[0].data \in Nat /\ FrameEnd(0) >= frames[0].data + 12
  BY <1>1, <1>2, FrameFacts
<1> QED
  BY <1>3, <1>4

(* A segment_read that starts now succeeds exactly on what is shown: the   *)
(* entry of offset 0, which is zero before it is set, cannot lead astray.  *)
LEMMA ReadableIsShown ==
  ReadInv => \A i \in DOMAIN frames : Readable(i) <=> Shown(i)
<1> SUFFICES ASSUME ReadInv, NEW i \in DOMAIN frames
             PROVE  Readable(i) <=> Shown(i)
  OBVIOUS
<1>1. ASSUME Shown(i) PROVE Readable(i)
  <2>1. i # 0 => index[i] # 0
    BY <1>1, FirstFrame DEF Shown
  <2> QED
    BY <1>1, <2>1 DEF Shown, Readable
<1>2. ASSUME Readable(i) PROVE Shown(i)
  <2>1. CASE index[i] # 0
    BY <1>2, <2>1 DEF Readable, Shown, ReadInv, IndexPointsToFrame
  <2>2. CASE index[i] = 0
    <3>1. i = 0 /\ HeaderAt(buffer, 0).flags = "READY"
      BY <1>2, <2>2 DEF Readable
    <3>2. 0 \in DOMAIN buffer
      BY <3>1 DEF HeaderAt, ZeroHeader
    <3>3. PICK j \in DOMAIN frames : frames[j].data = 0
      BY <3>1, <3>2 DEF ReadInv, ReadyIsFrame
    <3>4. j = 0
      BY <3>3, FirstFrame
    <3> QED
      BY <1>2, <2>2, <3>1, <3>3, <3>4 DEF Readable, Shown
  <2> QED
    BY <2>1, <2>2
<1> QED
  BY <1>1, <1>2

(* The same in the next state. *)
LEMMA ReadableIsShownNext ==
  (ReadInv => \A i \in DOMAIN frames : Readable(i) <=> Shown(i))'
BY ReadableIsShown, PTL

-----------------------------------------------------------------------------
(* How steps of Segment look to a user of the log. *)

(* A step that reserves nothing and changes the readability of at most one *)
(* entry, from unreadable to readable, publishes it or does nothing.       *)
LEMMA PublishOrStutter ==
  ASSUME ReadInv, ReadInv', UNCHANGED frames, w_offset_pair'.index = w_offset_pair.index,
         NEW own,
         \A i \in DOMAIN frames : i # own => ((Shown(i))' <=> Shown(i)),
         Shown(own) => (Shown(own))'
  PROVE  [Log!Next]_(Log!logVars)
<1> DEFINE seen == {i \in DOMAIN frames : Readable(i)}
<1>1. \A i \in DOMAIN frames : Readable(i) <=> Shown(i)
  BY ReadableIsShown
<1>2. \A i \in DOMAIN frames : (Readable(i))' <=> (Shown(i))'
  BY ReadableIsShownNext
<1>3. [i \in DOMAIN frames |-> frames[i].payload]' = [i \in DOMAIN frames |-> frames[i].payload]
  OBVIOUS
<1>4. CASE own \in DOMAIN frames /\ ~ Shown(own) /\ (Shown(own))'
  <2>1. seen' = seen \cup {own} /\ own \in DOMAIN frames \ seen
    BY <1>1, <1>2, <1>4
  <2>2. Log!Publish(own)
    BY <1>3, <2>1 DEF Log!Publish
  <2>3. own \in DOMAIN [i \in DOMAIN frames |-> frames[i].payload] \ seen
    BY <2>1
  <2> QED
    BY <2>2, <2>3 DEF Log!Next
<1>5. CASE ~ (own \in DOMAIN frames /\ ~ Shown(own) /\ (Shown(own))')
  <2>1. seen' = seen
    BY <1>1, <1>2, <1>5
  <2> QED
    BY <1>3, <2>1 DEF Log!logVars
<1> QED
  BY <1>4, <1>5

(* A step that leaves the frames, their entries and their headers alone    *)
(* is invisible.                                                           *)
LEMMA Invisible ==
  ASSUME ReadInv, ReadInv', UNCHANGED <<frames, index>>,
         w_offset_pair'.index = w_offset_pair.index,
         \A i \in DOMAIN frames :
           HeaderAt(buffer', frames[i].data) = HeaderAt(buffer, frames[i].data)
  PROVE  [Log!Next]_(Log!logVars)
<1>1. \A i \in DOMAIN frames : (Shown(i))' <=> Shown(i)
  BY DEF Shown
<1>2. Shown(0) => (Shown(0))'
  BY <1>1 DEF Shown
<1> QED
  BY <1>1, <1>2, PublishOrStutter

(* The compare-and-swap of a segment_write that succeeds reserves the next *)
(* offset; nothing becomes readable by it.                                 *)
LEMMA ClaimReserves ==
  ASSUME ReadInv, ReadInv', NEW t \in Writers, ClaimFrame(t)
  PROVE  [Log!Next]_(Log!logVars)
<1> DEFINE curr == wr[t].curr
           p    == wr[t].buf
           seen == {i \in DOMAIN frames : Readable(i)}
           kept == [i \in DOMAIN frames |-> frames[i].payload]
<1>0. PICK new, q : new = wr[t].curr.index /\ q = p
  OBVIOUS
<1>1. /\ w_offset_pair = curr /\ w_offset_pair.index = new
      /\ w_offset_pair'.index = new + 1
      /\ frames' = [i \in DOMAIN frames \cup {new} |->
                      IF i = new THEN [data |-> curr.data, payload |-> q] ELSE frames[i]]
      /\ UNCHANGED <<index, buffer>>
  BY <1>0 DEF ClaimFrame, Claimed, claim
<1>2. TypeOK /\ curr.data \in Nat /\ new \in Nat /\ q \in Payloads
  BY <1>0, WriterOffset DEF ReadInv, ClaimFrame, At
<1>3. /\ new \notin DOMAIN frames
      /\ DOMAIN frames' = DOMAIN frames \cup {new}
      /\ frames'[new].data = curr.data /\ frames'[new].payload = q
      /\ \A i \in DOMAIN frames : frames'[i] = frames[i] /\ i # new
  BY <1>1, <1>2 DEF TypeOK, FramesTypeOK
<1>4. HeaderAt(buffer, curr.data).size = 0
  <2>1. curr.data \notin DOMAIN buffer
    BY <1>1, <1>2 DEF ReadInv, BelowWriteOffset
  <2> QED
    BY <2>1 DEF HeaderAt, ZeroHeader
<1>5. ~ (Shown(new))'
  BY <1>1, <1>3, <1>4 DEF Shown
<1>6. \A i \in DOMAIN frames : (Shown(i))' <=> Shown(i)
  BY <1>1, <1>3 DEF Shown
<1>7. /\ \A i \in DOMAIN frames : Readable(i) <=> Shown(i)
      /\ \A i \in DOMAIN frames' : (Readable(i))' <=> (Shown(i))'
  BY ReadableIsShown, ReadableIsShownNext
<1>8. seen' = seen
  BY <1>3, <1>5, <1>6, <1>7
<1>9. kept' = [i \in DOMAIN kept \cup {new} |-> IF i = new THEN q ELSE kept[i]]
  BY <1>3
<1>10. Log!Reserve(q)
  BY <1>1, <1>8, <1>9 DEF Log!Reserve
<1> QED
  BY <1>2, <1>10 DEF Log!Next

-----------------------------------------------------------------------------
(* The invariant is inductive, and every step is one of the log. *)

(* A step that reserves no frame and gives a header that is not yet        *)
(* initialised no size.                                                    *)
LEMMA OwnersKept ==
  ASSUME LogInv, UNCHANGED frames,
         \A u \in Writers : pc'[u] \in Writing => pc[u] \in Writing /\ wr'[u].curr = wr[u].curr,
         \A u \in Writers : pc'[u] \in {"copy", "header_init"} =>
           /\ pc[u] \in {"copy", "header_init"}
           /\ HeaderAt(buffer', wr[u].curr.data).size = HeaderAt(buffer, wr[u].curr.data).size
  PROVE  OwnersDistinct' /\ SizePending'
<1>1. OwnersDistinct'
  BY DEF LogInv, OwnersDistinct
<1>2. SizePending'
  BY DEF LogInv, SizePending, Writing
<1> QED
  BY <1>1, <1>2

(* A step of no writer past its claim, which stores nothing. *)
LEMMA QuietLog ==
  ASSUME LogInv, ReadInv', UNCHANGED <<w_offset_pair, index, buffer, frames>>,
         \A u \in Writers : pc'[u] \in Writing => pc'[u] = pc[u] /\ wr'[u] = wr[u]
  PROVE  LogInv' /\ [Log!Next]_(Log!logVars)
<1>1. OwnersDistinct' /\ SizePending'
  BY OwnersKept DEF Writing
<1>2. [Log!Next]_(Log!logVars)
  BY Invisible DEF LogInv
<1> QED
  BY <1>1, <1>2 DEF LogInv

(* The steps of segment_write up to its reservation. *)
LEMMA WriterQuietLog ==
  ASSUME LogInv, ReadInv', NEW t \in Writers,
         \/ \E p \in Payloads : segment_write(t, p)
         \/ marked_eos(t) \/ CheckEosFlags(t) \/ ReadWriteOffset(t) \/ ClaimLost(t)
  PROVE  LogInv' /\ [Log!Next]_(Log!logVars)
<1>0. TypeOK /\ wr \in [Writers -> WriterState]
  BY DEF LogInv, ReadInv, TypeOK, ThreadsTypeOK
<1>1. PICK label \in {"idle", "marked_eos", "eos_flags", "curr", "claim", "mark_eos"} :
        Goto(t, label)
  BY DEF segment_write, marked_eos, CheckEosFlags, ReadWriteOffset, ClaimLost, WriteReturns
<1>2. /\ UNCHANGED <<w_offset_pair, index, buffer, frames>>
      /\ \A u \in Writers : u # t => wr'[u] = wr[u]
  BY <1>0 DEF segment_write, marked_eos, CheckEosFlags, ReadWriteOffset, ClaimLost,
              WriteReturns, shared
<1>3. pc'[t] = label /\ \A u \in Writers : u # t => pc'[u] = pc[u]
  BY <1>0, <1>1, WriterMoves
<1> QED
  BY <1>2, <1>3, QuietLog DEF Writing

(* The steps of segment_read and of segment_sync. *)
LEMMA OthersQuietLog ==
  ASSUME LogInv, ReadInv', NEW t \in Readers \cup Syncers,
         \/ t \in Readers /\ ReaderStep(t)
         \/ t \in Readers /\ \E rel \in 0 .. MaxWrites - 1 : segment_read(t, rel)
         \/ t \in Syncers /\ (SyncerStep(t) \/ segment_sync(t))
  PROVE  LogInv' /\ [Log!Next]_(Log!logVars)
<1>1. TypeOK
  BY DEF LogInv, ReadInv
<1>2. /\ UNCHANGED <<w_offset_pair, index, buffer, frames, wr>>
      /\ \A u \in Writers : pc'[u] = pc[u]
  BY <1>1, ReaderShape, SyncerShape
<1> QED
  BY <1>2, QuietLog

(* The reservation of a frame: nobody else has its entry. *)
LEMMA ClaimFrameLog ==
  ASSUME LogInv, ReadInv', NEW t \in Writers, ClaimFrame(t)
  PROVE  LogInv' /\ [Log!Next]_(Log!logVars)
<1> DEFINE curr == wr[t].curr
<1>1. TypeOK /\ w_offset_pair = curr /\ UNCHANGED <<buffer, wr>> /\ Goto(t, "copy")
  BY DEF LogInv, ReadInv, ClaimFrame, claim, locals
<1>2. pc'[t] = "copy" /\ \A u \in Writers : u # t => pc'[u] = pc[u]
  BY <1>1, WriterMoves
<1>3. curr.data \in Nat /\ curr.index \in Nat
  BY <1>1, WriterOffset
<1>4. OwnersDistinct'
  <2>1. \A u \in Writers : pc[u] \in Writing => wr[u].curr.index # curr.index
    <3>1. DOMAIN frames = 0 .. curr.index - 1
      BY <1>1 DEF TypeOK, FramesTypeOK
    <3>2. \A u \in Writers : pc[u] \in Writing => wr[u].curr.index \in 0 .. curr.index - 1
      BY <3>1 DEF LogInv, ReadInv, OwnsFrame
    <3> QED
      BY <1>3, <3>2
  <2> QED
    BY <1>1, <1>2, <2>1 DEF LogInv, OwnersDistinct
<1>5. SizePending'
  <2>1. curr.data \notin DOMAIN buffer
    BY <1>1, <1>3 DEF LogInv, ReadInv, BelowWriteOffset
  <2>2. HeaderAt(buffer, curr.data).size = 0
    BY <2>1 DEF HeaderAt, ZeroHeader
  <2> QED
    BY <1>1, <1>2, <2>2 DEF LogInv, SizePending
<1> QED
  BY <1>4, <1>5, ClaimReserves DEF LogInv

(* A store to the data map that changes no frame but the writer's own, and *)
(* takes back nothing a consumer can read.                                 *)
LEMMA OwnStoreLog ==
  ASSUME LogInv, ReadInv', NEW t \in Writers, pc[t] \in Writing,
         NEW label \in Writing \ {"copy"}, Goto(t, label),
         UNCHANGED <<w_offset_pair, index, frames>>,
         \A u \in Writers : u # t => wr'[u] = wr[u],
         wr'[t].curr = wr[t].curr,
         \A i \in DOMAIN frames : i # wr[t].curr.index =>
           HeaderAt(buffer', frames[i].data) = HeaderAt(buffer, frames[i].data),
         label = "header_init" =>
           /\ pc[t] = "copy"
           /\ HeaderAt(buffer', wr[t].curr.data).size = HeaderAt(buffer, wr[t].curr.data).size,
         Shown(wr[t].curr.index) => (Shown(wr[t].curr.index))'
  PROVE  LogInv' /\ [Log!Next]_(Log!logVars)
<1>0. TypeOK /\ ReadInv
  BY DEF LogInv, ReadInv
<1>1. pc'[t] = label /\ \A u \in Writers : u # t => pc'[u] = pc[u]
  BY <1>0, WriterMoves
<1>2. \A u \in Writers : pc'[u] \in Writing => pc[u] \in Writing /\ wr'[u].curr = wr[u].curr
  BY <1>1
<1>3. ASSUME NEW u \in Writers, pc'[u] \in {"copy", "header_init"}
      PROVE  /\ pc[u] \in {"copy", "header_init"}
             /\ HeaderAt(buffer', wr[u].curr.data).size = HeaderAt(buffer, wr[u].curr.data).size
  <2>1. CASE u = t
    BY <1>1, <1>3, <2>1
  <2>2. CASE u # t
    <3>1. pc[u] = pc'[u] /\ pc[u] \in Writing
      BY <1>1, <1>3, <2>2 DEF Writing
    <3>2. wr[u].curr.index # wr[t].curr.index
      BY <2>2, <3>1 DEF LogInv, OwnersDistinct
    <3>3. wr[u].curr.index \in DOMAIN frames /\ frames[wr[u].curr.index].data = wr[u].curr.data
      BY <1>0, <3>1, OwnerFacts
    <3> QED
      BY <1>3, <3>1, <3>2, <3>3
  <2> QED
    BY <2>1, <2>2
<1>4. OwnersDistinct' /\ SizePending'
  BY <1>2, <1>3, OwnersKept
<1>5. PICK own : own = wr[t].curr.index
  OBVIOUS
<1>6. \A i \in DOMAIN frames : i # own => ((Shown(i))' <=> Shown(i))
  BY <1>5 DEF Shown
<1>7. Shown(own) => (Shown(own))'
  <2>1. own = wr'[t].curr.index
    BY <1>5
  <2> QED
    BY <1>5, <2>1 DEF Shown
<1>8. [Log!Next]_(Log!logVars)
  BY <1>0, <1>6, <1>7, PublishOrStutter
<1> QED
  BY <1>4, <1>8 DEF LogInv

(* A writer's frame is not readable before its header is initialised. *)
LEMMA NotYetShown ==
  ASSUME LogInv, NEW t \in Writers, pc[t] \in {"copy", "header_init"}
  PROVE  ~ Shown(wr[t].curr.index)
<1>1. pc[t] \in Writing /\ ReadInv
  BY DEF Writing, LogInv
<1>2. frames[wr[t].curr.index].data = wr[t].curr.data
  BY <1>1, OwnerFacts
<1> QED
  BY <1>2 DEF LogInv, SizePending, Shown

(* The memcpy of the payload touches no other frame. *)
LEMMA CopyToBufferLog ==
  ASSUME LogInv, ReadInv', NEW t \in Writers, CopyToBuffer(t)
  PROVE  LogInv' /\ [Log!Next]_(Log!logVars)
<1> DEFINE off == wr[t].curr.data
           own == wr[t].curr.index
           p   == wr[t].buf
<1>0. /\ TypeOK /\ ReadInv /\ pc[t] = "copy" /\ WriterStep(t)
      /\ pc[t] \in Writing /\ "header_init" \in Writing \ {"copy"}
  BY DEF LogInv, ReadInv, CopyToBuffer, At, Writing, WriterStep
<1>1. CASE ~ InData(off, FrameSize(p))
  BY <1>1, QuietLog DEF CopyToBuffer, Crashes, shared, locals
<1>2. CASE InData(off, FrameSize(p))
  <2>1. IsBuffer(buffer) /\ off \in Nat /\ p \in Payloads
    BY <1>0, OwnerFacts, WriterOffset
  <2>2. /\ buffer' = CopyPayload(buffer, off, p) /\ Goto(t, "header_init")
        /\ UNCHANGED <<w_offset_pair, index, frames, wr>>
    BY <1>2 DEF CopyToBuffer, locals
  <2>3. HeaderAt(buffer', off).size = HeaderAt(buffer, off).size
    BY <2>1, <2>2, CopyPayloadFacts
  <2>4. \A i \in DOMAIN frames : i # own =>
          HeaderAt(buffer', frames[i].data) = HeaderAt(buffer, frames[i].data)
    BY <1>0, StoresToOwnFrame
  <2>5. ~ Shown(own)
    BY <1>0, NotYetShown
  <2> QED
    BY <1>0, <2>2, <2>3, <2>4, <2>5, OwnStoreLog
<1> QED
  BY <1>1, <1>2

(* header_init comes before the frame is readable. *)
LEMMA InitHeaderLog ==
  ASSUME LogInv, ReadInv', NEW t \in Writers, InitHeader(t)
  PROVE  LogInv' /\ [Log!Next]_(Log!logVars)
<1>0. /\ TypeOK /\ ReadInv /\ pc[t] = "header_init" /\ WriterStep(t)
      /\ pc[t] \in Writing /\ "header" \in Writing \ {"copy"}
  BY DEF LogInv, ReadInv, InitHeader, At, Writing, WriterStep
<1>1. \A i \in DOMAIN frames : i # wr[t].curr.index =>
        HeaderAt(buffer', frames[i].data) = HeaderAt(buffer, frames[i].data)
  BY <1>0, StoresToOwnFrame
<1>2. wr'[t].curr = wr[t].curr /\ \A u \in Writers : u # t => wr'[u] = wr[u]
  BY <1>0 DEF TypeOK, ThreadsTypeOK, WriterState, InitHeader, HeaderFields
<1>3. Goto(t, "header") /\ UNCHANGED <<w_offset_pair, index, frames>>
  BY DEF InitHeader
<1>4. ~ Shown(wr[t].curr.index)
  BY <1>0, NotYetShown
<1> QED
  BY <1>0, <1>1, <1>2, <1>3, <1>4, OwnStoreLog

(* The stores of the size and of READY can only publish the frame. *)
LEMMA StoreHeaderFieldLog ==
  ASSUME LogInv, ReadInv', NEW t \in Writers, NEW field \in {"size", "flags"},
         StoreHeaderField(t, field)
  PROVE  LogInv' /\ [Log!Next]_(Log!logVars)
<1> DEFINE off == wr[t].curr.data
           own == wr[t].curr.index
<1>0. /\ TypeOK /\ ReadInv /\ pc[t] = "header" /\ pc[t] \in Writing /\ WriterStep(t)
      /\ "header" \in Writing \ {"copy"} /\ "index" \in Writing \ {"copy"}
  BY DEF LogInv, ReadInv, StoreHeaderField, At, Writing, WriterStep
<1>1. /\ off \in Nat /\ IsBuffer(buffer) /\ frames[own].data = off /\ own \in DOMAIN frames
      /\ FrameSize(wr[t].buf) \in Nat /\ FrameSize(wr[t].buf) >= 12
  BY <1>0, OwnerFacts, WriterOffset
<1>2. /\ HeaderAt(buffer, off).flags = "READY" => HeaderAt(buffer', off).flags = "READY"
      /\ HeaderAt(buffer, off).size # 0 => HeaderAt(buffer', off).size # 0
  <2>1. CASE field = "size"
    <3>1. buffer' = StoreSize(buffer, off, FrameSize(wr[t].buf))
      BY <2>1 DEF StoreHeaderField
    <3>2. /\ HeaderAt(buffer', off).size = FrameSize(wr[t].buf)
          /\ HeaderAt(buffer', off).flags = HeaderAt(buffer, off).flags
      BY <1>1, <3>1, StoreSizeFacts
    <3> QED
      BY <1>1, <3>2
  <2>2. CASE field = "flags"
    <3>1. buffer' = StoreFlags(buffer, off, "READY") /\ "READY" \in HeaderFlags
      BY <2>2 DEF StoreHeaderField, HeaderFlags
    <3> QED
      BY <1>1, <3>1, StoreFlagsFacts
  <2> QED
    BY <2>1, <2>2
<1>3. \A i \in DOMAIN frames : i # own =>
        HeaderAt(buffer', frames[i].data) = HeaderAt(buffer, frames[i].data)
  BY <1>0, StoresToOwnFrame
<1>4. wr'[t].curr = wr[t].curr /\ \A u \in Writers : u # t => wr'[u] = wr[u]
  BY <1>0 DEF TypeOK, ThreadsTypeOK, WriterState, StoreHeaderField
<1>5. /\ Goto(t, "header") \/ Goto(t, "index")
      /\ UNCHANGED <<w_offset_pair, index, frames>>
  BY DEF StoreHeaderField
<1>6. Shown(own) => (Shown(own))'
  BY <1>1, <1>2, <1>4, <1>5 DEF Shown
<1> QED
  BY <1>0, <1>3, <1>4, <1>5, <1>6, OwnStoreLog

(* The store of the index entry can only publish the frame. *)
LEMMA StoreIndexEntryLog ==
  ASSUME LogInv, ReadInv', NEW t \in Writers, StoreIndexEntry(t)
  PROVE  LogInv' /\ [Log!Next]_(Log!logVars)
<1>0. TypeOK /\ ReadInv /\ pc[t] \in Writing
  BY DEF LogInv, ReadInv, StoreIndexEntry, At, Writing
<1>1. PICK own : own = wr[t].curr.index
  OBVIOUS
<1>2. CASE own \notin Entry
  BY <1>1, <1>2, QuietLog DEF StoreIndexEntry, Crashes, shared, locals
<1>3. CASE own \in Entry
  <2>1. /\ index' = [index EXCEPT ![own] = wr[t].curr.data]
        /\ Goto(t, "idle")
        /\ wr' = [wr EXCEPT ![t] = IdleWriter(SizeOf[wr[t].buf])]
        /\ UNCHANGED <<w_offset_pair, buffer, frames>>
    BY <1>1, <1>3 DEF StoreIndexEntry, WriteReturns
  <2>2. pc'[t] = "idle" /\ \A u \in Writers : u # t => pc'[u] = pc[u] /\ wr'[u] = wr[u]
    <3>1. wr \in [Writers -> WriterState]
      BY <1>0 DEF TypeOK, ThreadsTypeOK
    <3> QED
      BY <1>0, <2>1, <3>1, WriterMoves
  <2>3. OwnersDistinct' /\ SizePending'
    BY <2>1, <2>2, OwnersKept DEF Writing
  <2>4. index \in [Entry -> Nat] /\ frames[own].data = wr[t].curr.data
    BY <1>0, <1>1, OwnerFacts DEF TypeOK, MapsTypeOK
  <2>5. \A i \in DOMAIN frames : i # own => ((Shown(i))' <=> Shown(i))
    BY <2>1, <2>4 DEF Shown
  <2>6. Shown(own) => (Shown(own))'
    BY <1>3, <2>1, <2>4 DEF Shown
  <2>7. [Log!Next]_(Log!logVars)
    BY <1>0, <2>1, <2>5, <2>6, PublishOrStutter
  <2> QED
    BY <2>3, <2>7 DEF LogInv
<1> QED
  BY <1>2, <1>3

(* mark_eos reserves a header without an entry. *)
LEMMA MarkEosLog ==
  ASSUME LogInv, ReadInv', NEW t \in Writers, mark_eos(t)
  PROVE  LogInv' /\ [Log!Next]_(Log!logVars)
<1>1. /\ TypeOK /\ ReadInv /\ w_offset_pair'.index = w_offset_pair.index
      /\ Goto(t, "eos_header") /\ UNCHANGED <<index, buffer, frames, wr>>
  BY DEF LogInv, ReadInv, mark_eos, claim, locals
<1>2. pc'[t] = "eos_header" /\ \A u \in Writers : u # t => pc'[u] = pc[u]
  BY <1>1, WriterMoves
<1>3. OwnersDistinct' /\ SizePending'
  BY <1>1, <1>2, OwnersKept DEF Writing
<1>4. [Log!Next]_(Log!logVars)
  BY <1>1, Invisible
<1> QED
  BY <1>3, <1>4 DEF LogInv

(* The stores to an EOS header touch no frame. *)
LEMMA EosStepsLog ==
  ASSUME LogInv, ReadInv', NEW t \in Writers, InitEosHeader(t) \/ StoreEosFlags(t)
  PROVE  LogInv' /\ [Log!Next]_(Log!logVars)
<1>0. TypeOK /\ ReadInv /\ WriterStep(t) /\ pc[t] \notin Writing
  BY DEF LogInv, ReadInv, InitEosHeader, StoreEosFlags, At, Writing, WriterStep
<1>1. /\ UNCHANGED <<w_offset_pair, index, frames>>
      /\ \A u \in Writers : u # t => wr'[u] = wr[u]
      /\ Goto(t, "eos_mark") \/ Goto(t, "idle") \/ UNCHANGED pc
  BY <1>0 DEF InitEosHeader, StoreEosFlags, WriteReturns, Crashes, shared, locals,
              TypeOK, ThreadsTypeOK
<1>2. pc'[t] \notin Writing /\ \A u \in Writers : u # t => pc'[u] = pc[u]
  BY <1>0, <1>1, WriterMoves DEF Writing
<1>3. \A i \in DOMAIN frames : HeaderAt(buffer', frames[i].data) = HeaderAt(buffer, frames[i].data)
  BY <1>0, StoresToOwnFrame
<1>4. \A u \in Writers : pc'[u] \in Writing => pc[u] \in Writing /\ wr'[u].curr = wr[u].curr
  BY <1>1, <1>2
<1>5. ASSUME NEW u \in Writers, pc'[u] \in {"copy", "header_init"}
      PROVE  /\ pc[u] \in {"copy", "header_init"}
             /\ HeaderAt(buffer', wr[u].curr.data).size = HeaderAt(buffer, wr[u].curr.data).size
  <2>1. pc[u] = pc'[u] /\ pc[u] \in Writing
    BY <1>2, <1>5 DEF Writing
  <2>2. wr[u].curr.index \in DOMAIN frames /\ frames[wr[u].curr.index].data = wr[u].curr.data
    BY <1>0, <2>1, OwnerFacts
  <2> QED
    BY <1>3, <1>5, <2>1, <2>2
<1>6. OwnersDistinct' /\ SizePending'
  BY <1>1, <1>4, <1>5, OwnersKept
<1>7. [Log!Next]_(Log!logVars)
  BY <1>0, <1>1, <1>3, Invisible
<1> QED
  BY <1>6, <1>7 DEF LogInv

(* An empty segment is an empty log. *)
LEMMA InitLog == Init => LogInv /\ Log!Init
<1> SUFFICES ASSUME Init PROVE LogInv /\ Log!Init
  OBVIOUS
<1>1. ReadInv
  BY InitReadInv
<1>2. \A t \in Writers : pc[t] = "idle"
  BY DEF Init, Threads
<1>3. OwnersDistinct /\ SizePending
  BY <1>2 DEF OwnersDistinct, SizePending, Writing
<1>4. DOMAIN frames = {} /\ w_offset_pair.index = 0
  BY DEF Init
<1>5. [i \in DOMAIN frames |-> frames[i].payload] = [i \in {} |-> CHOOSE p \in Payloads : TRUE]
  BY <1>4
<1>6. {i \in DOMAIN frames : Readable(i)} = {}
  BY <1>4
<1> QED
  BY <1>1, <1>3, <1>4, <1>5, <1>6 DEF LogInv, Log!Init

(* Every step of Segment keeps the invariant and is a step of the log. *)
LEMMA NextLog ==
  ASSUME LogInv, [Next]_vars
  PROVE  LogInv' /\ [Log!Next]_(Log!logVars)
<1>0. ReadInv'
  BY NextReadInv DEF LogInv
<1>1. ASSUME NEW t \in Writers, WriterStep(t) \/ \E p \in Payloads : segment_write(t, p)
      PROVE  LogInv' /\ [Log!Next]_(Log!logVars)
  BY <1>0, <1>1, WriterQuietLog, ClaimFrameLog, CopyToBufferLog, InitHeaderLog,
     StoreHeaderFieldLog, StoreIndexEntryLog, MarkEosLog, EosStepsLog
  DEF WriterStep
<1>2. ASSUME NEW t \in Readers,
             ReaderStep(t) \/ \E rel \in 0 .. MaxWrites - 1 : segment_read(t, rel)
      PROVE  LogInv' /\ [Log!Next]_(Log!logVars)
  BY <1>0, <1>2, OthersQuietLog
<1>3. ASSUME NEW t \in Syncers, SyncerStep(t) \/ segment_sync(t)
      PROVE  LogInv' /\ [Log!Next]_(Log!logVars)
  BY <1>0, <1>3, OthersQuietLog
<1>4. CASE UNCHANGED vars
  BY <1>0, <1>4, QuietLog DEF vars, shared, locals
<1> QED
  BY <1>1, <1>2, <1>3, <1>4 DEF Next

(* A segment implements the immutable log, for any number of producers,    *)
(* consumers and syncing threads: offsets are given out one by one, the    *)
(* payload of an offset is fixed by the claim, and what segment_read can   *)
(* once return it can return ever after.                                   *)
THEOREM SegmentImplementsLog == Spec => ImplementsLog
<1>1. Init => LogInv /\ Log!Init
  BY InitLog
<1>2. LogInv /\ [Next]_vars => LogInv' /\ [Log!Next]_(Log!logVars)
  BY NextLog
<1> QED
  BY <1>1, <1>2, PTL DEF Spec, ImplementsLog, Log!Spec
=============================================================================
