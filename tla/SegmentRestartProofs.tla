------------------------ MODULE SegmentRestartProofs ------------------------
(***************************************************************************)
(* How a segment ends, with one producer as mqlog's mutex gives it: the    *)
(* EOS header always has its place, and nothing is reserved behind it.     *)
(* And that the sync offset, with one syncing thread, never goes back, for *)
(* any number of deaths, crashes of the machine and reopenings.            *)
(***************************************************************************)
EXTENDS SegmentRestart, SegmentSyncProofs, WellFoundedInduction

(* No two threads call segment_write on the segment. *)
OneProducer == \A t, u \in Writers : t = u

(* There is room for an EOS header behind what has been reserved. *)
RoomLeft == w_offset_pair.data + HeaderSize <= Size

(* No header says EOS; the only one that does is what was reserved last. *)
NoEos   == \A x \in DOMAIN buffer : buffer[x].flags # "EOS"
EosLast == \A x \in DOMAIN buffer : buffer[x].flags = "EOS" => x + HeaderSize = w_offset_pair.data

(* What the producer has found out, and still holds. *)
EosProgress(t) ==
  /\ pc[t] = "eos_flags" => wr[t].last + HeaderSize = w_offset_pair.data
  /\ pc[t] \in {"curr", "claim", "mark_eos"} => NoEos /\ RoomLeft
  /\ pc[t] = "claim" => wr[t].curr.data + FrameSize(wr[t].buf) + HeaderSize <= Size
  /\ pc[t] \in Writing => /\ RoomLeft
                          /\ wr[t].curr.data + FrameSize(wr[t].buf) = w_offset_pair.data
  /\ pc[t] \in EosLabels => wr[t].curr.data + HeaderSize = w_offset_pair.data
  /\ pc[t] \in {"copy"} \cup EosLabels => NoEos

EosInv == SpaceForEos /\ EosLast /\ \A t \in Writers : EosProgress(t)

-----------------------------------------------------------------------------
USE DEF HeaderSize

LEMMA EosKept ==
  ASSUME EosInv, UNCHANGED <<w_offset_pair, buffer, wr>>,
         \A u \in Writers : pc'[u] = pc[u]
  PROVE  EosInv'
<1>1. SpaceForEos'
  BY DEF EosInv, SpaceForEos, EosReserved
<1>2. EosLast'
  BY DEF EosInv, EosLast
<1>3. \A t \in Writers : EosProgress(t)'
  BY DEF EosInv, EosProgress, NoEos, RoomLeft
<1> QED BY <1>1, <1>2, <1>3 DEF EosInv

(* With one producer its own step is all there is to show. *)
LEMMA OnlyProducer ==
  ASSUME OneProducer, NEW t \in Writers, SpaceForEos', EosLast', EosProgress(t)'
  PROVE  EosInv'
BY DEF EosInv, OneProducer

LEMMA OffsetType == ASSUME TypeOK PROVE w_offset_pair.data \in Nat /\ w_offset_pair.index \in Nat
BY DEF TypeOK, OffsetsTypeOK, Pair

(* An unsealed segment has room, while nobody is writing an EOS header. *)
LEMMA Unsealed ==
  ASSUME TypeOK, EosInv, OneProducer, NEW t \in Writers, pc[t] \notin EosLabels,
         \/ w_offset_pair.data < HeaderSize
         \/ HeaderAt(buffer, w_offset_pair.data - HeaderSize).flags # "EOS"
  PROVE  NoEos /\ RoomLeft
<1>1. w_offset_pair.data \in Nat /\ IsBuffer(buffer) /\ DOMAIN buffer \subseteq Nat
  BY OffsetType DEF TypeOK, MapsTypeOK, IsBuffer
<1>2. HeaderAt(buffer, w_offset_pair.data - HeaderSize).flags # "EOS"
  <2>1. CASE w_offset_pair.data < HeaderSize
    <3>1. w_offset_pair.data - HeaderSize \notin DOMAIN buffer
      BY <1>1, <2>1
    <3> QED BY <3>1 DEF HeaderAt, ZeroHeader
  <2> QED BY <2>1
<1>3. ~ EosReserved
  BY <1>2 DEF EosReserved, OneProducer, EosLabels
<1>4. RoomLeft
  BY <1>3 DEF EosInv, SpaceForEos, RoomLeft
<1>5. ASSUME NEW x \in DOMAIN buffer, buffer[x].flags = "EOS" PROVE FALSE
  <2>1. x = w_offset_pair.data - HeaderSize
    BY <1>1, <1>5 DEF EosInv, EosLast
  <2> QED BY <1>2, <1>5, <2>1 DEF HeaderAt
<1> QED BY <1>4, <1>5 DEF NoEos

(* The steps of segment_write before the reservation. *)
LEMMA EosBeforeClaim ==
  ASSUME TypeOK, EosInv, OneProducer, NEW t \in Writers,
         \/ \E p \in Payloads : segment_write(t, p)
         \/ marked_eos(t) \/ CheckEosFlags(t) \/ ReadWriteOffset(t) \/ ClaimLost(t)
  PROVE  EosInv'
<1>0. /\ t \in Threads /\ pc \in [Threads -> WriterLabels \cup ReaderLabels \cup SyncerLabels]
      /\ wr \in [Writers -> WriterState] /\ w_offset_pair.data \in Nat
  BY OffsetType DEF Threads, TypeOK, ThreadsTypeOK
<1>1. UNCHANGED <<w_offset_pair, buffer>>
  BY DEF segment_write, marked_eos, CheckEosFlags, ReadWriteOffset, ClaimLost, shared
<1>2. pc[t] \notin EosLabels /\ pc'[t] \notin EosLabels
  BY <1>0 DEF segment_write, marked_eos, CheckEosFlags, ReadWriteOffset, ClaimLost, At, Goto,
              WriteReturns, EosLabels
<1>3. SpaceForEos'
  BY <1>1, <1>2 DEF EosInv, SpaceForEos, EosReserved, OneProducer, EosLabels
<1>4. EosLast'
  BY <1>1 DEF EosInv, EosLast
<1>5. (NoEos' = NoEos) /\ (RoomLeft' = RoomLeft)
  BY <1>1 DEF NoEos, RoomLeft
<1>6. EosProgress(t)'
  <2>1. CASE pc'[t] \in {"idle", "marked_eos"}
    BY <2>1 DEF EosProgress, Writing, EosLabels
  <2>2. CASE marked_eos(t) /\ ~ (w_offset_pair.data < HeaderSize)
    <3>1. pc'[t] = "eos_flags" /\ wr'[t].last = w_offset_pair.data - HeaderSize
      BY <1>0, <2>2 DEF marked_eos, Goto, LastHeader, WriterState
    <3> QED BY <1>0, <1>1, <3>1 DEF EosProgress, Writing, EosLabels
  <2>3. CASE marked_eos(t) /\ w_offset_pair.data < HeaderSize
    <3>1. pc'[t] = "curr" /\ NoEos /\ RoomLeft
      BY <1>0, <1>2, <2>3, Unsealed DEF marked_eos, Goto
    <3> QED BY <1>5, <3>1 DEF EosProgress, Writing, EosLabels
  <2>4. CASE CheckEosFlags(t) /\ pc'[t] # "idle"
    <3>1. pc'[t] = "curr" /\ pc[t] = "eos_flags" /\ HeaderAt(buffer, wr[t].last).flags # "EOS"
      BY <1>0, <2>4 DEF CheckEosFlags, At, Goto, WriteReturns
    <3>2. wr[t].last = w_offset_pair.data - HeaderSize
      BY <1>0, <3>1 DEF EosInv, EosProgress, WriterState
    <3>3. NoEos /\ RoomLeft
      BY <1>2, <3>1, <3>2, Unsealed
    <3> QED BY <1>5, <3>1, <3>3 DEF EosProgress, Writing, EosLabels
  <2>5. CASE ReadWriteOffset(t)
    <3>1. /\ pc[t] = "curr" /\ wr'[t].curr = w_offset_pair /\ wr'[t].buf = wr[t].buf
          /\ pc'[t] = IF HasRoom(Size, w_offset_pair.data, wr[t].buf) THEN "claim" ELSE "mark_eos"
      BY <1>0, <2>5 DEF ReadWriteOffset, At, Goto, WriterState
    <3>2. NoEos /\ RoomLeft
      BY <3>1 DEF EosInv, EosProgress
    <3>3. wr[t].buf \in Payloads /\ FrameSize(wr[t].buf) \in Nat /\ Size \in Nat
      BY <3>1, WriterOffset, FrameSizeType, SizeAssumption
    <3>4. pc'[t] = "claim" => w_offset_pair.data + FrameSize(wr[t].buf) + HeaderSize <= Size
      BY <1>0, <3>1, <3>2, <3>3 DEF HasRoom, RoomLeft
    <3> QED BY <1>5, <3>1, <3>2, <3>4 DEF EosProgress, Writing, EosLabels
  <2>6. (\E p \in Payloads : segment_write(t, p)) \/ ClaimLost(t) => pc'[t] \in {"idle", "marked_eos"}
    BY <1>0 DEF segment_write, ClaimLost, WriteReturns, Goto
  <2> QED BY <2>1, <2>2, <2>3, <2>4, <2>5, <2>6
<1> QED BY <1>3, <1>4, <1>6, OnlyProducer

(* The reservations: of a frame, behind which an EOS header still fits, *)
(* and of the EOS header.                                               *)
LEMMA EosClaims ==
  ASSUME TypeOK, EosInv, OneProducer, NEW t \in Writers, ClaimFrame(t) \/ mark_eos(t)
  PROVE  EosInv' /\ NoEos
<1>0. /\ t \in Threads /\ pc \in [Threads -> WriterLabels \cup ReaderLabels \cup SyncerLabels]
      /\ w_offset_pair.data \in Nat /\ Size \in Nat
      /\ pc[t] \in {"claim", "mark_eos"} /\ w_offset_pair = wr[t].curr
      /\ UNCHANGED <<buffer, wr>>
  BY OffsetType, SizeAssumption
  DEF Threads, TypeOK, ThreadsTypeOK, ClaimFrame, mark_eos, At, claim, locals
<1>1. wr[t].buf \in Payloads /\ FrameSize(wr[t].buf) \in Nat
  BY <1>0, WriterOffset, FrameSizeType
<1>2. NoEos /\ RoomLeft
  BY <1>0 DEF EosInv, EosProgress
<1>3. NoEos' /\ EosLast'
  BY <1>0, <1>2 DEF NoEos, EosLast
<1>4. CASE ClaimFrame(t)
  <2>1. pc'[t] = "copy" /\ w_offset_pair'.data = wr[t].curr.data + FrameSize(wr[t].buf)
    BY <1>0, <1>4 DEF ClaimFrame, Goto, claim, Claimed
  <2>2. wr[t].curr.data + FrameSize(wr[t].buf) + HeaderSize <= Size
    BY <1>4 DEF ClaimFrame, At, EosInv, EosProgress
  <2>3. RoomLeft' /\ SpaceForEos'
    BY <2>1, <2>2 DEF RoomLeft, SpaceForEos
  <2>4. EosProgress(t)'
    BY <1>0, <1>3, <2>1, <2>3 DEF EosProgress, Writing, EosLabels
  <2> QED BY <1>2, <1>3, <2>3, <2>4, OnlyProducer
<1>5. CASE mark_eos(t)
  <2>1. pc'[t] = "eos_header" /\ w_offset_pair'.data = wr[t].curr.data + HeaderSize
    BY <1>0, <1>5 DEF mark_eos, Goto, claim
  <2>2. w_offset_pair'.data <= Size
    BY <1>0, <1>2, <2>1 DEF RoomLeft
  <2>3. EosReserved'
    BY <1>0, <2>1 DEF EosReserved
  <2>4. EosProgress(t)'
    BY <1>0, <1>3, <2>1 DEF EosProgress, Writing, EosLabels
  <2> QED BY <1>2, <1>3, <2>2, <2>3, <2>4, OnlyProducer DEF SpaceForEos
<1> QED BY <1>4, <1>5

(* The stores of a frame.  The last bytes of its payload may read as an    *)
(* EOS header; they lie just below the write offset.                       *)
LEMMA EosFrameStores ==
  ASSUME TypeOK, TypeOK', EosInv, OneProducer, NEW t \in Writers,
         \/ CopyToBuffer(t) \/ InitHeader(t) \/ StoreIndexEntry(t)
         \/ \E field \in {"size", "flags"} : StoreHeaderField(t, field)
  PROVE  EosInv'
<1> DEFINE off == wr[t].curr.data
<1>0. /\ t \in Threads /\ pc \in [Threads -> WriterLabels \cup ReaderLabels \cup SyncerLabels]
      /\ wr \in [Writers -> WriterState]
      /\ w_offset_pair.data \in Nat /\ off \in Nat /\ pc[t] \in Writing /\ pc[t] # "idle"
      /\ w_offset_pair' = w_offset_pair
      /\ IsBuffer(buffer) /\ DOMAIN buffer \subseteq Nat
  BY OffsetType, WriterOffset
  DEF Threads, TypeOK, ThreadsTypeOK, CopyToBuffer, InitHeader, StoreIndexEntry, StoreHeaderField,
      At, Crashes, shared, Writing, IsBuffer
<1>1. wr[t].buf \in Payloads /\ FrameSize(wr[t].buf) \in Nat
      /\ FrameSize(wr[t].buf) = HeaderSize + SizeOf[wr[t].buf] /\ SizeOf[wr[t].buf] \in Nat
  BY <1>0, WriterOffset, FrameSizeType
<1>2. RoomLeft /\ off + FrameSize(wr[t].buf) = w_offset_pair.data
  BY <1>0 DEF EosInv, EosProgress
<1>3. RoomLeft' /\ SpaceForEos'
  BY <1>0, <1>2 DEF RoomLeft, SpaceForEos
<1>4. CASE Crashes
  BY <1>4, EosKept DEF Crashes, shared, locals
<1>5. CASE ~ Crashes
  <2>1. pc'[t] \in {"header_init", "header", "index", "idle"}
    BY <1>0, <1>5 DEF CopyToBuffer, InitHeader, StoreIndexEntry, StoreHeaderField, Goto, WriteReturns
  <2>2. pc'[t] # "idle" => wr'[t].curr = wr[t].curr /\ wr'[t].buf = wr[t].buf
    BY <1>0, <1>5 DEF CopyToBuffer, InitHeader, StoreIndexEntry, StoreHeaderField, Goto, WriteReturns,
                      WriterState, locals
  <2>3. EosProgress(t)'
    BY <1>0, <1>2, <1>3, <2>1, <2>2 DEF EosProgress, Writing, EosLabels
  <2>4. EosLast'
    <3>1. ASSUME \A x \in Nat : x # off => HeaderAt(buffer', x).flags = HeaderAt(buffer, x).flags,
                 HeaderAt(buffer', off).flags # "EOS" \/ HeaderAt(buffer', off).flags = HeaderAt(buffer, off).flags
          PROVE  EosLast'
      <4> SUFFICES ASSUME NEW x \in DOMAIN buffer', buffer'[x].flags = "EOS"
                   PROVE  x + HeaderSize = w_offset_pair'.data
        BY DEF EosLast
      <4>1. x \in Nat
        BY DEF TypeOK, MapsTypeOK, IsBuffer
      <4>2. HeaderAt(buffer, x).flags = "EOS"
        BY <3>1, <4>1 DEF HeaderAt
      <4>3. x \in DOMAIN buffer /\ buffer[x].flags = "EOS"
        BY <4>2 DEF HeaderAt, ZeroHeader
      <4> QED BY <1>0, <4>3 DEF EosInv, EosLast
    <3>2. CASE StoreIndexEntry(t)
      BY <1>5, <3>1, <3>2 DEF StoreIndexEntry
    <3>3. CASE InitHeader(t)
      <4>1. buffer' = StoreFlags(buffer, off, "EMPTY") /\ "EMPTY" \in HeaderFlags
        BY <3>3 DEF InitHeader, header_init, HeaderFlags
      <4>2. /\ HeaderAt(buffer', off).flags = "EMPTY"
            /\ \A x \in Int : x # off => HeaderAt(buffer', x) = HeaderAt(buffer, x)
        BY <1>0, <4>1, StoreFlagsFacts
      <4> QED BY <3>1, <4>2
    <3>4. ASSUME StoreHeaderField(t, "size") PROVE EosLast'
      <4>1. buffer' = StoreSize(buffer, off, FrameSize(wr[t].buf))
        BY <3>4 DEF StoreHeaderField
      <4>2. /\ HeaderAt(buffer', off).flags = HeaderAt(buffer, off).flags
            /\ \A x \in Int : x # off => HeaderAt(buffer', x) = HeaderAt(buffer, x)
        BY <1>0, <1>1, <4>1, StoreSizeFacts
      <4> QED BY <3>1, <4>2
    <3>5. ASSUME StoreHeaderField(t, "flags") PROVE EosLast'
      <4>1. buffer' = StoreFlags(buffer, off, "READY") /\ "READY" \in HeaderFlags
        BY <3>5 DEF StoreHeaderField, HeaderFlags
      <4>2. /\ HeaderAt(buffer', off).flags = "READY"
            /\ \A x \in Int : x # off => HeaderAt(buffer', x) = HeaderAt(buffer, x)
        BY <1>0, <4>1, StoreFlagsFacts
      <4> QED BY <3>1, <4>2
    <3>6. CASE CopyToBuffer(t)
      <4>1. buffer' = CopyPayload(buffer, off, wr[t].buf) /\ pc[t] = "copy"
        BY <1>5, <3>6 DEF CopyToBuffer, At
      <4>2. \A x \in Nat : HeaderAt(buffer, x).flags # "EOS"
        BY <4>1 DEF EosInv, EosProgress, NoEos, HeaderAt, ZeroHeader
      <4> SUFFICES ASSUME NEW x \in DOMAIN buffer', buffer'[x].flags = "EOS"
                   PROVE  x + HeaderSize = w_offset_pair'.data
        BY DEF EosLast
      <4>3. x \in Nat /\ HeaderAt(buffer', x).flags = "EOS"
        BY DEF TypeOK, MapsTypeOK, IsBuffer, HeaderAt
      <4>4. /\ HeaderAt(buffer', off).flags = HeaderAt(buffer, off).flags
            /\ x < off \/ x >= off + FrameSize(wr[t].buf) => HeaderAt(buffer', x) = HeaderAt(buffer, x)
            /\ off < x /\ x < off + FrameSize(wr[t].buf) =>
                 HeaderAt(buffer', x) = ZeroHeader \/ x = off + SizeOf[wr[t].buf]
        <5>1. PICK new, o, p : new = buffer' /\ o = off /\ p = wr[t].buf
          OBVIOUS
        <5>2. IsBuffer(buffer) /\ o \in Nat /\ p \in Payloads /\ new = CopyPayload(buffer, o, p)
          BY <1>0, <1>1, <4>1, <5>1
        <5>3. HeaderAt(new, o).flags = HeaderAt(buffer, o).flags
          BY <5>2, CopyPayloadFacts
        <5>4. \A y \in Nat : y < o \/ y >= o + FrameSize(p) => HeaderAt(new, y) = HeaderAt(buffer, y)
          BY <5>2, CopyPayloadFacts
        <5>5. \A y \in Nat : o < y /\ y < o + FrameSize(p) =>
                HeaderAt(new, y) = ZeroHeader \/ y = o + SizeOf[p]
          BY <5>2, CopyPayloadFacts
        <5> QED BY <4>3, <5>1, <5>3, <5>4, <5>5
      <4>5. x = off + SizeOf[wr[t].buf]
        BY <1>0, <1>1, <4>2, <4>3, <4>4 DEF ZeroHeader
      <4> QED BY <1>0, <1>1, <1>2, <4>5
    <3> QED BY <3>2, <3>3, <3>4, <3>5, <3>6
  <2> QED BY <1>3, <2>3, <2>4, OnlyProducer
<1> QED BY <1>4, <1>5

(* The stores of the EOS header. *)
LEMMA EosHeaderStores ==
  ASSUME TypeOK, TypeOK', EosInv, OneProducer, NEW t \in Writers, InitEosHeader(t) \/ StoreEosFlags(t)
  PROVE  EosInv'
<1> DEFINE off == wr[t].curr.data
<1>0. /\ t \in Threads /\ pc \in [Threads -> WriterLabels \cup ReaderLabels \cup SyncerLabels]
      /\ wr \in [Writers -> WriterState]
      /\ w_offset_pair.data \in Nat /\ off \in Nat /\ pc[t] \in EosLabels
      /\ w_offset_pair' = w_offset_pair
      /\ IsBuffer(buffer) /\ DOMAIN buffer \subseteq Nat
  BY OffsetType, WriterOffset
  DEF Threads, TypeOK, ThreadsTypeOK, InitEosHeader, StoreEosFlags, At, Crashes, shared, EosLabels, IsBuffer
<1>1. NoEos /\ off + HeaderSize = w_offset_pair.data
  BY <1>0 DEF EosInv, EosProgress
<1>2. w_offset_pair.data <= Size
  BY <1>0, SizeAssumption DEF EosInv, SpaceForEos
<1>3. \A x \in Nat : HeaderAt(buffer, x).flags # "EOS"
  BY <1>1 DEF NoEos, HeaderAt, ZeroHeader
<1>4. "EMPTY" \in HeaderFlags /\ "EOS" \in HeaderFlags
  BY DEF HeaderFlags
<1>5. CASE Crashes
  BY <1>5, EosKept DEF Crashes, shared, locals
<1>6. CASE InitEosHeader(t) /\ ~ Crashes
  <2>1. pc'[t] = "eos_mark" /\ wr' = wr /\ buffer' = StoreSize(header_init(buffer, off), off, HeaderSize)
    BY <1>0, <1>6 DEF InitEosHeader, Goto, locals
  <2>2. PICK mid : mid = StoreFlags(buffer, off, "EMPTY")
    OBVIOUS
  <2>3. /\ IsBuffer(mid) /\ HeaderAt(mid, off).flags = "EMPTY"
        /\ \A x \in Int : x # off => HeaderAt(mid, x) = HeaderAt(buffer, x)
    <3>1. IsBuffer(mid)
      BY <1>0, <1>4, <2>2, StoreFlagsDomain
    <3>2. HeaderAt(mid, off).flags = "EMPTY"
      BY <1>0, <1>4, <2>2, StoreFlagsFacts
    <3>3. \A x \in Int : x # off => HeaderAt(mid, x) = HeaderAt(buffer, x)
      BY <1>0, <1>4, <2>2, StoreFlagsFacts
    <3> QED BY <3>1, <3>2, <3>3
  <2>4. buffer' = StoreSize(mid, off, HeaderSize)
    BY <2>1, <2>2 DEF header_init
  <2>5. /\ HeaderAt(buffer', off).flags = HeaderAt(mid, off).flags
        /\ \A x \in Int : x # off => HeaderAt(buffer', x) = HeaderAt(mid, x)
    BY <1>0, <2>3, <2>4, StoreSizeFacts
  <2>6. \A x \in Nat : HeaderAt(buffer', x).flags # "EOS"
    BY <1>3, <2>3, <2>5
  <2>7. NoEos' /\ EosLast'
    BY <2>6 DEF NoEos, EosLast, HeaderAt, TypeOK, MapsTypeOK, IsBuffer
  <2>8. EosReserved'
    BY <1>0, <1>1, <2>1 DEF EosReserved
  <2>9. EosProgress(t)'
    BY <1>0, <1>1, <2>1, <2>7 DEF EosProgress, Writing, EosLabels
  <2> QED BY <1>0, <1>2, <2>7, <2>8, <2>9, OnlyProducer DEF SpaceForEos
<1>7. CASE StoreEosFlags(t)
  <2>1. pc'[t] = "idle" /\ buffer' = StoreFlags(buffer, off, "EOS")
    BY <1>0, <1>7 DEF StoreEosFlags, WriteReturns, Goto
  <2>2. /\ HeaderAt(buffer', off).flags = "EOS"
        /\ \A x \in Int : x # off => HeaderAt(buffer', x) = HeaderAt(buffer, x)
    BY <1>0, <1>4, <2>1, StoreFlagsFacts
  <2>3. \A x \in DOMAIN buffer' : x \in Nat /\ buffer'[x] = HeaderAt(buffer', x)
    BY DEF HeaderAt, TypeOK, MapsTypeOK, IsBuffer
  <2>4. EosLast'
    BY <1>0, <1>1, <1>3, <2>2, <2>3 DEF EosLast
  <2>5. off = w_offset_pair'.data - HeaderSize
    BY <1>0, <1>1
  <2>6. EosReserved'
    BY <2>2, <2>5 DEF EosReserved
  <2>7. EosProgress(t)'
    BY <2>1 DEF EosProgress, Writing, EosLabels
  <2> QED BY <1>0, <1>2, <2>4, <2>6, <2>7, OnlyProducer DEF SpaceForEos
<1> QED BY <1>5, <1>6, <1>7 DEF StoreEosFlags

LEMMA InitEos == Init => EosInv
<1> SUFFICES ASSUME Init PROVE EosInv
  OBVIOUS
<1>1. SpaceForEos
  BY SizeAssumption, PageAssumption DEF Init, SpaceForEos
<1>2. EosLast
  BY DEF Init, EosLast
<1>3. \A t \in Writers : EosProgress(t)
  BY DEF Init, EosProgress, Writing, EosLabels, Threads
<1> QED BY <1>1, <1>2, <1>3 DEF EosInv

(* A frame is reserved only where no header says EOS. *)
LEMMA NextEos ==
  ASSUME TypeOK, EosInv, OneProducer, [Next]_vars
  PROVE  EosInv' /\ (NoEos \/ frames' = frames)
<1>0. TypeOK'
  BY NextType
<1>1. ASSUME NEW t \in Readers, ReaderStep(t) \/ \E rel \in 0 .. MaxWrites - 1 : segment_read(t, rel)
      PROVE  EosInv' /\ frames' = frames
  <2>1. /\ UNCHANGED <<w_offset_pair, buffer, wr, frames>>
        /\ \A u \in Writers : pc'[u] = pc[u]
    BY <1>1, ReaderShape
  <2> QED BY <2>1, EosKept
<1>2. ASSUME NEW t \in Syncers, SyncerStep(t) \/ segment_sync(t)
      PROVE  EosInv' /\ frames' = frames
  <2>1. /\ UNCHANGED <<w_offset_pair, buffer, wr, frames>>
        /\ \A u \in Writers : pc'[u] = pc[u]
    BY <1>2, SyncerShape
  <2> QED BY <2>1, EosKept
<1>3. ASSUME NEW t \in Writers, WriterStep(t) \/ \E p \in Payloads : segment_write(t, p)
      PROVE  EosInv' /\ (NoEos \/ frames' = frames)
  <2>1. CASE ClaimFrame(t) \/ mark_eos(t)
    BY <2>1, EosClaims
  <2>2. CASE \/ \E p \in Payloads : segment_write(t, p)
             \/ marked_eos(t) \/ CheckEosFlags(t) \/ ReadWriteOffset(t) \/ ClaimLost(t)
    <3>1. frames' = frames
      BY <2>2 DEF segment_write, marked_eos, CheckEosFlags, ReadWriteOffset, ClaimLost
    <3> QED BY <2>2, <3>1, EosBeforeClaim
  <2>3. CASE \/ CopyToBuffer(t) \/ InitHeader(t) \/ StoreIndexEntry(t)
             \/ \E field \in {"size", "flags"} : StoreHeaderField(t, field)
    <3>1. frames' = frames
      BY <2>3 DEF CopyToBuffer, InitHeader, StoreIndexEntry, StoreHeaderField, Crashes
    <3> QED BY <1>0, <2>3, <3>1, EosFrameStores
  <2>4. CASE InitEosHeader(t) \/ StoreEosFlags(t)
    <3>1. frames' = frames
      BY <2>4 DEF InitEosHeader, StoreEosFlags, Crashes
    <3> QED BY <1>0, <2>4, <3>1, EosHeaderStores
  <2> QED BY <1>3, <2>1, <2>2, <2>3, <2>4 DEF WriterStep
<1>4. CASE UNCHANGED vars
  BY <1>4, EosKept DEF vars, shared, locals
<1> QED BY <1>1, <1>2, <1>3, <1>4 DEF Next

(* With one producer, "there's always available space to include" an EOS   *)
(* header (segment_write): behind what has been reserved, or as what was   *)
(* reserved last, for any payloads and any number of consumers and syncs.  *)
THEOREM EosAlwaysFits ==
  ASSUME OneProducer
  PROVE  Spec => []SpaceForEos
<1>1. Init => TypeOK /\ EosInv
  BY InitTypeOK, InitEos
<1>2. TypeOK /\ EosInv /\ [Next]_vars => TypeOK' /\ EosInv'
  BY NextType, NextEos
<1>3. EosInv => SpaceForEos
  BY DEF EosInv
<1> QED BY <1>1, <1>2, <1>3, PTL DEF Spec

-----------------------------------------------------------------------------
(* Restarts.  On whatever files segment_open finds, the state has its      *)
(* types, and the sync offset is not ahead of the write offset.            *)

SyncBehind ==
  s_offset_pair.data <= w_offset_pair.data /\ s_offset_pair.index <= w_offset_pair.index

(* What a thread in segment_sync is going to store lies between the sync   *)
(* offset and the write offset.                                            *)
SyncAhead(t) ==
  /\ pc[t] \in {"sync_data_len", "msync_data", "synced_data"} =>
       s_offset_pair.data <= sy[t].to /\ sy[t].to <= w_offset_pair.data
  /\ pc[t] \in {"sync_index_len", "msync_index", "synced_index"} =>
       s_offset_pair.index <= sy[t].to /\ sy[t].to <= w_offset_pair.index

RestartInv ==
  StateOK /\ IsBuffer(disk.buffer) /\ SyncBehind /\ \A t \in Syncers : SyncAhead(t)

SyncKept == /\ s_offset_pair'.data >= s_offset_pair.data
            /\ s_offset_pair'.index >= s_offset_pair.index

LEMMA PairTypes ==
  ASSUME StateOK
  PROVE  /\ w_offset_pair \in Pair /\ w_offset_pair.data \in Nat /\ w_offset_pair.index \in Nat
         /\ s_offset_pair \in Pair /\ s_offset_pair.data \in Nat /\ s_offset_pair.index \in Nat
BY DEF StateOK, OffsetsTypeOK, Pair

(* A step that moves the write offset on, and leaves the syncs alone. *)
LEMMA SyncLeftAlone ==
  ASSUME RestartInv, StateOK', UNCHANGED <<s_offset_pair, disk, sy>>,
         w_offset_pair'.data >= w_offset_pair.data, w_offset_pair'.index >= w_offset_pair.index,
         \A u \in Syncers : pc'[u] = pc[u]
  PROVE  RestartInv' /\ SyncKept
<1>1. /\ w_offset_pair.data \in Nat /\ w_offset_pair.index \in Nat
      /\ s_offset_pair.data \in Nat /\ s_offset_pair.index \in Nat
      /\ w_offset_pair'.data \in Nat /\ w_offset_pair'.index \in Nat
  BY PairTypes DEF RestartInv, StateOK, OffsetsTypeOK, Pair
<1>2. \A t \in Syncers : sy[t].to \in Nat
  BY DEF RestartInv, StateOK, ThreadsTypeOK, SyncerState
<1>3. SyncBehind' /\ SyncKept
  BY <1>1 DEF RestartInv, SyncBehind, SyncKept
<1>4. \A t \in Syncers : SyncAhead(t)'
  BY <1>1, <1>2 DEF RestartInv, SyncAhead
<1> QED BY <1>3, <1>4 DEF RestartInv

(* A step of segment_write moves the write offset on, or not at all. *)
LEMMA WriterAdvances ==
  ASSUME StateOK, NEW t \in Writers, WriterStep(t) \/ \E p \in Payloads : segment_write(t, p)
  PROVE  w_offset_pair'.data >= w_offset_pair.data /\ w_offset_pair'.index >= w_offset_pair.index
<1>1. w_offset_pair.data \in Nat /\ w_offset_pair.index \in Nat
  BY PairTypes
<1>2. CASE ClaimFrame(t)
  <2>1. wr[t].buf \in Payloads
    BY <1>2, OwnOffset DEF ClaimFrame, At
  <2>2. /\ w_offset_pair'.data = w_offset_pair.data + FrameSize(wr[t].buf)
        /\ w_offset_pair'.index = w_offset_pair.index + 1
    BY <1>2 DEF ClaimFrame, claim, Claimed
  <2> QED BY <1>1, <2>1, <2>2, FrameSizeType
<1>3. CASE mark_eos(t)
  <2>1. /\ w_offset_pair'.data = w_offset_pair.data + HeaderSize
        /\ w_offset_pair'.index = w_offset_pair.index
    BY <1>3 DEF mark_eos, claim
  <2> QED BY <1>1, <2>1
<1>4. CASE UNCHANGED w_offset_pair
  BY <1>1, <1>4
<1> QED BY <1>2, <1>3, <1>4
        DEF WriterStep, segment_write, marked_eos, CheckEosFlags, ReadWriteOffset, ClaimLost,
            CopyToBuffer, InitHeader, StoreHeaderField, StoreIndexEntry, InitEosHeader,
            StoreEosFlags, Crashes, shared

LEMMA WriterRestart ==
  ASSUME RestartInv, StateOK', NEW t \in Writers,
         WriterStep(t) \/ \E p \in Payloads : segment_write(t, p)
  PROVE  RestartInv' /\ SyncKept
<1>1. UNCHANGED <<s_offset_pair, disk, sy>>
  BY DEF WriterStep, segment_write, marked_eos, CheckEosFlags, ReadWriteOffset, ClaimLost, ClaimFrame,
         CopyToBuffer, InitHeader, StoreHeaderField, StoreIndexEntry, mark_eos, InitEosHeader,
         StoreEosFlags, Crashes, shared, locals
<1>2. (\E label : Goto(t, label)) \/ UNCHANGED pc
  BY DEF WriterStep, segment_write, marked_eos, CheckEosFlags, ReadWriteOffset, ClaimLost, ClaimFrame,
         CopyToBuffer, InitHeader, StoreHeaderField, StoreIndexEntry, mark_eos, InitEosHeader,
         StoreEosFlags, Crashes, WriteReturns
<1>3. \A u \in Syncers : pc'[u] = pc[u]
  BY <1>2, ThreadAssumption DEF RestartInv, StateOK, ThreadsTypeOK, Goto, Threads
<1>4. w_offset_pair'.data >= w_offset_pair.data /\ w_offset_pair'.index >= w_offset_pair.index
  BY WriterAdvances DEF RestartInv
<1> QED BY <1>1, <1>3, <1>4, SyncLeftAlone

LEMMA ReaderRestart ==
  ASSUME RestartInv, StateOK', NEW t \in Readers,
         ReaderStep(t) \/ \E rel \in 0 .. MaxWrites - 1 : segment_read(t, rel)
  PROVE  RestartInv' /\ SyncKept
<1>1. UNCHANGED <<w_offset_pair, s_offset_pair, disk, sy>>
  BY DEF ReaderStep, segment_read, CheckWriteIndex, ReadIndexEntry, ReadFlags, ReadSize,
         Crashes, shared, locals
<1>2. (\E label : Goto(t, label)) \/ UNCHANGED pc
  BY DEF ReaderStep, segment_read, CheckWriteIndex, ReadIndexEntry, ReadFlags, ReadSize,
         ReadReturns, Crashes
<1>3. \A u \in Syncers : pc'[u] = pc[u]
  BY <1>2, ThreadAssumption DEF RestartInv, StateOK, ThreadsTypeOK, Goto, Threads
<1>4. w_offset_pair'.data >= w_offset_pair.data /\ w_offset_pair'.index >= w_offset_pair.index
  BY <1>1, PairTypes DEF RestartInv
<1> QED BY <1>1, <1>3, <1>4, SyncLeftAlone

LEMMA FlushedType ==
  ASSUME NEW old, IsBuffer(old), NEW mem, IsBuffer(mem), NEW from, NEW to
  PROVE  IsBuffer(Flushed(old, mem, from, to))
BY DEF IsBuffer, Flushed

LEMMA SyncerRestart ==
  ASSUME RestartInv, StateOK', OneSyncer, NEW t \in Syncers, SyncerStep(t) \/ segment_sync(t)
  PROVE  RestartInv' /\ SyncKept
<1>0. /\ t \in Threads /\ pc \in [Threads -> WriterLabels \cup ReaderLabels \cup SyncerLabels]
      /\ sy \in [Syncers -> SyncerState] /\ sy[t] \in SyncerState /\ sy[t].to \in Nat
      /\ IsBuffer(buffer) /\ IsBuffer(disk.buffer) /\ SyncBehind /\ SyncAhead(t)
      /\ DOMAIN disk = {"index", "buffer", "torn"}
  BY DEF Threads, RestartInv, StateOK, ThreadsTypeOK, MapsTypeOK, DiskTypeOK, SyncerState
<1>1. /\ w_offset_pair.data \in Nat /\ w_offset_pair.index \in Nat
      /\ s_offset_pair.data \in Nat /\ s_offset_pair.index \in Nat /\ s_offset_pair \in Pair
  BY PairTypes DEF RestartInv
<1>2. ASSUME IsBuffer(disk'.buffer), SyncBehind', SyncAhead(t)' PROVE RestartInv'
  <2>1. \A u \in Syncers : SyncAhead(u)'
    BY <1>2 DEF OneSyncer
  <2> QED BY <1>2, <2>1 DEF RestartInv
<1>3. w_offset_pair' = w_offset_pair
  BY DEF SyncerStep, segment_sync, SyncDataReadEnd, SyncDataLength, MsyncData, StoreSyncedData,
         SyncIndexReadStart, SyncIndexReadEnd, SyncIndexLength, MsyncIndex, StoreSyncedIndex, shared
<1>4. CASE UNCHANGED <<s_offset_pair, disk>>
  <2>1. IsBuffer(disk'.buffer) /\ SyncBehind' /\ SyncKept
    BY <1>0, <1>1, <1>3, <1>4 DEF SyncBehind, SyncKept
  <2>2. CASE pc'[t] \in {"idle", "sync_data", "sync_index", "sync_index_end"}
    BY <1>2, <2>1, <2>2 DEF SyncAhead
  <2>3. CASE SyncDataReadEnd(t) \/ SyncIndexReadEnd(t)
    <3>1. \/ pc'[t] = "sync_data_len" /\ sy'[t].to = w_offset_pair.data
          \/ pc'[t] = "sync_index_len" /\ sy'[t].to = w_offset_pair.index
      BY <1>0, <2>3 DEF SyncDataReadEnd, SyncIndexReadEnd, Goto, SyncerState
    <3>2. SyncAhead(t)'
      BY <1>0, <1>1, <1>3, <1>4, <3>1 DEF SyncAhead, SyncBehind
    <3> QED BY <1>2, <2>1, <3>2
  <2>4. CASE SyncDataLength(t) \/ SyncIndexLength(t)
    <3>1. /\ sy'[t].to = sy[t].to
          /\ \/ pc[t] = "sync_data_len" /\ pc'[t] = "msync_data"
             \/ pc[t] = "sync_index_len" /\ pc'[t] = "msync_index"
      BY <1>0, <2>4 DEF SyncDataLength, SyncIndexLength, Goto, At, SyncerState
    <3>2. SyncAhead(t)'
      BY <1>0, <1>1, <1>3, <1>4, <3>1 DEF SyncAhead
    <3> QED BY <1>2, <2>1, <3>2
  <2>5. CASE (MsyncData(t) \/ MsyncIndex(t)) /\ UNCHANGED sy
    <3>1. \/ pc[t] = "msync_data" /\ pc'[t] = "synced_data"
          \/ pc[t] = "msync_index" /\ pc'[t] = "synced_index"
          \/ pc'[t] = "idle"
      BY <1>0, <2>5 DEF MsyncData, MsyncIndex, SyncReturns, Goto, At
    <3>2. SyncAhead(t)'
      BY <1>0, <1>1, <1>3, <1>4, <2>5, <3>1 DEF SyncAhead
    <3> QED BY <1>2, <2>1, <3>2
  <2>6. CASE StoreSyncedData(t) \/ StoreSyncedIndex(t)
    BY <1>0, <2>2, <2>6 DEF StoreSyncedData, StoreSyncedIndex, SyncReturns, Goto
  <2>7. segment_sync(t) \/ SyncIndexReadStart(t) => pc'[t] \in {"sync_data", "sync_index_end"}
    BY <1>0 DEF segment_sync, SyncIndexReadStart, Goto
  <2>8. MsyncData(t) \/ MsyncIndex(t) => UNCHANGED sy \/ pc'[t] = "idle"
    BY <1>0 DEF MsyncData, MsyncIndex, SyncReturns, Goto
  <2> QED BY <2>1, <2>2, <2>3, <2>4, <2>5, <2>6, <2>7, <2>8 DEF SyncerStep
<1>5. CASE MsyncData(t) \/ MsyncIndex(t)
  <2>1. s_offset_pair' = s_offset_pair
    BY <1>5 DEF MsyncData, MsyncIndex
  <2>2. SyncBehind' /\ SyncKept
    BY <1>0, <1>1, <1>3, <2>1 DEF SyncBehind, SyncKept
  <2>3. \/ pc[t] = "msync_data" /\ pc'[t] = "synced_data" /\ UNCHANGED sy
        \/ pc[t] = "msync_index" /\ pc'[t] = "synced_index" /\ UNCHANGED sy
        \/ pc'[t] = "idle"
    BY <1>0, <1>5 DEF MsyncData, MsyncIndex, SyncReturns, Goto, At
  <2>4. SyncAhead(t)'
    BY <1>0, <1>1, <1>3, <2>1, <2>3 DEF SyncAhead
  <2>5. CASE MsyncData(t)
    <3>1. \/ disk' = disk
          \/ disk'.buffer = Flushed(disk.buffer, buffer, page_aligned_addr(sy[t].from),
                                    MsyncEnd(sy[t].from, sy[t].len))
      BY <1>0, <2>5 DEF MsyncData
    <3>2. IsBuffer(disk'.buffer)
      BY <1>0, <3>1, FlushedType
    <3> QED BY <1>2, <2>2, <2>4, <3>2
  <2>6. CASE MsyncIndex(t)
    <3>1. disk'.buffer = disk.buffer
      BY <1>0, <2>6 DEF MsyncIndex
    <3> QED BY <1>0, <1>2, <2>2, <2>4, <3>1
  <2> QED BY <1>5, <2>5, <2>6
<1>6. CASE StoreSyncedData(t)
  <2>1. /\ s_offset_pair' = [s_offset_pair EXCEPT !.data = sy[t].to] /\ disk' = disk
        /\ pc[t] = "synced_data" /\ pc'[t] \in {"idle", "sync_index"}
    BY <1>0, <1>6 DEF StoreSyncedData, SyncedUpTo, SyncReturns, Goto, At
  <2>2. s_offset_pair'.data = sy[t].to /\ s_offset_pair'.index = s_offset_pair.index
    BY <1>1, <2>1 DEF Pair
  <2>3. SyncBehind' /\ SyncKept
    BY <1>0, <1>1, <1>3, <2>1, <2>2 DEF SyncBehind, SyncKept, SyncAhead
  <2>4. SyncAhead(t)'
    BY <2>1 DEF SyncAhead
  <2> QED BY <1>0, <1>2, <2>1, <2>3, <2>4
<1>7. CASE StoreSyncedIndex(t)
  <2>1. /\ s_offset_pair' = [s_offset_pair EXCEPT !.index = sy[t].to] /\ disk' = disk
        /\ pc[t] = "synced_index" /\ pc'[t] = "idle"
    BY <1>0, <1>7 DEF StoreSyncedIndex, SyncedUpTo, SyncReturns, Goto, At
  <2>2. s_offset_pair'.index = sy[t].to /\ s_offset_pair'.data = s_offset_pair.data
    BY <1>1, <2>1 DEF Pair
  <2>3. SyncBehind' /\ SyncKept
    BY <1>0, <1>1, <1>3, <2>1, <2>2 DEF SyncBehind, SyncKept, SyncAhead
  <2>4. SyncAhead(t)'
    BY <2>1 DEF SyncAhead
  <2> QED BY <1>0, <1>2, <2>1, <2>3, <2>4
<1>8. segment_sync(t) \/ SyncDataReadEnd(t) \/ SyncDataLength(t) \/ SyncIndexReadStart(t)
        \/ SyncIndexReadEnd(t) \/ SyncIndexLength(t) => UNCHANGED <<s_offset_pair, disk>>
  BY DEF segment_sync, SyncDataReadEnd, SyncDataLength, SyncIndexReadStart, SyncIndexReadEnd,
         SyncIndexLength, shared
<1> QED BY <1>4, <1>5, <1>6, <1>7, <1>8 DEF SyncerStep

LEMMA RunRestart ==
  ASSUME RestartInv, OneSyncer, [Next]_vars
  PROVE  RestartInv' /\ SyncKept
<1>1. StateOK'
  BY NextState DEF RestartInv
<1>2. CASE UNCHANGED vars
  <2>1. /\ UNCHANGED <<w_offset_pair, s_offset_pair, disk, sy>> /\ \A u \in Syncers : pc'[u] = pc[u]
    BY <1>2 DEF vars, shared, locals
  <2>2. w_offset_pair'.data >= w_offset_pair.data /\ w_offset_pair'.index >= w_offset_pair.index
    BY <2>1, PairTypes DEF RestartInv
  <2> QED BY <1>1, <2>1, <2>2, SyncLeftAlone
<1> QED BY <1>1, <1>2, WriterRestart, ReaderRestart, SyncerRestart DEF Next

(* The kernel's writing back. *)
LEMMA WrittenBackType ==
  ASSUME NEW old, IsBuffer(old), NEW mem, IsBuffer(mem), NEW pages
  PROVE  IsBuffer(WrittenBack(old, mem, pages))
<1>1. \A x : HeaderAt(old, x).payload \in Payloads \cup {NoPayload}
  BY HeaderAtType DEF Header
<1>2. \A x \in DOMAIN mem : [mem[x] EXCEPT !.payload = HeaderAt(old, x).payload] \in Header
  BY <1>1 DEF IsBuffer, Header
<1> QED BY <1>2 DEF IsBuffer, WrittenBack

LEMMA WriteBackState ==
  ASSUME StateOK, IsBuffer(disk.buffer), WriteBackData \/ WriteBackIndex
  PROVE  /\ StateOK' /\ IsBuffer(disk'.buffer)
         /\ UNCHANGED <<w_offset_pair, s_offset_pair, index, buffer, pc, wr, rd, sy, calls, fault, frames, stops>>
<1>1. UNCHANGED <<w_offset_pair, s_offset_pair, index, buffer, pc, wr, rd, sy, calls, fault, frames, stops>>
  BY DEF WriteBackData, WriteBackIndex, locals, kept
<1>2. /\ DOMAIN disk = {"index", "buffer", "torn"} /\ disk.index \in [Entry -> Nat]
      /\ disk.torn \subseteq Nat /\ IsBuffer(buffer) /\ index \in [Entry -> Nat]
  BY DEF StateOK, DiskTypeOK, MapsTypeOK
<1>3. DiskTypeOK' /\ IsBuffer(disk'.buffer)
  <2>1. CASE WriteBackData
    <3>1. PICK pages : disk' = [disk EXCEPT !.buffer = WrittenBack(disk.buffer, buffer, pages)]
      BY <2>1 DEF WriteBackData
    <3>2. PICK new : new = WrittenBack(disk.buffer, buffer, pages)
      OBVIOUS
    <3>3. IsBuffer(new) /\ disk' = [disk EXCEPT !.buffer = new]
      BY <1>2, <3>1, <3>2, WrittenBackType
    <3> QED BY <1>2, <3>3 DEF DiskTypeOK
  <2>2. CASE WriteBackIndex
    <3>1. PICK page : disk' = [disk EXCEPT !.index =
            [i \in Entry |-> IF InIndexFile(i) /\ Page(i * EntrySize) = page THEN index[i]
                             ELSE disk.index[i]]]
      BY <2>2 DEF WriteBackIndex
    <3>2. PICK new : new = [i \in Entry |-> IF InIndexFile(i) /\ Page(i * EntrySize) = page
                                            THEN index[i] ELSE disk.index[i]]
      OBVIOUS
    <3>3. new \in [Entry -> Nat]
      BY <1>2, <3>2
    <3>4. disk' = [disk EXCEPT !.index = new]
      BY <3>1, <3>2
    <3> QED BY <1>2, <3>3, <3>4 DEF DiskTypeOK
  <2> QED BY <2>1, <2>2
<1>4. OffsetsTypeOK' /\ MapsTypeOK' /\ CallsTypeOK' /\ FaultTypeOK'
  BY <1>1, UnchangedTypes DEF StateOK
<1>5. ThreadsTypeOK'
  BY <1>1 DEF StateOK, ThreadsTypeOK
<1> QED BY <1>1, <1>3, <1>4, <1>5 DEF StateOK

(* segment_open.  A nonempty set of naturals has a least element. *)
LEMMA LeastEntry ==
  ASSUME NEW S, S \subseteq Nat, S # {}
  PROVE  \E n \in S : \A m \in S : n <= m
<1> DEFINE R == {ss \in Nat \X Nat : ss[1] < ss[2]}
<1>1. IsWellFoundedOn(R, Nat)
  BY NatLessThanWellFounded DEF OpToRel
<1>2. PICK n \in S : \A m \in S : ~ (<<m, n>> \in R)
  <2> HIDE DEF R
  <2> QED BY <1>1, WFMin
<1>3. \A m \in S : ~ (m < n)
  BY <1>2
<1> QED BY <1>3

LEMMA FoundPair ==
  ASSUME NEW idx, idx \in [Entry -> Nat], NEW buf, IsBuffer(buf),
         NEW found, found = find_w_offset_pair(buf, idx, Size)
  PROVE  found.rc = 0 => found.pair \in Pair
<1>1. PICK free : free = FreeEntries(buf, idx, Size)
  OBVIOUS
<1>2. /\ free \subseteq 0 .. max_index_entries(Size) - 1
      /\ max_index_entries(Size) \in Nat /\ MappedEntries(Size) \in Nat
      /\ max_index_entries(Size) <= MappedEntries(Size)
  BY <1>1, MappedCovers DEF FreeEntries
<1>3. CASE free = {}
  <2>1. found.rc = ELWOFFS
    BY <1>1, <1>3 DEF find_w_offset_pair
  <2> QED BY <2>1 DEF ELWOFFS
<1>4. CASE free # {}
  <2>1. PICK i : i = CHOOSE n \in free : \A m \in free : n <= m
    OBVIOUS
  <2>2. i \in free
    <3>1. free \subseteq Nat
      BY <1>2
    <3>2. \E n \in free : \A m \in free : n <= m
      BY <1>4, <3>1, LeastEntry
    <3> QED BY <2>1, <3>2
  <2>3. found.pair = [index |-> i, data |-> (IF i = 0 THEN 0 ELSE idx[i - 1])
                        + (IF i = 0 THEN 0
                           ELSE HeaderAt(buf, IF i = 0 THEN 0 ELSE idx[i - 1]).size)]
    BY <1>1, <1>4, <2>1 DEF find_w_offset_pair
  <2>4. i \in Nat /\ (i # 0 => i - 1 \in Entry)
    BY <1>2, <2>2 DEF Entry
  <2>5. i # 0 => idx[i - 1] \in Nat
    BY <2>4
  <2>6. \A x : HeaderAt(buf, x).size \in Nat
    BY HeaderAtType DEF Header
  <2> QED BY <2>3, <2>4, <2>5, <2>6 DEF Pair
<1> QED BY <1>3, <1>4

LEMMA OpenState ==
  ASSUME StateOK, IsBuffer(disk.buffer), NEW idx, idx \in [Entry -> Nat], NEW buf, IsBuffer(buf),
         segment_open(idx, buf, disk)
  PROVE  RestartInv'
<1>1. PICK pair \in Pair : w_offset_pair' = pair /\ s_offset_pair' = pair /\ DOMAIN frames' = 0 .. pair.index - 1
  <2>1. PICK found : found = find_w_offset_pair(buf, idx, Size)
    OBVIOUS
  <2>2. PICK pair : pair = IF found.rc = 0 THEN found.pair ELSE [index |-> 0, data |-> 0]
    OBVIOUS
  <2>3. pair \in Pair
    BY <2>1, <2>2, FoundPair DEF Pair
  <2>4. w_offset_pair' = pair /\ s_offset_pair' = pair /\ DOMAIN frames' = 0 .. pair.index - 1
    BY <2>1, <2>2 DEF segment_open
  <2> QED BY <2>3, <2>4
<1>2. OffsetsTypeOK' /\ SyncBehind'
  <2>1. pair.data \in Nat /\ pair.index \in Nat
    BY DEF Pair
  <2> QED BY <1>1, <2>1 DEF OffsetsTypeOK, SyncBehind
<1>3. MapsTypeOK'
  BY DEF segment_open, MapsTypeOK
<1>4. DiskTypeOK' /\ IsBuffer(disk'.buffer)
  <2>1. PICK torn \in SUBSET DOMAIN frames' : disk' = [disk EXCEPT !.torn = torn]
    BY DEF segment_open
  <2>2. torn \subseteq Nat
    BY <1>1, <2>1
  <2> QED BY <2>1, <2>2 DEF StateOK, DiskTypeOK
<1>5. pc' = [t \in Threads |-> "idle"] /\ UNCHANGED <<calls, fault>>
  BY DEF segment_open
<1>6. CallsTypeOK' /\ FaultTypeOK'
  BY <1>5, UnchangedTypes DEF StateOK
<1>7. ThreadsTypeOK'
  <2>1. pc' \in [Threads -> WriterLabels \cup ReaderLabels \cup SyncerLabels]
    BY <1>5 DEF WriterLabels
  <2>2. wr' \in [Writers -> WriterState]
    BY DEF segment_open, IdleWriter, Pair, WriterState
  <2>3. rd' \in [Readers -> ReaderState]
    BY DEF segment_open, ELNORD, ReaderState
  <2>4. sy' \in [Syncers -> SyncerState]
    BY DEF segment_open, SyncerState
  <2>5. \A t \in Writers : pc'[t] = "idle"
    BY <1>5 DEF Threads
  <2> QED BY <2>1, <2>2, <2>3, <2>4, <2>5 DEF ThreadsTypeOK
<1>8. \A t \in Syncers : SyncAhead(t)'
  BY <1>5 DEF SyncAhead, Threads
<1> QED BY <1>2, <1>3, <1>4, <1>6, <1>7, <1>8 DEF RestartInv, StateOK

LEMMA InitRestart == RestartInit => RestartInv
<1> SUFFICES ASSUME RestartInit PROVE RestartInv
  OBVIOUS
<1>1. Init /\ TypeOK
  BY InitTypeOK DEF RestartInit
<1>2. StateOK
  BY <1>1 DEF TypeOK, StateOK
<1>3. IsBuffer(disk.buffer) /\ SyncBehind
  BY <1>1 DEF Init, IsBuffer, SyncBehind
<1>4. \A t \in Syncers : SyncAhead(t)
  BY <1>1 DEF Init, SyncAhead, Threads
<1> QED BY <1>2, <1>3, <1>4 DEF RestartInv

LEMMA NextRestart ==
  ASSUME RestartInv, stops \in Nat, OneSyncer, [RestartNext]_allVars
  PROVE  RestartInv' /\ stops' \in Nat /\ (stops' = stops => SyncKept)
<1>0. /\ StateOK /\ IsBuffer(disk.buffer)
      /\ IsBuffer(buffer) /\ index \in [Entry -> Nat] /\ disk.index \in [Entry -> Nat]
  BY DEF RestartInv, StateOK, MapsTypeOK, DiskTypeOK
<1>1. CASE Run \/ UNCHANGED allVars
  <2>1. [Next]_vars /\ stops' = stops
    BY <1>1 DEF Run, allVars, restarts, kept
  <2> QED BY <2>1, RunRestart
<1>2. CASE WriteBackData \/ WriteBackIndex
  <2>1. /\ StateOK' /\ IsBuffer(disk'.buffer)
        /\ UNCHANGED <<w_offset_pair, s_offset_pair, pc, sy, stops>>
    BY <1>0, <1>2, WriteBackState
  <2>2. SyncBehind' /\ \A t \in Syncers : SyncAhead(t)'
    BY <2>1 DEF RestartInv, SyncBehind, SyncAhead
  <2>3. SyncKept
    BY <1>0, <2>1, PairTypes DEF SyncKept
  <2> QED BY <2>1, <2>2, <2>3 DEF RestartInv
<1>3. ASSUME stops' = stops + 1 PROVE stops' \in Nat /\ stops' # stops
  BY <1>3
<1>4. CASE Die
  <2>1. PICK tail \in BOOLEAN :
          segment_open([i \in Entry |-> IF InIndexFile(i) \/ tail THEN index[i] ELSE 0], buffer, disk)
    BY <1>4 DEF Die
  <2>2. PICK idx : idx = [i \in Entry |-> IF InIndexFile(i) \/ tail THEN index[i] ELSE 0]
    OBVIOUS
  <2>3. idx \in [Entry -> Nat]
    BY <1>0, <2>2
  <2>4. segment_open(idx, buffer, disk)
    BY <2>1, <2>2
  <2> QED BY <1>0, <1>3, <1>4, <2>3, <2>4, OpenState DEF Die
<1>5. CASE MachineCrash
  BY <1>0, <1>3, <1>5, OpenState DEF MachineCrash
<1> QED BY <1>1, <1>2, <1>4, <1>5 DEF RestartNext

(* With one syncing thread the sync offset never goes back, while producers *)
(* reserve, msync fails and the kernel writes pages back; only opening the  *)
(* segment again, after any number of deaths and crashes, sets it anew.     *)
THEOREM SyncsNeverRetreat ==
  ASSUME OneSyncer
  PROVE  RestartSpec => SyncNeverRetreats
<1> DEFINE Inv == RestartInv /\ stops \in Nat
<1>1. RestartInit => Inv
  BY InitRestart DEF RestartInit
<1>2. Inv /\ [RestartNext]_allVars => Inv' /\ [stops' = stops => SyncKept]_allVars
  BY NextRestart
<1> QED BY <1>1, <1>2, PTL DEF RestartSpec, SyncNeverRetreats, SyncKept

-----------------------------------------------------------------------------
(* Until the segment is opened again, it also stays ended. *)

FirstLife == stops \in Nat /\ (stops = 0 => TypeOK /\ IsBuffer(disk.buffer) /\ EosInv)

LEMMA DiskBuffer ==
  ASSUME StateOK, IsBuffer(disk.buffer), [Next]_vars
  PROVE  IsBuffer(disk'.buffer)
<1>1. IsBuffer(buffer) /\ DOMAIN disk = {"index", "buffer", "torn"}
  BY DEF StateOK, MapsTypeOK, DiskTypeOK
<1>2. ASSUME NEW t \in Syncers, MsyncData(t) PROVE IsBuffer(disk'.buffer)
  <2>1. \/ disk' = disk
        \/ disk'.buffer = Flushed(disk.buffer, buffer, page_aligned_addr(sy[t].from),
                                  MsyncEnd(sy[t].from, sy[t].len))
    BY <1>1, <1>2 DEF MsyncData
  <2> QED BY <1>1, <2>1, FlushedType
<1>3. ASSUME NEW t \in Syncers, MsyncIndex(t) PROVE disk'.buffer = disk.buffer
  BY <1>1, <1>3 DEF MsyncIndex
<1>4. ASSUME NEW t \in Syncers, SyncerStep(t) \/ segment_sync(t), ~ MsyncData(t), ~ MsyncIndex(t)
      PROVE  disk' = disk
  BY <1>4 DEF SyncerStep, segment_sync, SyncDataReadEnd, SyncDataLength, StoreSyncedData,
              SyncIndexReadStart, SyncIndexReadEnd, SyncIndexLength, StoreSyncedIndex, shared
<1>5. ASSUME NEW t \in Writers, WriterStep(t) \/ \E p \in Payloads : segment_write(t, p)
      PROVE  disk' = disk
  BY <1>5 DEF WriterStep, segment_write, marked_eos, CheckEosFlags, ReadWriteOffset, ClaimLost,
              ClaimFrame, CopyToBuffer, InitHeader, StoreHeaderField, StoreIndexEntry, mark_eos,
              InitEosHeader, StoreEosFlags, Crashes, shared
<1>6. ASSUME NEW t \in Readers, ReaderStep(t) \/ \E rel \in 0 .. MaxWrites - 1 : segment_read(t, rel)
      PROVE  disk' = disk
  BY <1>6 DEF ReaderStep, segment_read, CheckWriteIndex, ReadIndexEntry, ReadFlags, ReadSize,
              Crashes, shared
<1>7. CASE UNCHANGED vars
  BY <1>7 DEF vars, shared
<1> QED BY <1>2, <1>3, <1>4, <1>5, <1>6, <1>7 DEF Next

LEMMA NextFirstLife ==
  ASSUME FirstLife, OneProducer, [RestartNext]_allVars
  PROVE  FirstLife' /\ (stops = 0 /\ Sealed /\ stops' = stops => frames' = frames)
<1>1. CASE Run \/ UNCHANGED allVars
  <2>1. [Next]_vars /\ stops' = stops
    BY <1>1 DEF Run, allVars, restarts, kept
  <2>2. ASSUME stops = 0
        PROVE  TypeOK' /\ IsBuffer(disk'.buffer) /\ EosInv' /\ (Sealed => frames' = frames)
    <3>1. TypeOK /\ IsBuffer(disk.buffer) /\ EosInv /\ StateOK
      BY <2>2 DEF FirstLife, TypeOK, StateOK
    <3>2. NoEos => ~ Sealed
      BY DEF NoEos, Sealed
    <3> QED BY <2>1, <3>1, <3>2, NextType, NextEos, DiskBuffer
  <2> QED BY <2>1, <2>2 DEF FirstLife
<1>2. CASE WriteBackData \/ WriteBackIndex
  <2>1. stops' = stops /\ frames' = frames
    BY <1>2 DEF WriteBackData, WriteBackIndex, kept
  <2>2. ASSUME stops = 0 PROVE TypeOK' /\ IsBuffer(disk'.buffer) /\ EosInv'
    <3>1. TypeOK /\ IsBuffer(disk.buffer) /\ EosInv /\ StateOK
      BY <2>2 DEF FirstLife, TypeOK, StateOK
    <3>2. /\ StateOK' /\ IsBuffer(disk'.buffer)
          /\ UNCHANGED <<w_offset_pair, buffer, wr, pc, frames>>
      BY <1>2, <3>1, WriteBackState
    <3>3. FramesTypeOK'
      BY <3>1, <3>2 DEF TypeOK, FramesTypeOK
    <3>4. EosInv'
      BY <3>1, <3>2, EosKept
    <3> QED BY <3>2, <3>3, <3>4 DEF TypeOK, StateOK
  <2> QED BY <2>1, <2>2 DEF FirstLife
<1>3. CASE Die \/ MachineCrash
  <2>1. stops' = stops + 1 /\ stops \in Nat
    BY <1>3 DEF Die, MachineCrash, FirstLife
  <2>2. stops' \in Nat /\ stops' # 0 /\ stops' # stops
    BY <2>1
  <2> QED BY <2>2 DEF FirstLife
<1> QED BY <1>1, <1>2, <1>3 DEF RestartNext

(* "Mark segment as complete for writes" (mark_eos), with one producer:    *)
(* once a header below the write offset says EOS, no frame is reserved any *)
(* more, until the segment is opened again.  Payloads whose last bytes     *)
(* read as an EOS header are included: they end the segment as well.       *)
THEOREM SealIsFinal ==
  ASSUME OneProducer
  PROVE  RestartSpec => [][stops = 0 /\ Sealed /\ stops' = stops => frames' = frames]_allVars
<1>1. RestartInit => FirstLife
  BY InitTypeOK, InitEos DEF RestartInit, FirstLife, Init, IsBuffer
<1>2. FirstLife /\ [RestartNext]_allVars =>
        FirstLife' /\ [stops = 0 /\ Sealed /\ stops' = stops => frames' = frames]_allVars
  BY NextFirstLife
<1> QED BY <1>1, <1>2, PTL DEF RestartSpec

-----------------------------------------------------------------------------
(* What a sync has passed stays on disk when the kernel writes pages back, *)
(* and what a committed read returns lies below the sync offset.           *)

FirstLifeSync == stops \in Nat /\ (stops = 0 => SyncInv /\ IsBuffer(disk.buffer))

(* Writing a page back changes nothing where the disk has what is in memory. *)
LEMMA WrittenBackAgrees ==
  ASSUME NEW old, NEW mem, IsBuffer(mem), NEW pages, NEW x, HeaderAt(old, x) = HeaderAt(mem, x)
  PROVE  HeaderAt(WrittenBack(old, mem, pages), x) = HeaderAt(mem, x)
<1>1. PICK new : new = WrittenBack(old, mem, pages)
  OBVIOUS
<1>2. DOMAIN new = {y \in DOMAIN old : Page(y) \notin pages} \cup {y \in DOMAIN mem : Page(y) \in pages}
  BY <1>1 DEF WrittenBack
<1>3. CASE x \notin DOMAIN new
  BY <1>1, <1>2, <1>3 DEF HeaderAt
<1>4. CASE x \in DOMAIN new
  <2>1. new[x] = IF Page(x) \notin pages THEN old[x]
                 ELSE IF FramePages(x, mem[x]) \subseteq pages THEN mem[x]
                 ELSE [mem[x] EXCEPT !.payload = HeaderAt(old, x).payload]
    BY <1>1, <1>2, <1>4 DEF WrittenBack
  <2>2. x \in DOMAIN mem => [mem[x] EXCEPT !.payload = mem[x].payload] = mem[x]
    BY DEF IsBuffer, Header
  <2>3. CASE Page(x) \notin pages
    BY <1>1, <1>2, <1>4, <2>1, <2>3 DEF HeaderAt
  <2>4. CASE Page(x) \in pages
    <3>1. x \in DOMAIN mem /\ HeaderAt(old, x).payload = mem[x].payload
      BY <1>2, <1>4, <2>4 DEF HeaderAt
    <3>2. new[x] = mem[x]
      BY <2>1, <2>2, <2>4, <3>1
    <3> QED BY <1>1, <1>4, <3>1, <3>2 DEF HeaderAt
  <2> QED BY <2>3, <2>4
<1> QED BY <1>3, <1>4

LEMMA WriteBackRead ==
  ASSUME ReadInv, IsBuffer(disk.buffer), WriteBackData \/ WriteBackIndex
  PROVE  ReadInv'
<1>0. TypeOK /\ StateOK
  BY DEF ReadInv, TypeOK, StateOK
<1>1. StateOK' /\ UNCHANGED <<w_offset_pair, s_offset_pair, index, buffer, pc, wr, rd, sy, frames>>
  BY <1>0, WriteBackState
<1>2. TypeOK'
  BY <1>0, <1>1 DEF TypeOK, StateOK, FramesTypeOK
<1>3. FramesDisjoint' /\ OwnsFrame' /\ PayloadCopied' /\ EosApart' /\ BelowWriteOffset'
  BY <1>0, <1>1 DEF ReadInv, FramesDisjoint, OwnsFrame, PayloadCopied, EosApart,
                    BelowWriteOffset, FrameEnd
<1>4. ReadyIsFrame' /\ SizeMeansWhole' /\ IndexPointsToFrame' /\ ReaderOnFrame' /\ ReadCorrect'
  BY <1>0, <1>1 DEF ReadInv, ReadyIsFrame, SizeMeansWhole, IndexPointsToFrame, ReaderOnFrame,
                    ReadCorrect
<1> QED BY <1>2, <1>3, <1>4 DEF ReadInv

LEMMA WriteBackSync ==
  ASSUME SyncInv, IsBuffer(disk.buffer), WriteBackData \/ WriteBackIndex
  PROVE  SyncInv' /\ IsBuffer(disk'.buffer)
<1>0. ReadInv /\ TypeOK /\ StateOK /\ FramesTypeOK
  BY DEF SyncInv, ReadInv, TypeOK, StateOK
<1>1. /\ StateOK' /\ IsBuffer(disk'.buffer)
      /\ UNCHANGED <<w_offset_pair, s_offset_pair, index, buffer, pc, wr, rd, sy, frames>>
  BY <1>0, WriteBackState
<1>2. DOMAIN disk = {"index", "buffer", "torn"} /\ IsBuffer(buffer)
  BY <1>0 DEF StateOK, DiskTypeOK, MapsTypeOK
<1>3. disk'.torn = disk.torn
  BY <1>2 DEF WriteBackData, WriteBackIndex
<1>4. \A x : HeaderAt(disk.buffer, x) = HeaderAt(buffer, x) =>
               HeaderAt(disk'.buffer, x) = HeaderAt(buffer, x)
  <2>1. CASE WriteBackData
    <3>1. PICK pages : disk' = [disk EXCEPT !.buffer = WrittenBack(disk.buffer, buffer, pages)]
      BY <2>1 DEF WriteBackData
    <3>2. disk'.buffer = WrittenBack(disk.buffer, buffer, pages)
      BY <1>2, <3>1
    <3> QED BY <1>2, <3>2, WrittenBackAgrees
  <2>2. CASE WriteBackIndex
    BY <1>2, <2>2 DEF WriteBackIndex
  <2> QED BY <2>1, <2>2
<1>5. \A i \in Entry : disk.index[i] = index[i] => disk'.index[i] = index[i]
  BY <1>2 DEF WriteBackData, WriteBackIndex
<1>6. ReadInv'
  BY <1>0, WriteBackRead
<1>7. ASSUME NEW x PROVE BetweenFrames(x) => BetweenFrames(x)'
  BY <1>1 DEF BetweenFrames, FrameEnd
<1>8. ASSUME NEW x, DataSynced(x) PROVE DataSynced(x)'
  <2>1. /\ x <= w_offset_pair'.data /\ BetweenFrames(x)'
        /\ \A t \in Writers : pc'[t] \in Writing /\ wr'[t].curr.data < x => wr'[t].curr.index \in disk'.torn
    BY <1>1, <1>3, <1>7, <1>8 DEF DataSynced
  <2>2. ASSUME NEW i \in DOMAIN frames \ disk.torn, FrameEnd(i)' <= x
        PROVE  HeaderAt(disk'.buffer, frames[i].data) = HeaderAt(buffer, frames[i].data)
    <3>1. FrameEnd(i)' = FrameEnd(i)
      BY <1>1 DEF FrameEnd
    <3>2. HeaderAt(disk.buffer, frames[i].data) = HeaderAt(buffer, frames[i].data)
      BY <1>8, <2>2, <3>1 DEF DataSynced
    <3> QED BY <1>4, <3>2
  <2> QED BY <1>1, <1>3, <2>1, <2>2 DEF DataSynced
<1>9. ASSUME NEW n, IndexSynced(n) PROVE IndexSynced(n)'
  <2>1. \A i \in DOMAIN frames : i < max_index_entries(Size) => i \in Entry
    <3>1. \A i \in DOMAIN frames : i \in Nat
      BY <1>0, FrameFacts
    <3>2. /\ max_index_entries(Size) \in Nat /\ MappedEntries(Size) \in Nat
          /\ max_index_entries(Size) <= MappedEntries(Size)
      BY MappedCovers
    <3> QED BY <3>1, <3>2 DEF Entry
  <2> QED BY <1>1, <1>3, <1>5, <1>9, <2>1 DEF IndexSynced
<1>10. DataSynced(s_offset_pair.data)' /\ IndexSynced(s_offset_pair.index)'
  <2>1. PICK x, n : x = s_offset_pair.data /\ n = s_offset_pair.index
    OBVIOUS
  <2>2. DataSynced(x) /\ IndexSynced(n) /\ x = s_offset_pair'.data /\ n = s_offset_pair'.index
    BY <1>1, <2>1 DEF SyncInv
  <2>3. DataSynced(x)' /\ IndexSynced(n)'
    BY <1>8, <1>9, <2>2
  <2> QED BY <2>2, <2>3 DEF DataSynced, IndexSynced, BetweenFrames
<1>11. SyncsData' /\ SyncsIndex'
  <2> SUFFICES ASSUME NEW t \in Syncers
               PROVE  /\ BetweenFrames(sy[t].to) => BetweenFrames(sy[t].to)'
                      /\ DataSynced(sy[t].to) => DataSynced(sy[t].to)'
                      /\ IndexSynced(sy[t].to) => IndexSynced(sy[t].to)'
    BY <1>1 DEF SyncInv, SyncsData, SyncsIndex
  <2>1. PICK x : x = sy[t].to /\ x = sy'[t].to
    BY <1>1
  <2>2. (BetweenFrames(x) => BetweenFrames(x)') /\ (DataSynced(x) => DataSynced(x)')
    BY <1>7, <1>8
  <2>3. IndexSynced(x) => IndexSynced(x)'
    BY <1>9
  <2>4. BetweenFrames(sy[t].to) => BetweenFrames(sy[t].to)'
    BY <2>1, <2>2 DEF BetweenFrames
  <2>5. DataSynced(sy[t].to) => DataSynced(sy[t].to)'
    <3>1. DataSynced(sy[t].to) => DataSynced(x)
      BY <2>1
    <3>2. DataSynced(x)' => DataSynced(sy[t].to)'
      BY <2>1 DEF DataSynced, BetweenFrames
    <3> QED BY <2>2, <3>1, <3>2
  <2>6. IndexSynced(sy[t].to) => IndexSynced(sy[t].to)'
    BY <2>1, <2>3 DEF IndexSynced
  <2> QED BY <2>4, <2>5, <2>6
<1> QED BY <1>1, <1>6, <1>10, <1>11 DEF SyncInv

LEMMA NextFirstLifeSync ==
  ASSUME FirstLifeSync, OneSyncer, [RestartNext]_allVars
  PROVE  FirstLifeSync'
<1>1. CASE Run \/ UNCHANGED allVars
  <2>1. [Next]_vars /\ stops' = stops
    BY <1>1 DEF Run, allVars, restarts, kept
  <2>2. ASSUME stops = 0 PROVE SyncInv' /\ IsBuffer(disk'.buffer)
    <3>1. SyncInv /\ IsBuffer(disk.buffer) /\ StateOK
      BY <2>2 DEF FirstLifeSync, SyncInv, ReadInv, TypeOK, StateOK
    <3> QED BY <2>1, <3>1, NextSync, DiskBuffer
  <2> QED BY <2>1, <2>2 DEF FirstLifeSync
<1>2. CASE WriteBackData \/ WriteBackIndex
  <2>1. stops' = stops
    BY <1>2 DEF WriteBackData, WriteBackIndex, kept
  <2> QED BY <1>2, <2>1, WriteBackSync DEF FirstLifeSync
<1>3. CASE Die \/ MachineCrash
  <2>1. stops' = stops + 1 /\ stops \in Nat
    BY <1>3 DEF Die, MachineCrash, FirstLifeSync
  <2>2. stops' \in Nat /\ stops' # 0
    BY <2>1
  <2> QED BY <2>2 DEF FirstLifeSync
<1> QED BY <1>1, <1>2, <1>3 DEF RestartNext

(* An entry below the sync offset leads to a frame that ends below it. *)
LEMMA CommittedFrame ==
  ASSUME SyncInv, RdCmt, NEW i \in DOMAIN frames, i \in Entry, ~ EntryUnset(i, index[i]),
         index[i] < Boundary, HeaderAt(buffer, index[i]).flags = "READY"
  PROVE  index[i] + HeaderAt(buffer, index[i]).size <= s_offset_pair.data
<1>1. /\ ReadInv /\ TypeOK /\ BetweenFrames(s_offset_pair.data)
      /\ s_offset_pair.data \in Nat /\ index[i] \in Nat /\ index[i] < s_offset_pair.data
  BY DEF SyncInv, DataSynced, ReadInv, TypeOK, OffsetsTypeOK, Pair, MapsTypeOK, Boundary
<1>2. index[i] = frames[i].data
  <2>1. CASE index[i] # 0
    BY <1>1, <2>1 DEF ReadInv, IndexPointsToFrame
  <2>2. CASE index[i] = 0
    <3>1. i = 0 /\ 0 \in DOMAIN buffer
      BY <2>2 DEF EntryUnset, HeaderAt, ZeroHeader
    <3>2. PICK j \in DOMAIN frames : frames[j].data = 0
      BY <1>1, <2>2, <3>1 DEF ReadInv, ReadyIsFrame
    <3>3. j = 0
      BY <1>1, <3>2, FirstFrame
    <3> QED BY <2>2, <3>1, <3>2, <3>3
  <2> QED BY <2>1, <2>2
<1>3. /\ FrameEnd(i) = frames[i].data + FrameSize(frames[i].payload) /\ frames[i].data \in Nat
      /\ FrameSize(frames[i].payload) \in Nat
  BY <1>1, FrameFacts
<1>4. FrameEnd(i) <= s_offset_pair.data
  BY <1>1, <1>2, <1>3 DEF BetweenFrames
<1>5. \/ HeaderAt(buffer, index[i]).size = 0
      \/ HeaderAt(buffer, index[i]).size = FrameSize(frames[i].payload)
  BY <1>1, <1>2 DEF ReadInv, SizeMeansWhole
<1> QED BY <1>1, <1>2, <1>3, <1>4, <1>5

(* With SGM_RDCMT and one syncing thread, what segment_read returns lies   *)
(* entirely below the sync offset, whatever any number of producers        *)
(* reserve and store while the sync goes on, until the segment is opened   *)
(* again.                                                                  *)
THEOREM CommittedReadsEndBelowSync ==
  ASSUME OneSyncer
  PROVE  RestartSpec => []CommittedBelowSync
<1>1. RestartInit => FirstLifeSync
  BY InitSync DEF RestartInit, FirstLifeSync, Init, IsBuffer
<1>2. FirstLifeSync /\ [RestartNext]_allVars => FirstLifeSync'
  BY NextFirstLifeSync
<1>3. FirstLifeSync => CommittedBelowSync
  BY CommittedFrame DEF FirstLifeSync, CommittedBelowSync
<1> QED BY <1>1, <1>2, <1>3, PTL DEF RestartSpec

(* The pages that the kernel writes back by itself do not undo a sync:     *)
(* until the segment is opened again, what segment_sync has passed is on   *)
(* disk, except the frames that were being written at the time.            *)
THEOREM WriteBacksKeepSynced ==
  ASSUME OneSyncer
  PROVE  RestartSpec => [](stops = 0 => SyncedIsDurable)
<1>1. RestartInit => FirstLifeSync
  BY InitSync DEF RestartInit, FirstLifeSync, Init, IsBuffer
<1>2. FirstLifeSync /\ [RestartNext]_allVars => FirstLifeSync'
  BY NextFirstLifeSync
<1>3. FirstLifeSync => (stops = 0 => SyncedIsDurable)
  BY DEF FirstLifeSync, SyncInv, DataSynced, IndexSynced, SyncedIsDurable
<1> QED BY <1>1, <1>2, <1>3, PTL DEF RestartSpec

-----------------------------------------------------------------------------
(* What the first restart keeps.  A frame is protected when its header and *)
(* its entry are complete and every store still to come goes to bytes and  *)
(* entries behind it.                                                      *)

EndOf(f) == f.data + FrameSize(f.payload)

Protected(f) ==
  /\ f.index \in Entry /\ f.data \in Nat /\ f.payload \in Payloads
  /\ f.index < w_offset_pair.index /\ EndOf(f) <= w_offset_pair.data
  /\ Complete(buffer, index, f)
  /\ \A t \in Writers :
       /\ pc[t] \in Writing => f.index < wr[t].curr.index
       /\ pc[t] \in Writing \cup EosLabels => EndOf(f) <= wr[t].curr.data

(* What a step of segment_write changes, whatever the segment holds: its   *)
(* own thread, which begins to write where the write offset was, ...       *)
LEMMA WriterOwn ==
  ASSUME StateOK, NEW t \in Writers, WriterStep(t) \/ \E p \in Payloads : segment_write(t, p)
  PROVE  /\ \A u \in Writers : u # t => pc'[u] = pc[u] /\ wr'[u] = wr[u]
         /\ pc'[t] \in Writing =>
              (pc[t] \in Writing /\ wr'[t].curr = wr[t].curr) \/ wr'[t].curr = w_offset_pair
         /\ pc'[t] \in EosLabels =>
              (pc[t] \in EosLabels /\ wr'[t].curr = wr[t].curr) \/ wr'[t].curr = w_offset_pair
<1>0. /\ t \in Threads /\ pc \in [Threads -> WriterLabels \cup ReaderLabels \cup SyncerLabels]
      /\ wr \in [Writers -> WriterState]
  BY DEF StateOK, ThreadsTypeOK, Threads
<1>1. (\E label : Goto(t, label)) \/ UNCHANGED pc
  BY DEF WriterStep, segment_write, marked_eos, CheckEosFlags, ReadWriteOffset, ClaimLost, ClaimFrame,
         CopyToBuffer, InitHeader, StoreHeaderField, StoreIndexEntry, mark_eos, InitEosHeader,
         StoreEosFlags, Crashes, WriteReturns
<1>2. \A u \in Writers : u # t => pc'[u] = pc[u]
  BY <1>0, <1>1 DEF Goto, Threads
<1>3. \A u \in Writers : u # t => wr'[u] = wr[u]
  BY <1>0 DEF WriterStep, segment_write, marked_eos, CheckEosFlags, ReadWriteOffset, ClaimLost,
              ClaimFrame, CopyToBuffer, InitHeader, StoreHeaderField, StoreIndexEntry, mark_eos,
              InitEosHeader, StoreEosFlags, Crashes, WriteReturns, locals
<1>4. CASE ClaimFrame(t) \/ mark_eos(t)
  <2>1. wr'[t].curr = w_offset_pair
    BY <1>4 DEF ClaimFrame, mark_eos, claim, locals
  <2> QED BY <1>2, <1>3, <2>1
<1>5. CASE Crashes
  BY <1>2, <1>3, <1>5 DEF Crashes, locals
<1>6. CASE \/ \E p \in Payloads : segment_write(t, p)
           \/ marked_eos(t) \/ CheckEosFlags(t) \/ ReadWriteOffset(t) \/ ClaimLost(t)
  <2>1. pc'[t] \in {"idle", "marked_eos", "eos_flags", "curr", "claim", "mark_eos"}
    BY <1>0, <1>6 DEF segment_write, marked_eos, CheckEosFlags, ReadWriteOffset, ClaimLost,
                      WriteReturns, Goto
  <2> QED BY <1>2, <1>3, <2>1 DEF Writing, EosLabels
<1>7. CASE ~ Crashes /\ (CopyToBuffer(t) \/ InitHeader(t)
                         \/ \E field \in {"size", "flags"} : StoreHeaderField(t, field))
  <2>1. pc[t] \in Writing /\ pc'[t] \in Writing /\ wr'[t].curr = wr[t].curr
    BY <1>0, <1>7 DEF CopyToBuffer, InitHeader, StoreHeaderField, HeaderFields, At, Goto, Writing,
                      WriterState, locals
  <2> QED BY <1>2, <1>3, <2>1 DEF Writing, EosLabels
<1>8. CASE ~ Crashes /\ (StoreIndexEntry(t) \/ StoreEosFlags(t))
  <2>1. pc'[t] = "idle"
    BY <1>0, <1>8 DEF StoreIndexEntry, StoreEosFlags, WriteReturns, Goto
  <2> QED BY <1>2, <1>3, <2>1 DEF Writing, EosLabels
<1>9. CASE ~ Crashes /\ InitEosHeader(t)
  <2>1. pc[t] \in EosLabels /\ pc'[t] \in EosLabels /\ wr'[t].curr = wr[t].curr
    BY <1>0, <1>9 DEF InitEosHeader, At, Goto, EosLabels, locals
  <2> QED BY <1>2, <1>3, <2>1 DEF Writing, EosLabels
<1> QED BY <1>4, <1>5, <1>6, <1>7, <1>8, <1>9 DEF WriterStep

(* ... and no header below the one it writes, nor another entry. *)
LEMMA WriterStores ==
  ASSUME StateOK, NEW t \in Writers, WriterStep(t) \/ \E p \in Payloads : segment_write(t, p)
  PROVE  /\ \A x \in Nat : (pc[t] \in Writing \cup EosLabels => x < wr[t].curr.data) =>
              HeaderAt(buffer', x) = HeaderAt(buffer, x)
         /\ \A i \in Entry : (pc[t] \in Writing => i < wr[t].curr.index) => index'[i] = index[i]
<1> DEFINE off == wr[t].curr.data
<1>0. /\ off \in Nat /\ wr[t].curr.index \in Nat /\ IsBuffer(buffer) /\ index \in [Entry -> Nat]
      /\ pc[t] # "idle" => wr[t].buf \in Payloads
  BY OwnOffset DEF StateOK, MapsTypeOK
<1>1. CASE UNCHANGED <<buffer, index>>
  BY <1>1
<1>2. CASE CopyToBuffer(t) /\ ~ Crashes
  <2>1. /\ buffer' = CopyPayload(buffer, off, wr[t].buf) /\ index' = index
        /\ pc[t] \in Writing /\ pc[t] # "idle"
    BY <1>2 DEF CopyToBuffer, At, Writing
  <2>2. PICK new, o, p : new = buffer' /\ o = off /\ p = wr[t].buf
    OBVIOUS
  <2>3. o \in Nat /\ p \in Payloads /\ new = CopyPayload(buffer, o, p)
    BY <1>0, <2>1, <2>2
  <2>4. \A x \in Nat : x < o => HeaderAt(new, x) = HeaderAt(buffer, x)
    BY <1>0, <2>3, CopyPayloadFacts
  <2> QED BY <2>1, <2>2, <2>4
<1>3. CASE InitHeader(t) \/ StoreHeaderField(t, "flags") \/ StoreEosFlags(t)
  <2>1. PICK flags \in HeaderFlags : buffer' = StoreFlags(buffer, off, flags)
    BY <1>3 DEF InitHeader, StoreHeaderField, StoreEosFlags, header_init, HeaderFlags
  <2>2. index' = index /\ pc[t] \in Writing \cup EosLabels
    BY <1>3 DEF InitHeader, StoreHeaderField, StoreEosFlags, At, Writing, EosLabels
  <2>3. \A x \in Int : x # off => HeaderAt(buffer', x) = HeaderAt(buffer, x)
    BY <1>0, <2>1, StoreFlagsFacts
  <2> QED BY <1>0, <2>2, <2>3
<1>4. CASE StoreHeaderField(t, "size")
  <2>1. /\ buffer' = StoreSize(buffer, off, FrameSize(wr[t].buf)) /\ index' = index
        /\ pc[t] \in Writing /\ pc[t] # "idle"
    BY <1>4 DEF StoreHeaderField, At, Writing
  <2>2. FrameSize(wr[t].buf) \in Nat
    BY <1>0, <2>1, FrameSizeType
  <2>3. \A x \in Int : x # off => HeaderAt(buffer', x) = HeaderAt(buffer, x)
    BY <1>0, <2>1, <2>2, StoreSizeFacts
  <2> QED BY <1>0, <2>1, <2>3
<1>5. CASE StoreIndexEntry(t) /\ ~ Crashes
  <2>1. /\ index' = [index EXCEPT ![wr[t].curr.index] = off] /\ buffer' = buffer
        /\ pc[t] \in Writing
    BY <1>5 DEF StoreIndexEntry, At, Writing
  <2>2. \A i \in Entry : i < wr[t].curr.index => i # wr[t].curr.index
    BY <1>0
  <2> QED BY <1>0, <2>1, <2>2
<1>6. CASE InitEosHeader(t) /\ ~ Crashes
  <2>1. /\ buffer' = StoreSize(StoreFlags(buffer, off, "EMPTY"), off, 12) /\ index' = index
        /\ pc[t] \in EosLabels /\ "EMPTY" \in HeaderFlags
    BY <1>6 DEF InitEosHeader, header_init, At, EosLabels, HeaderFlags
  <2>2. PICK mid : mid = StoreFlags(buffer, off, "EMPTY")
    OBVIOUS
  <2>3. IsBuffer(mid)
    BY <1>0, <2>1, <2>2, StoreFlagsDomain
  <2>4. \A x \in Int : x # off => HeaderAt(mid, x) = HeaderAt(buffer, x)
    BY <1>0, <2>1, <2>2, StoreFlagsFacts
  <2>5. \A x \in Int : x # off => HeaderAt(buffer', x) = HeaderAt(mid, x)
    BY <1>0, <2>1, <2>2, <2>3, StoreSizeFacts
  <2> QED BY <1>0, <2>1, <2>4, <2>5
<1>7. ASSUME \/ \E p \in Payloads : segment_write(t, p)
             \/ marked_eos(t) \/ CheckEosFlags(t) \/ ReadWriteOffset(t) \/ ClaimLost(t)
             \/ ClaimFrame(t) \/ mark_eos(t) \/ Crashes
      PROVE  UNCHANGED <<buffer, index>>
  BY <1>7 DEF segment_write, marked_eos, CheckEosFlags, ReadWriteOffset, ClaimLost, ClaimFrame, mark_eos,
         Crashes, shared
<1> QED BY <1>1, <1>2, <1>3, <1>4, <1>5, <1>6, <1>7 DEF WriterStep

(* The steps of the other threads. *)
LEMMA OthersOwn ==
  ASSUME StateOK,
         \/ UNCHANGED vars
         \/ \E t \in Readers : ReaderStep(t) \/ \E rel \in 0 .. MaxWrites - 1 : segment_read(t, rel)
         \/ \E t \in Syncers : SyncerStep(t) \/ segment_sync(t)
  PROVE  /\ UNCHANGED <<w_offset_pair, buffer, index, wr, frames>>
         /\ \A u \in Writers : pc'[u] = pc[u]
<1>1. CASE UNCHANGED vars
  BY <1>1 DEF vars, shared, locals
<1>2. ASSUME NEW t \in Readers,
             ReaderStep(t) \/ \E rel \in 0 .. MaxWrites - 1 : segment_read(t, rel)
      PROVE  /\ UNCHANGED <<w_offset_pair, buffer, index, wr, frames>>
             /\ \A u \in Writers : pc'[u] = pc[u]
  <2>1. UNCHANGED <<w_offset_pair, buffer, index, wr, frames>>
    BY <1>2 DEF ReaderStep, segment_read, CheckWriteIndex, ReadIndexEntry, ReadFlags, ReadSize,
                Crashes, shared, locals
  <2>2. (\E label : Goto(t, label)) \/ UNCHANGED pc
    BY <1>2 DEF ReaderStep, segment_read, CheckWriteIndex, ReadIndexEntry, ReadFlags, ReadSize,
                ReadReturns, Crashes
  <2> QED BY <2>1, <2>2, ThreadAssumption DEF StateOK, ThreadsTypeOK, Goto, Threads
<1>3. ASSUME NEW t \in Syncers, SyncerStep(t) \/ segment_sync(t)
      PROVE  /\ UNCHANGED <<w_offset_pair, buffer, index, wr, frames>>
             /\ \A u \in Writers : pc'[u] = pc[u]
  <2>1. UNCHANGED <<w_offset_pair, buffer, index, wr, frames>>
    BY <1>3 DEF SyncerStep, segment_sync, SyncDataReadEnd, SyncDataLength, MsyncData, StoreSyncedData,
                SyncIndexReadStart, SyncIndexReadEnd, SyncIndexLength, MsyncIndex, StoreSyncedIndex,
                shared
  <2>2. \E label : Goto(t, label)
    BY <1>3 DEF SyncerStep, segment_sync, SyncDataReadEnd, SyncDataLength, MsyncData, StoreSyncedData,
                SyncIndexReadStart, SyncIndexReadEnd, SyncIndexLength, MsyncIndex, StoreSyncedIndex,
                SyncReturns
  <2> QED BY <2>1, <2>2, ThreadAssumption DEF StateOK, ThreadsTypeOK, Goto, Threads
<1> QED BY <1>1, <1>2, <1>3

(* A protected frame stays protected, whatever runs. *)
LEMMA ProtectedKept ==
  ASSUME StateOK, StateOK', [Next]_vars, NEW f, Protected(f)
  PROVE  Protected(f)'
<1>0. /\ w_offset_pair.data \in Nat /\ w_offset_pair.index \in Nat
      /\ f.index \in Entry /\ f.index \in Nat /\ f.data \in Nat /\ f.payload \in Payloads
      /\ EndOf(f) \in Nat /\ f.data < EndOf(f)
  <2>1. /\ f.index \in Entry /\ f.data \in Nat /\ f.payload \in Payloads
    BY DEF Protected
  <2>2. FrameSize(f.payload) \in Nat /\ FrameSize(f.payload) > 0
    BY <2>1, FrameSizeType
  <2>3. w_offset_pair.data \in Nat /\ w_offset_pair.index \in Nat
    BY PairTypes
  <2> QED BY <2>1, <2>2, <2>3 DEF EndOf, Entry
<1>1. ASSUME NEW t \in Writers, WriterStep(t) \/ \E p \in Payloads : segment_write(t, p)
      PROVE  Protected(f)'
  <2>1. w_offset_pair'.data >= w_offset_pair.data /\ w_offset_pair'.index >= w_offset_pair.index
    BY <1>1, WriterAdvances
  <2>2. w_offset_pair'.data \in Nat /\ w_offset_pair'.index \in Nat
    BY DEF StateOK, OffsetsTypeOK, Pair
  <2>3. f.index < w_offset_pair'.index /\ EndOf(f) <= w_offset_pair'.data
    BY <1>0, <2>1, <2>2 DEF Protected
  <2>4. /\ pc[t] \in Writing => f.index < wr[t].curr.index
        /\ pc[t] \in Writing \cup EosLabels => f.data < wr[t].curr.data
    BY <1>0, OwnOffset DEF Protected
  <2>5. HeaderAt(buffer', f.data) = HeaderAt(buffer, f.data) /\ index'[f.index] = index[f.index]
    BY <1>0, <1>1, <2>4, WriterStores
  <2>6. Complete(buffer', index', f)
    BY <2>5 DEF Protected, Complete
  <2>7. ASSUME NEW u \in Writers
        PROVE  /\ pc'[u] \in Writing => f.index < wr'[u].curr.index
               /\ pc'[u] \in Writing \cup EosLabels => EndOf(f) <= wr'[u].curr.data
    <3>1. CASE u # t
      BY <1>1, <3>1, WriterOwn DEF Protected
    <3>2. CASE u = t
      <4>1. /\ pc'[t] \in Writing =>
                 (pc[t] \in Writing /\ wr'[t].curr = wr[t].curr) \/ wr'[t].curr = w_offset_pair
            /\ pc'[t] \in EosLabels =>
                 (pc[t] \in EosLabels /\ wr'[t].curr = wr[t].curr) \/ wr'[t].curr = w_offset_pair
        BY <1>1, WriterOwn
      <4> QED BY <3>2, <4>1 DEF Protected
    <3> QED BY <3>1, <3>2
  <2> QED BY <1>0, <2>3, <2>6, <2>7 DEF Protected, EndOf
<1>2. CASE \/ UNCHANGED vars
           \/ \E t \in Readers : ReaderStep(t) \/ \E rel \in 0 .. MaxWrites - 1 : segment_read(t, rel)
           \/ \E t \in Syncers : SyncerStep(t) \/ segment_sync(t)
  <2>1. /\ UNCHANGED <<w_offset_pair, buffer, index, wr>>
        /\ \A u \in Writers : pc'[u] = pc[u]
    BY <1>2, OthersOwn
  <2> QED BY <2>1 DEF Protected, Complete, EndOf
<1> QED BY <1>1, <1>2 DEF Next

(* The types, through any number of restarts. *)
LEMMA NextGround ==
  ASSUME StateOK, IsBuffer(disk.buffer), [RestartNext]_allVars
  PROVE  StateOK' /\ IsBuffer(disk'.buffer)
<1>0. IsBuffer(buffer) /\ index \in [Entry -> Nat] /\ disk.index \in [Entry -> Nat]
  BY DEF StateOK, MapsTypeOK, DiskTypeOK
<1>1. CASE Run \/ UNCHANGED allVars
  <2>1. [Next]_vars
    BY <1>1 DEF Run, allVars
  <2> QED BY <2>1, NextState, DiskBuffer
<1>2. CASE WriteBackData \/ WriteBackIndex
  BY <1>2, WriteBackState
<1>3. CASE Die
  <2>1. PICK tail \in BOOLEAN :
          segment_open([i \in Entry |-> IF InIndexFile(i) \/ tail THEN index[i] ELSE 0], buffer, disk)
    BY <1>3 DEF Die
  <2>2. PICK idx : idx = [i \in Entry |-> IF InIndexFile(i) \/ tail THEN index[i] ELSE 0]
    OBVIOUS
  <2>3. idx \in [Entry -> Nat] /\ segment_open(idx, buffer, disk)
    BY <1>0, <2>1, <2>2
  <2> QED BY <1>0, <2>3, OpenState DEF RestartInv
<1>4. CASE MachineCrash
  BY <1>0, <1>4, OpenState DEF MachineCrash, RestartInv
<1> QED BY <1>1, <1>2, <1>3, <1>4 DEF RestartNext

(* Where find_w_offset_pair resumes: at the first entry that looks unused, *)
(* behind the frame of the entry before it.                                *)
LEMMA FoundAt ==
  ASSUME NEW idx, idx \in [Entry -> Nat], NEW buf, IsBuffer(buf),
         NEW found, found = find_w_offset_pair(buf, idx, Size), found.rc = 0
  PROVE  LET m == found.pair.index
         IN  /\ m \in FreeEntries(buf, idx, Size) /\ m \in 0 .. max_index_entries(Size) - 1
             /\ \A j \in 0 .. m - 1 : j \notin FreeEntries(buf, idx, Size)
             /\ m # 0 => /\ m - 1 \in Entry
                         /\ found.pair.data = idx[m - 1] + HeaderAt(buf, idx[m - 1]).size
<1>1. PICK free : free = FreeEntries(buf, idx, Size)
  OBVIOUS
<1>2. /\ free \subseteq 0 .. max_index_entries(Size) - 1
      /\ max_index_entries(Size) \in Nat /\ MappedEntries(Size) \in Nat
      /\ max_index_entries(Size) <= MappedEntries(Size)
  BY <1>1, MappedCovers DEF FreeEntries
<1>3. free # {}
  <2>1. free = {} => found.rc = ELWOFFS
    BY <1>1 DEF find_w_offset_pair
  <2> QED BY <2>1 DEF ELWOFFS
<1>4. PICK m : m = CHOOSE n \in free : \A k \in free : n <= k
  OBVIOUS
<1>5. m \in free /\ \A k \in free : m <= k
  <2>1. free \subseteq Nat
    BY <1>2
  <2>2. \E n \in free : \A k \in free : n <= k
    BY <1>3, <2>1, LeastEntry
  <2> QED BY <1>4, <2>2
<1>6. found.pair = [index |-> m, data |-> (IF m = 0 THEN 0 ELSE idx[m - 1])
                      + (IF m = 0 THEN 0 ELSE HeaderAt(buf, IF m = 0 THEN 0 ELSE idx[m - 1]).size)]
  BY <1>1, <1>3, <1>4 DEF find_w_offset_pair
<1>7. m \in Nat /\ (m # 0 => m - 1 \in Entry)
  BY <1>2, <1>5 DEF Entry
<1>8. \A j \in 0 .. m - 1 : j \notin free
  BY <1>5, <1>7
<1> QED BY <1>1, <1>2, <1>5, <1>6, <1>7, <1>8

(* An entry that does not look unused is set, or is that of offset 0. *)
LEMMA NotFree ==
  ASSUME NEW idx, NEW buf, NEW j \in 0 .. max_index_entries(Size) - 1,
         j \notin FreeEntries(buf, idx, Size)
  PROVE  idx[j] # 0 \/ j = 0
BY DEF FreeEntries

(* segment_open protects the frames that it finds complete below where it *)
(* resumes, and that end below the frame before that place.               *)
LEMMA OpenProtects ==
  ASSUME NEW idx, idx \in [Entry -> Nat], NEW buf, IsBuffer(buf), StateOK', opened',
         segment_open(idx, buf, disk),
         NEW f, f.index \in Entry, f.data \in Nat, f.payload \in Payloads, Complete(buf, idx, f),
         f.index < w_offset_pair'.index,
         f.index # w_offset_pair'.index - 1 => EndOf(f) <= idx[w_offset_pair'.index - 1]
  PROVE  Protected(f)'
<1>1. PICK found : found = find_w_offset_pair(buf, idx, Size)
  OBVIOUS
<1>2. /\ found.rc = 0 /\ w_offset_pair' = found.pair /\ index' = idx /\ buffer' = buf
      /\ \A t \in Writers : pc'[t] = "idle"
  BY <1>1 DEF segment_open, Threads
<1>3. PICK m : m = w_offset_pair'.index
  OBVIOUS
<1>4. /\ m \in Nat /\ f.index \in Nat /\ f.index < m /\ m - 1 \in Entry
      /\ w_offset_pair'.data = idx[m - 1] + HeaderAt(buf, idx[m - 1]).size
  <2>1. found.rc = 0 /\ m = found.pair.index
    BY <1>2, <1>3
  <2>2. /\ m \in 0 .. max_index_entries(Size) - 1
        /\ m # 0 => /\ m - 1 \in Entry
                    /\ found.pair.data = idx[m - 1] + HeaderAt(buf, idx[m - 1]).size
    BY <1>1, <2>1, FoundAt
  <2>3. m \in Nat /\ f.index \in Nat /\ f.index < m /\ m # 0
    BY <1>3, <2>2 DEF Entry
  <2> QED BY <1>2, <2>2, <2>3
<1>5. /\ FrameSize(f.payload) \in Nat /\ idx[m - 1] \in Nat
      /\ HeaderAt(buf, idx[m - 1]).size \in Nat
  BY <1>4, FrameSizeType, HeaderAtType DEF Header
<1>6. EndOf(f) <= w_offset_pair'.data
  <2>1. CASE f.index = m - 1
    <3>1. idx[m - 1] = f.data /\ HeaderAt(buf, f.data).size = FrameSize(f.payload)
      BY <2>1 DEF Complete
    <3> QED BY <1>4, <1>5, <3>1 DEF EndOf
  <2>2. CASE f.index # m - 1
    BY <1>3, <1>4, <1>5, <2>2 DEF EndOf
  <2> QED BY <2>1, <2>2
<1> QED BY <1>2, <1>3, <1>4, <1>6 DEF Protected, Writing, EosLabels, EndOf

-----------------------------------------------------------------------------
(* SyncedSurvive, with one syncing thread.  In the first life every frame  *)
(* is complete that nobody is writing, so those that a sync has passed are *)
(* complete on disk, with every entry before them.                         *)

(* How far a writer has come with the stores to its header. *)
HeaderStored(t) ==
  LET hdr == HeaderAt(buffer, wr[t].curr.data)
  IN  /\ pc[t] \in {"header", "index"} =>
           /\ "size" \in wr[t].todo \/ hdr.size = FrameSize(wr[t].buf)
           /\ "flags" \in wr[t].todo \/ hdr.flags = "READY"
      /\ pc[t] = "index" => wr[t].todo = {}

Finished ==
  \A i \in DOMAIN frames :
    \/ \E t \in Writers : pc[t] \in Writing /\ wr[t].curr.index = i
    \/ Shown(i)

(* What is on disk of the index is right. *)
DiskIndexPoints ==
  \A i \in Entry : disk.index[i] # 0 => i \in DOMAIN frames /\ disk.index[i] = frames[i].data

FinishInv == LogInv /\ Finished /\ \A t \in Writers : HeaderStored(t)

LEMMA HeaderStoredOwn ==
  ASSUME StateOK, NEW t \in Writers, HeaderStored(t),
         WriterStep(t) \/ \E p \in Payloads : segment_write(t, p)
  PROVE  HeaderStored(t)'
<1> DEFINE off == wr[t].curr.data
<1>0. /\ t \in Threads /\ pc \in [Threads -> WriterLabels \cup ReaderLabels \cup SyncerLabels]
      /\ wr \in [Writers -> WriterState] /\ wr[t].todo \subseteq {"size", "flags"}
      /\ off \in Nat /\ IsBuffer(buffer) /\ (pc[t] # "idle" => wr[t].buf \in Payloads)
  BY OwnOffset DEF StateOK, ThreadsTypeOK, Threads, WriterState
<1>1. CASE pc'[t] \notin {"header", "index"}
  BY <1>1 DEF HeaderStored
<1>2. CASE Crashes
  BY <1>2 DEF Crashes, locals, shared, HeaderStored
<1>3. CASE InitHeader(t)
  <2>1. pc'[t] = "header" /\ wr'[t].todo = {"size", "flags"}
    BY <1>0, <1>3 DEF InitHeader, Goto, HeaderFields, WriterState
  <2> QED BY <2>1 DEF HeaderStored
<1>4. ASSUME StoreHeaderField(t, "size") PROVE HeaderStored(t)'
  <2>1. /\ buffer' = StoreSize(buffer, off, FrameSize(wr[t].buf)) /\ pc[t] = "header"
        /\ wr'[t].curr = wr[t].curr /\ wr'[t].buf = wr[t].buf /\ wr'[t].todo = wr[t].todo \ {"size"}
        /\ pc'[t] = IF wr[t].todo = {"size"} THEN "index" ELSE "header"
    BY <1>0, <1>4 DEF StoreHeaderField, At, Goto, WriterState
  <2>2. FrameSize(wr[t].buf) \in Nat
    BY <1>0, <2>1, FrameSizeType
  <2>3. HeaderAt(buffer', off).size = FrameSize(wr[t].buf)
        /\ HeaderAt(buffer', off).flags = HeaderAt(buffer, off).flags
    BY <1>0, <2>1, <2>2, StoreSizeFacts
  <2> QED BY <2>1, <2>3 DEF HeaderStored
<1>5. ASSUME StoreHeaderField(t, "flags") PROVE HeaderStored(t)'
  <2>1. /\ buffer' = StoreFlags(buffer, off, "READY") /\ pc[t] = "header" /\ "READY" \in HeaderFlags
        /\ wr'[t].curr = wr[t].curr /\ wr'[t].buf = wr[t].buf /\ wr'[t].todo = wr[t].todo \ {"flags"}
        /\ pc'[t] = IF wr[t].todo = {"flags"} THEN "index" ELSE "header"
    BY <1>0, <1>5 DEF StoreHeaderField, At, Goto, WriterState, HeaderFlags
  <2>2. HeaderAt(buffer', off).flags = "READY"
        /\ HeaderAt(buffer', off).size = HeaderAt(buffer, off).size
    BY <1>0, <2>1, StoreFlagsFacts
  <2> QED BY <2>1, <2>2 DEF HeaderStored
<1>6. ASSUME \/ \E p \in Payloads : segment_write(t, p)
             \/ marked_eos(t) \/ CheckEosFlags(t) \/ ReadWriteOffset(t) \/ ClaimLost(t)
             \/ ClaimFrame(t) \/ CopyToBuffer(t) \/ StoreIndexEntry(t)
             \/ mark_eos(t) \/ InitEosHeader(t) \/ StoreEosFlags(t),
             ~ Crashes
      PROVE  pc'[t] \notin {"header", "index"}
  BY <1>0, <1>6 DEF segment_write, marked_eos, CheckEosFlags, ReadWriteOffset, ClaimLost, ClaimFrame,
                    CopyToBuffer, StoreIndexEntry, mark_eos, InitEosHeader, StoreEosFlags, WriteReturns,
                    Goto
<1> QED BY <1>1, <1>2, <1>3, <1>4, <1>5, <1>6 DEF WriterStep

(* A frame that is readable stays so. *)
LEMMA ShownStays ==
  ASSUME LogInv, [Next]_vars, NEW i \in DOMAIN frames, Shown(i)
  PROVE  Shown(i)'
<1> DEFINE seen == {j \in DOMAIN frames : Readable(j)}
<1>1. LogInv' /\ [Log!Next]_(Log!logVars)
  BY NextLog
<1>2. ReadInv /\ ReadInv'
  BY <1>1 DEF LogInv
<1>3. i \in seen
  BY <1>2, ReadableIsShown
<1>4. seen \subseteq seen'
  BY <1>1 DEF Log!Next, Log!Reserve, Log!Publish, Log!logVars
<1>5. i \in DOMAIN frames' /\ Readable(i)'
  BY <1>3, <1>4
<1> QED BY <1>2, <1>5, ReadableIsShownNext

(* A writer that is writing a frame goes on, or stores the entry. *)
LEMMA InFlightNext ==
  ASSUME StateOK, NEW t \in Writers, pc[t] \in Writing,
         WriterStep(t) \/ \E p \in Payloads : segment_write(t, p)
  PROVE  \/ pc'[t] \in Writing /\ wr'[t].curr = wr[t].curr
         \/ StoreIndexEntry(t) /\ ~ Crashes
<1>0. /\ t \in Threads /\ pc \in [Threads -> WriterLabels \cup ReaderLabels \cup SyncerLabels]
      /\ wr \in [Writers -> WriterState]
  BY DEF StateOK, ThreadsTypeOK, Threads
<1>1. \/ CopyToBuffer(t) \/ InitHeader(t) \/ StoreIndexEntry(t)
      \/ \E field \in {"size", "flags"} : StoreHeaderField(t, field)
  BY DEF WriterStep, segment_write, marked_eos, CheckEosFlags, ReadWriteOffset, ClaimLost, ClaimFrame,
         mark_eos, InitEosHeader, StoreEosFlags, At, Writing
<1>2. CASE Crashes
  BY <1>2 DEF Crashes, locals
<1>3. CASE CopyToBuffer(t) /\ ~ Crashes
  BY <1>0, <1>3 DEF CopyToBuffer, Goto, Writing, locals
<1>4. CASE InitHeader(t) \/ \E field \in {"size", "flags"} : StoreHeaderField(t, field)
  BY <1>0, <1>4 DEF InitHeader, StoreHeaderField, Goto, Writing, WriterState, HeaderFields
<1> QED BY <1>1, <1>2, <1>3, <1>4

LEMMA WriterFinish ==
  ASSUME FinishInv, [Next]_vars, NEW t \in Writers,
         WriterStep(t) \/ \E p \in Payloads : segment_write(t, p)
  PROVE  FinishInv'
<1>0. LogInv /\ ReadInv /\ TypeOK /\ StateOK
  BY DEF FinishInv, LogInv, ReadInv, TypeOK, StateOK
<1>1. LogInv'
  BY <1>0, NextLog
<1>2. \A u \in Writers : u # t => pc'[u] = pc[u] /\ wr'[u] = wr[u]
  BY <1>0, WriterOwn
<1>3. ASSUME NEW u \in Writers PROVE HeaderStored(u)'
  <2>1. CASE u = t
    BY <1>0, <2>1, HeaderStoredOwn DEF FinishInv
  <2>2. CASE u # t /\ pc[u] \in Writing
    <3>1. wr[u].curr.index \in DOMAIN frames /\ frames[wr[u].curr.index].data = wr[u].curr.data
      BY <1>0, <2>2, OwnerFacts
    <3>2. pc[t] \in Writing => wr[u].curr.index # wr[t].curr.index
      BY <1>0, <2>2 DEF LogInv, OwnersDistinct
    <3>3. HeaderAt(buffer', wr[u].curr.data) = HeaderAt(buffer, wr[u].curr.data)
      <4>1. CASE WriterStep(t)
        BY <1>0, <3>1, <3>2, <4>1, StoresToOwnFrame
      <4>2. CASE \E p \in Payloads : segment_write(t, p)
        BY <4>2 DEF segment_write, shared
      <4> QED BY <4>1, <4>2
    <3> QED BY <1>2, <2>2, <3>3 DEF FinishInv, HeaderStored
  <2>3. CASE u # t /\ pc[u] \notin Writing
    BY <1>2, <2>3 DEF HeaderStored, Writing
  <2> QED BY <2>1, <2>2, <2>3
<1>4. ASSUME NEW i \in DOMAIN frames'
      PROVE  (\E u \in Writers : pc'[u] \in Writing /\ wr'[u].curr.index = i) \/ Shown(i)'
  <2>1. CASE i \notin DOMAIN frames
    <3>1. ClaimFrame(t)
      BY <1>4, <2>1 DEF WriterStep, segment_write, marked_eos, CheckEosFlags, ReadWriteOffset, ClaimLost,
           CopyToBuffer, InitHeader, StoreHeaderField, StoreIndexEntry, mark_eos, InitEosHeader,
           StoreEosFlags, Crashes
    <3>2. /\ frames' = [j \in DOMAIN frames \cup {wr[t].curr.index} |->
                          IF j = wr[t].curr.index THEN [data |-> wr[t].curr.data, payload |-> wr[t].buf]
                          ELSE frames[j]]
          /\ Goto(t, "copy") /\ wr' = wr
      BY <3>1 DEF ClaimFrame, locals
    <3>3. i = wr[t].curr.index /\ pc'[t] = "copy"
      BY <1>0, <1>4, <2>1, <3>2 DEF Goto, StateOK, ThreadsTypeOK, Threads
    <3> QED BY <3>2, <3>3 DEF Writing
  <2>2. CASE i \in DOMAIN frames /\ Shown(i)
    BY <1>0, <2>2, ShownStays
  <2>3. ASSUME i \in DOMAIN frames, NEW u \in Writers, pc[u] \in Writing, wr[u].curr.index = i
        PROVE  (\E v \in Writers : pc'[v] \in Writing /\ wr'[v].curr.index = i) \/ Shown(i)'
    <3>1. CASE u # t
      BY <1>2, <2>3, <3>1
    <3>2. CASE u = t /\ pc'[t] \in Writing /\ wr'[t].curr = wr[t].curr
      BY <2>3, <3>2
    <3>3. CASE u = t /\ StoreIndexEntry(t) /\ ~ Crashes
      <4>1. /\ i \in Entry /\ index' = [index EXCEPT ![i] = wr[t].curr.data] /\ pc[t] = "index"
            /\ UNCHANGED <<buffer, frames>>
        BY <2>3, <3>3 DEF StoreIndexEntry, At
      <4>2. frames[i].data = wr[t].curr.data /\ index'[i] = wr[t].curr.data
        BY <1>0, <2>3, <3>3, <4>1, OwnerFacts DEF StateOK, MapsTypeOK
      <4>3. /\ HeaderAt(buffer, wr[t].curr.data).size = FrameSize(wr[t].buf)
            /\ HeaderAt(buffer, wr[t].curr.data).flags = "READY"
        BY <4>1 DEF FinishInv, HeaderStored
      <4>4. FrameSize(wr[t].buf) # 0
        <5>1. wr[t].buf \in Payloads
          BY <1>0, <4>1, OwnOffset
        <5> QED BY <5>1, FrameSizeType
      <4> QED BY <2>3, <4>1, <4>2, <4>3, <4>4 DEF Shown
    <3> QED BY <1>0, <2>3, <3>1, <3>2, <3>3, InFlightNext
  <2> QED BY <2>1, <2>2, <2>3 DEF FinishInv, Finished
<1> QED BY <1>1, <1>3, <1>4 DEF FinishInv, Finished

LEMMA NextFinish ==
  ASSUME FinishInv, [Next]_vars
  PROVE  FinishInv'
<1>0. LogInv /\ StateOK
  BY DEF FinishInv, LogInv, ReadInv, TypeOK, StateOK
<1>1. CASE \/ UNCHANGED vars
           \/ \E t \in Readers : ReaderStep(t) \/ \E rel \in 0 .. MaxWrites - 1 : segment_read(t, rel)
           \/ \E t \in Syncers : SyncerStep(t) \/ segment_sync(t)
  <2>1. /\ UNCHANGED <<buffer, index, wr, frames>>
        /\ \A u \in Writers : pc'[u] = pc[u]
    BY <1>0, <1>1, OthersOwn
  <2>2. LogInv'
    BY <1>0, NextLog
  <2>3. \A t \in Writers : HeaderStored(t)'
    BY <2>1 DEF FinishInv, HeaderStored
  <2>4. Finished'
    BY <2>1 DEF FinishInv, Finished, Shown
  <2> QED BY <2>2, <2>3, <2>4 DEF FinishInv
<1> QED BY <1>1, WriterFinish DEF Next

(* Both ways for an entry to get to disk copy one that is right. *)
LEMMA DiskIndexKept ==
  ASSUME ReadInv, DiskIndexPoints, [Next]_vars \/ WriteBackIndex \/ WriteBackData
  PROVE  DiskIndexPoints'
<1>0. /\ TypeOK /\ DOMAIN disk = {"index", "buffer", "torn"}
      /\ \A i \in Entry : index[i] # 0 => i \in DOMAIN frames /\ index[i] = frames[i].data
  BY DEF ReadInv, TypeOK, DiskTypeOK, IndexPointsToFrame
<1>1. ASSUME NEW t \in Writers, WriterStep(t) \/ \E p \in Payloads : segment_write(t, p)
      PROVE  DiskIndexPoints'
  <2>1. /\ disk' = disk /\ DOMAIN frames \subseteq DOMAIN frames'
        /\ \A i \in DOMAIN frames : frames'[i] = frames[i]
    BY <1>1, WriterShape
  <2> QED BY <2>1 DEF DiskIndexPoints
<1>2. CASE frames' = frames /\ \A i \in Entry : disk'.index[i] = disk.index[i] \/ disk'.index[i] = index[i]
  BY <1>0, <1>2 DEF DiskIndexPoints
<1>3. ASSUME \/ UNCHANGED vars
             \/ \E t \in Readers : ReaderStep(t) \/ \E rel \in 0 .. MaxWrites - 1 : segment_read(t, rel)
      PROVE  UNCHANGED <<frames, disk>>
  BY <1>3 DEF vars, ReaderStep, segment_read, CheckWriteIndex, ReadIndexEntry, ReadFlags, ReadSize,
              Crashes, shared
<1>4. ASSUME NEW t \in Syncers, SyncerStep(t) \/ segment_sync(t)
      PROVE  frames' = frames /\ \A i \in Entry : disk'.index[i] = disk.index[i] \/ disk'.index[i] = index[i]
  <2>1. CASE MsyncIndex(t)
    BY <1>0, <2>1 DEF MsyncIndex
  <2>2. CASE MsyncData(t)
    <3>1. frames' = frames /\ disk'.index = disk.index
      BY <1>0, <2>2 DEF MsyncData
    <3> QED BY <3>1
  <2>3. CASE UNCHANGED <<frames, disk>>
    BY <2>3
  <2> QED BY <1>4, <2>1, <2>2, <2>3
          DEF SyncerStep, segment_sync, SyncDataReadEnd, SyncDataLength, StoreSyncedData,
              SyncIndexReadStart, SyncIndexReadEnd, SyncIndexLength, StoreSyncedIndex, shared
<1>5. CASE WriteBackIndex
  <2>1. frames' = frames /\ \A i \in Entry : disk'.index[i] = disk.index[i] \/ disk'.index[i] = index[i]
    BY <1>0, <1>5 DEF WriteBackIndex
  <2> QED BY <1>2, <2>1
<1>6. CASE WriteBackData
  <2>1. frames' = frames /\ disk'.index = disk.index
    BY <1>0, <1>6 DEF WriteBackData
  <2> QED BY <1>2, <2>1
<1> QED BY <1>1, <1>2, <1>3, <1>4, <1>5, <1>6 DEF Next

(* The frames that a sync has passed are complete on disk. *)
LEMMA SyncedOnDisk ==
  ASSUME SyncInv, FinishInv, NEW i \in Synced, NEW j \in 0 .. i
  PROVE  /\ j \in DOMAIN frames /\ j \in Entry /\ j < max_index_entries(Size)
         /\ Complete(disk.buffer, disk.index, Frame(j))
<1>0. /\ ReadInv /\ TypeOK /\ LogInv /\ Finished
      /\ DataSynced(s_offset_pair.data) /\ IndexSynced(s_offset_pair.index)
  BY DEF SyncInv, FinishInv, LogInv, ReadInv
<1>1. /\ i \in DOMAIN frames /\ i < max_index_entries(Size) /\ i < s_offset_pair.index
      /\ FrameEnd(i) <= s_offset_pair.data /\ disk.torn \cap (0 .. i) = {}
  BY DEF Synced, InIndexFile
<1>2. /\ i \in Nat /\ j \in Nat /\ j <= i /\ j \in DOMAIN frames /\ j \notin disk.torn
      /\ s_offset_pair.data \in Nat /\ s_offset_pair.index \in Nat
      /\ max_index_entries(Size) \in Nat /\ MappedEntries(Size) \in Nat
      /\ max_index_entries(Size) <= MappedEntries(Size)
  <2>1. i \in Nat /\ i \in DOMAIN frames
    BY <1>0, <1>1, FrameFacts
  <2>2. j \in Nat /\ j <= i /\ j \in 0 .. i
    BY <2>1
  <2>3. j \notin disk.torn
    BY <1>1, <2>2
  <2>4. j \in DOMAIN frames
    BY <1>0, <2>1, <2>2 DEF TypeOK, FramesTypeOK, OffsetsTypeOK, Pair
  <2>5. s_offset_pair.data \in Nat /\ s_offset_pair.index \in Nat
    BY <1>0 DEF TypeOK, OffsetsTypeOK, Pair
  <2> QED BY <2>1, <2>2, <2>3, <2>4, <2>5, MappedCovers
<1>3. j < s_offset_pair.index /\ j < max_index_entries(Size) /\ j \in Entry
  BY <1>1, <1>2 DEF Entry
<1>4. FrameEnd(j) <= s_offset_pair.data /\ frames[j].data < s_offset_pair.data
  <2>1. /\ FrameEnd(j) \in Nat /\ frames[j].data \in Nat /\ FrameEnd(j) >= frames[j].data + 12
        /\ FrameEnd(i) \in Nat /\ frames[i].data \in Nat /\ FrameEnd(i) >= frames[i].data + 12
    BY <1>0, <1>1, <1>2, FrameFacts
  <2>2. j < i => FrameEnd(j) <= frames[i].data
    BY <1>0, <1>1, <1>2 DEF ReadInv, FramesDisjoint
  <2> QED BY <1>1, <1>2, <2>1, <2>2
<1>5. /\ HeaderAt(disk.buffer, frames[j].data) = HeaderAt(buffer, frames[j].data)
      /\ disk.index[j] = index[j]
  BY <1>0, <1>2, <1>3, <1>4 DEF DataSynced, IndexSynced
<1>6. Shown(j)
  <2>1. ASSUME NEW t \in Writers, pc[t] \in Writing, wr[t].curr.index = j PROVE FALSE
    <3>1. wr[t].curr.data = frames[j].data
      BY <1>0, <2>1, OwnerFacts
    <3> QED BY <1>0, <1>2, <1>4, <2>1, <3>1 DEF DataSynced
  <2> QED BY <1>0, <1>2, <2>1 DEF Finished
<1>7. /\ HeaderAt(buffer, frames[j].data).flags = "READY"
      /\ HeaderAt(buffer, frames[j].data).size = FrameSize(frames[j].payload)
      /\ HeaderAt(buffer, frames[j].data).payload = frames[j].payload
      /\ index[j] = frames[j].data
  BY <1>0, <1>2, <1>6 DEF Shown, ReadInv, SizeMeansWhole
<1>8. PICK hdr \in Header : hdr = HeaderAt(buffer, frames[j].data)
  BY <1>0, HeaderAtType DEF TypeOK, MapsTypeOK
<1>9. hdr = [flags |-> "READY", size |-> FrameSize(frames[j].payload), payload |-> frames[j].payload]
  BY <1>7, <1>8 DEF Header
<1> QED BY <1>2, <1>3, <1>5, <1>7, <1>8, <1>9 DEF Complete, Frame

(* What the machine crash leaves of them, segment_open finds. *)
LEMMA CrashProtects ==
  ASSUME SyncInv, IsBuffer(disk.buffer), FinishInv, DiskIndexPoints, MachineCrash, StateOK', opened',
         NEW i \in Synced, NEW f, f = Frame(i)
  PROVE  Protected(f)' /\ (f.index # 0 => f.data # 0)
<1>0. /\ ReadInv /\ TypeOK /\ disk.index \in [Entry -> Nat] /\ i \in DOMAIN frames /\ i \in Nat
  BY FrameFacts DEF SyncInv, ReadInv, TypeOK, DiskTypeOK, Synced
<1>1. segment_open(disk.index, disk.buffer, disk)
  BY DEF MachineCrash
<1>3. /\ f.index = i /\ f.data = frames[i].data /\ f.payload = frames[i].payload
      /\ f.data \in Nat /\ f.payload \in Payloads /\ EndOf(f) = FrameEnd(i) /\ EndOf(f) \in Nat
  BY <1>0, FrameFacts DEF Frame, EndOf
<1>4. f.index \in Entry /\ Complete(disk.buffer, disk.index, f)
  BY <1>0, <1>3, SyncedOnDisk
<1>5. f.index # 0 => f.data # 0
  BY <1>0, <1>3, FirstFrame
<1>6. PICK found : found = find_w_offset_pair(disk.buffer, disk.index, Size)
  OBVIOUS
<1>7. found.rc = 0 /\ w_offset_pair' = found.pair
  BY <1>1, <1>6 DEF segment_open
<1>8. PICK m : m = w_offset_pair'.index
  OBVIOUS
<1>9. /\ m \in FreeEntries(disk.buffer, disk.index, Size) /\ m \in 0 .. max_index_entries(Size) - 1
      /\ \A j \in 0 .. m - 1 : j \notin FreeEntries(disk.buffer, disk.index, Size)
  BY <1>0, <1>6, <1>7, <1>8, FoundAt
<1>10. i < m
  <2> SUFFICES ASSUME m \in 0 .. i PROVE FALSE
    BY <1>0, <1>9
  <2>1. m \in DOMAIN frames /\ Complete(disk.buffer, disk.index, Frame(m))
    BY SyncedOnDisk
  <2>2. disk.index[m] = frames[m].data /\ HeaderAt(disk.buffer, frames[m].data).flags = "READY"
    BY <2>1 DEF Complete, Frame
  <2>3. disk.index[m] = 0 /\ ~ (m = 0 /\ prot_is_header(HeaderAt(disk.buffer, 0)))
    BY <1>9 DEF FreeEntries
  <2>4. m = 0
    BY <1>0, <2>1, <2>2, <2>3, FirstFrame
  <2> QED BY <2>2, <2>3, <2>4 DEF prot_is_header
<1>11. i # m - 1 => FrameEnd(i) <= disk.index[m - 1]
  <2> SUFFICES ASSUME i # m - 1 PROVE FrameEnd(i) <= disk.index[m - 1]
    OBVIOUS
  <2>1. m \in Nat /\ m - 1 \in 0 .. m - 1 /\ m - 1 # 0 /\ i < m - 1
        /\ m - 1 \in 0 .. max_index_entries(Size) - 1
    BY <1>0, <1>9, <1>10, MappedCovers
  <2>2. m - 1 \in Entry
    BY <2>1, MappedCovers DEF Entry
  <2>3. disk.index[m - 1] # 0
    <3>1. PICK k : k = m - 1
      OBVIOUS
    <3> QED BY <1>9, <2>1, <3>1, NotFree
  <2>4. m - 1 \in DOMAIN frames /\ disk.index[m - 1] = frames[m - 1].data
    BY <2>2, <2>3 DEF DiskIndexPoints
  <2> QED BY <1>0, <2>1, <2>4 DEF ReadInv, FramesDisjoint
<1>12. Protected(f)'
  BY <1>0, <1>1, <1>3, <1>4, <1>8, <1>10, <1>11, OpenProtects
<1> QED BY <1>5, <1>12

SyncedInv ==
  /\ RestartInv /\ stops \in Nat
  /\ stops = 0 => SyncInv /\ FinishInv /\ DiskIndexPoints /\ synced = {}
  /\ opened /\ stops <= 1 =>
       \A f \in synced : Protected(f) /\ (f.index # 0 => f.data # 0)

LEMMA NextSynced ==
  ASSUME SyncedInv, OneSyncer, [RestartNext]_allVars
  PROVE  SyncedInv'
<1>0. /\ RestartInv /\ StateOK /\ IsBuffer(disk.buffer) /\ stops \in Nat
      /\ RestartInv' /\ stops' \in Nat /\ StateOK'
  BY NextRestart DEF SyncedInv, RestartInv
<1>1. CASE Run \/ UNCHANGED allVars
  <2>1. [Next]_vars /\ UNCHANGED <<stops, synced, opened>>
    BY <1>1 DEF Run, allVars, restarts, kept
  <2>2. stops = 0 => SyncInv' /\ FinishInv' /\ DiskIndexPoints' /\ synced' = {}
    <3> SUFFICES ASSUME stops = 0 PROVE SyncInv' /\ FinishInv' /\ DiskIndexPoints' /\ synced' = {}
      OBVIOUS
    <3>1. SyncInv /\ FinishInv /\ DiskIndexPoints /\ synced = {} /\ ReadInv
      BY DEF SyncedInv, SyncInv
    <3> QED BY <2>1, <3>1, NextSync, NextFinish, DiskIndexKept
  <2>3. ASSUME opened', stops' <= 1, NEW f \in synced'
        PROVE  Protected(f)' /\ (f.index # 0 => f.data # 0)
    <3>1. Protected(f) /\ (f.index # 0 => f.data # 0)
      BY <2>1, <2>3 DEF SyncedInv
    <3> QED BY <1>0, <2>1, <3>1, ProtectedKept
  <2> QED BY <1>0, <2>1, <2>2, <2>3 DEF SyncedInv
<1>2. CASE WriteBackData \/ WriteBackIndex
  <2>1. UNCHANGED <<w_offset_pair, index, buffer, pc, wr, frames, stops, synced, opened>>
    BY <1>2 DEF WriteBackData, WriteBackIndex, locals, kept
  <2>2. stops = 0 => SyncInv' /\ FinishInv' /\ DiskIndexPoints' /\ synced' = {}
    <3> SUFFICES ASSUME stops = 0 PROVE SyncInv' /\ FinishInv' /\ DiskIndexPoints' /\ synced' = {}
      OBVIOUS
    <3>1. SyncInv /\ FinishInv /\ DiskIndexPoints /\ synced = {} /\ ReadInv
      BY DEF SyncedInv, SyncInv
    <3>2. SyncInv' /\ DiskIndexPoints'
      BY <1>0, <1>2, <3>1, WriteBackSync, DiskIndexKept
    <3>3. LogInv'
      BY <2>1, <3>1, <3>2 DEF FinishInv, LogInv, SyncInv, OwnersDistinct, SizePending
    <3>4. Finished' /\ \A t \in Writers : HeaderStored(t)'
      BY <2>1, <3>1 DEF FinishInv, Finished, Shown, HeaderStored
    <3> QED BY <2>1, <3>1, <3>2, <3>3, <3>4 DEF FinishInv
  <2>3. ASSUME opened', stops' <= 1, NEW f \in synced'
        PROVE  Protected(f)' /\ (f.index # 0 => f.data # 0)
    <3>1. Protected(f) /\ (f.index # 0 => f.data # 0)
      BY <2>1, <2>3 DEF SyncedInv
    <3> QED BY <2>1, <3>1 DEF Protected, Complete, EndOf
  <2> QED BY <1>0, <2>1, <2>2, <2>3 DEF SyncedInv
<1>3. CASE Die
  <2>1. stops' = stops + 1 /\ synced' = synced
    BY <1>3 DEF Die
  <2>2. stops' <= 1 => stops = 0
    BY <1>0, <2>1
  <2>3. stops' # 0
    BY <1>0, <2>1
  <2>4. stops' <= 1 => synced' = {}
    BY <2>1, <2>2 DEF SyncedInv
  <2> QED BY <1>0, <2>3, <2>4 DEF SyncedInv
<1>4. CASE MachineCrash
  <2>1. stops' = stops + 1 /\ synced' = synced \cup {Frame(i) : i \in Synced}
    BY <1>4 DEF MachineCrash
  <2>2. (stops' <= 1 => stops = 0) /\ stops' # 0
    BY <1>0, <2>1
  <2>3. ASSUME opened', stops' <= 1, NEW f \in synced'
        PROVE  Protected(f)' /\ (f.index # 0 => f.data # 0)
    <3>1. SyncInv /\ FinishInv /\ DiskIndexPoints /\ synced = {}
      BY <2>2, <2>3 DEF SyncedInv
    <3>2. PICK i \in Synced : f = Frame(i)
      BY <2>1, <2>3, <3>1
    <3> QED BY <1>0, <1>4, <2>3, <3>1, <3>2, CrashProtects
  <2> QED BY <1>0, <2>2, <2>3 DEF SyncedInv
<1> QED BY <1>1, <1>2, <1>3, <1>4 DEF RestartNext

(* A protected frame whose entry does not look unset is read back. *)
LEMMA ProtectedReadsBack ==
  ASSUME NEW f, Protected(f), f.index # 0 => f.data # 0
  PROVE  ReadsBack(f)
BY DEF Protected, ReadsBack, EntryUnset, Complete

(* With one syncing thread and any number of producers, what segment_sync  *)
(* has passed is read back after the first crash of the machine, whatever  *)
(* the kernel had written back by itself, and is left alone by all that is *)
(* written and synced afterwards: except the frames that were being        *)
(* written when a sync passed, and those behind them.                      *)
THEOREM SyncedSurvivesCrash ==
  ASSUME OneSyncer
  PROVE  RestartSpec => [](stops <= 1 => SyncedSurvive)
<1>1. RestartInit => SyncedInv
  <2> SUFFICES ASSUME RestartInit PROVE SyncedInv
    OBVIOUS
  <2>1. Init /\ synced = {} /\ stops = 0 /\ RestartInv
    BY InitRestart DEF RestartInit
  <2>2. SyncInv /\ LogInv
    BY <2>1, InitSync, InitLog
  <2>3. DOMAIN frames = {} /\ (\A i \in Entry : disk.index[i] = 0) /\ \A t \in Writers : pc[t] = "idle"
    BY <2>1 DEF Init, Threads
  <2>4. Finished /\ DiskIndexPoints /\ \A t \in Writers : HeaderStored(t)
    BY <2>3 DEF Finished, DiskIndexPoints, HeaderStored
  <2> QED BY <2>1, <2>2, <2>4 DEF SyncedInv, FinishInv
<1>2. SyncedInv /\ [RestartNext]_allVars => SyncedInv'
  BY NextSynced
<1>3. SyncedInv => (stops <= 1 => SyncedSurvive)
  BY ProtectedReadsBack DEF SyncedInv, SyncedSurvive
<1> QED BY <1>1, <1>2, <1>3, PTL DEF RestartSpec

-----------------------------------------------------------------------------
(* AckedSurvive, with one producer.  In both lives the producer's frame is *)
(* the last one and every acknowledged frame is protected from it.  In the *)
(* first life there is no gap either, so recovery passes all of them.      *)

WriteProgress(t) ==
  /\ pc[t] \in Writing =>
       /\ w_offset_pair = Claimed(wr[t].curr, wr[t].buf)
       /\ wr[t].curr.index \in DOMAIN frames
       /\ frames[wr[t].curr.index].data = wr[t].curr.data
       /\ frames[wr[t].curr.index].payload = wr[t].buf
       /\ wr[t].curr.index > 1 => wr[t].curr.data > 0
  /\ pc[t] \in Writing \ {"copy"} => HeaderAt(buffer, wr[t].curr.data).payload = wr[t].buf
  /\ HeaderStored(t)

(* Only entries 0 and 1 can begin at byte 0. *)
AckedKept ==
  /\ \A f \in acked : Protected(f) /\ (f.index > 1 => f.data > 0)
  /\ \A t \in Writers : WriteProgress(t)
  /\ w_offset_pair.index > 1 => w_offset_pair.data > 0

AckedFrames ==
  /\ \A f \in acked : f.index \in DOMAIN frames /\ f = Frame(f.index)
  /\ \A i \in DOMAIN frames :
       \/ \E f \in acked : f.index = i
       \/ \E t \in Writers : pc[t] \in Writing /\ wr[t].curr.index = i

Acknowledged == {Frame(wr[t].curr.index) :
                   t \in {u \in Writers : pc[u] = "index" /\ pc'[u] = "idle"}}

(* The producer's progress. *)
LEMMA ProgressKept ==
  ASSUME StateOK, NEW t \in Writers, WriteProgress(t),
         w_offset_pair.index > 1 => w_offset_pair.data > 0,
         WriterStep(t) \/ \E p \in Payloads : segment_write(t, p)
  PROVE  WriteProgress(t)' /\ (w_offset_pair'.index > 1 => w_offset_pair'.data > 0)
<1> DEFINE off == wr[t].curr.data
<1>0. /\ t \in Threads /\ pc \in [Threads -> WriterLabels \cup ReaderLabels \cup SyncerLabels]
      /\ wr \in [Writers -> WriterState] /\ off \in Nat /\ IsBuffer(buffer)
      /\ (pc[t] # "idle" => wr[t].buf \in Payloads)
      /\ w_offset_pair.data \in Nat /\ w_offset_pair.index \in Nat
  BY OwnOffset, PairTypes DEF StateOK, ThreadsTypeOK, Threads
<1>1. HeaderStored(t)'
  BY HeaderStoredOwn DEF WriteProgress
<1>2. CASE Crashes
  BY <1>1, <1>2 DEF Crashes, shared, locals, WriteProgress
<1>3. CASE ClaimFrame(t)
  <2>1. /\ pc'[t] = "copy" /\ wr' = wr /\ pc[t] # "idle" /\ w_offset_pair = wr[t].curr
        /\ w_offset_pair' = Claimed(wr[t].curr, wr[t].buf)
        /\ frames' = [i \in DOMAIN frames \cup {wr[t].curr.index} |->
                        IF i = wr[t].curr.index THEN [data |-> wr[t].curr.data, payload |-> wr[t].buf]
                        ELSE frames[i]]
    BY <1>0, <1>3 DEF ClaimFrame, claim, Goto, At, locals
  <2>2. w_offset_pair'.data > 0
    <3>1. FrameSize(wr[t].buf) \in Nat /\ FrameSize(wr[t].buf) > 0
      BY <1>0, <2>1, FrameSizeType
    <3> QED BY <1>0, <2>1, <3>1 DEF Claimed
  <2> QED BY <1>1, <2>1, <2>2 DEF WriteProgress
<1>4. CASE mark_eos(t)
  <2>1. pc'[t] = "eos_header" /\ w_offset_pair'.data = w_offset_pair.data + HeaderSize
    BY <1>0, <1>4 DEF mark_eos, claim, Goto
  <2> QED BY <1>0, <1>1, <2>1 DEF WriteProgress, Writing
<1>5. CASE \/ \E p \in Payloads : segment_write(t, p)
           \/ marked_eos(t) \/ CheckEosFlags(t) \/ ReadWriteOffset(t) \/ ClaimLost(t)
           \/ ~ Crashes /\ (StoreIndexEntry(t) \/ InitEosHeader(t) \/ StoreEosFlags(t))
  <2>1. pc'[t] \notin Writing
    BY <1>0, <1>5 DEF segment_write, marked_eos, CheckEosFlags, ReadWriteOffset, ClaimLost,
                      StoreIndexEntry, InitEosHeader, StoreEosFlags, WriteReturns, Goto, Writing
  <2>2. w_offset_pair' = w_offset_pair
    BY <1>5 DEF segment_write, marked_eos, CheckEosFlags, ReadWriteOffset, ClaimLost,
                StoreIndexEntry, InitEosHeader, StoreEosFlags, shared
  <2> QED BY <1>1, <2>1, <2>2 DEF WriteProgress
<1>6. CASE ~ Crashes /\ (CopyToBuffer(t) \/ InitHeader(t)
                         \/ \E field \in {"size", "flags"} : StoreHeaderField(t, field))
  <2>1. /\ pc[t] \in Writing /\ pc[t] # "idle" /\ UNCHANGED <<w_offset_pair, frames>>
        /\ wr'[t].curr = wr[t].curr /\ wr'[t].buf = wr[t].buf
    BY <1>0, <1>6 DEF CopyToBuffer, InitHeader, StoreHeaderField, HeaderFields, At, Writing,
                      WriterState, locals
  <2>2. HeaderAt(buffer', off).payload = wr[t].buf
    <3>1. pc[t] # "copy" => HeaderAt(buffer, off).payload = wr[t].buf
      BY <2>1 DEF WriteProgress
    <3>2. CASE CopyToBuffer(t)
      <4>1. buffer' = CopyPayload(buffer, off, wr[t].buf)
        BY <1>6, <3>2 DEF CopyToBuffer
      <4> QED BY <1>0, <2>1, <4>1, CopyPayloadFacts
    <3>3. ASSUME InitHeader(t) \/ StoreHeaderField(t, "flags") PROVE HeaderAt(buffer', off).payload = wr[t].buf
      <4>1. PICK flags \in HeaderFlags : buffer' = StoreFlags(buffer, off, flags)
        BY <3>3 DEF InitHeader, StoreHeaderField, header_init, HeaderFlags
      <4>2. pc[t] # "copy"
        BY <3>3 DEF InitHeader, StoreHeaderField, At
      <4> QED BY <1>0, <3>1, <4>1, <4>2, StoreFlagsFacts
    <3>4. ASSUME StoreHeaderField(t, "size") PROVE HeaderAt(buffer', off).payload = wr[t].buf
      <4>1. buffer' = StoreSize(buffer, off, FrameSize(wr[t].buf)) /\ pc[t] # "copy"
        BY <3>4 DEF StoreHeaderField, At
      <4>2. FrameSize(wr[t].buf) \in Nat
        BY <1>0, <2>1, FrameSizeType
      <4> QED BY <1>0, <3>1, <4>1, <4>2, StoreSizeFacts
    <3> QED BY <1>6, <3>2, <3>3, <3>4
  <2> QED BY <1>1, <2>1, <2>2 DEF WriteProgress
<1> QED BY <1>2, <1>3, <1>4, <1>5, <1>6 DEF WriterStep

(* What is acknowledged is protected from then on. *)
LEMMA AckedNow ==
  ASSUME StateOK, StateOK', OneProducer, NEW t \in Writers, WriteProgress(t),
         WriterStep(t) \/ \E p \in Payloads : segment_write(t, p),
         pc[t] = "index", pc'[t] = "idle", NEW f, f = Frame(wr[t].curr.index)
  PROVE  Protected(f)' /\ (f.index > 1 => f.data > 0)
<1>1. StoreIndexEntry(t) /\ ~ Crashes
  <2>1. pc[t] \in Writing /\ pc'[t] \notin Writing
    BY DEF Writing
  <2> QED BY <2>1, InFlightNext
<1>2. /\ wr[t].curr.index \in Entry /\ UNCHANGED <<w_offset_pair, buffer>>
      /\ index' = [index EXCEPT ![wr[t].curr.index] = wr[t].curr.data]
  BY <1>1 DEF StoreIndexEntry
<1>3. /\ wr[t].curr.data \in Nat /\ wr[t].curr.index \in Nat /\ wr[t].buf \in Payloads
      /\ FrameSize(wr[t].buf) \in Nat /\ index \in [Entry -> Nat] /\ IsBuffer(buffer)
  BY OwnOffset, FrameSizeType DEF StateOK, MapsTypeOK
<1>4. /\ w_offset_pair = Claimed(wr[t].curr, wr[t].buf)
      /\ frames[wr[t].curr.index].data = wr[t].curr.data
      /\ frames[wr[t].curr.index].payload = wr[t].buf
      /\ wr[t].curr.index > 1 => wr[t].curr.data > 0
      /\ HeaderAt(buffer, wr[t].curr.data).payload = wr[t].buf
      /\ HeaderAt(buffer, wr[t].curr.data).size = FrameSize(wr[t].buf)
      /\ HeaderAt(buffer, wr[t].curr.data).flags = "READY"
  BY DEF WriteProgress, HeaderStored, Writing
<1>5. f.index = wr[t].curr.index /\ f.data = wr[t].curr.data /\ f.payload = wr[t].buf
  BY <1>4 DEF Frame
<1>6. f.index < w_offset_pair'.index /\ EndOf(f) <= w_offset_pair'.data
  BY <1>2, <1>3, <1>4, <1>5 DEF Claimed, EndOf
<1>7. Complete(buffer', index', f)
  <2>1. PICK hdr \in Header : hdr = HeaderAt(buffer, wr[t].curr.data)
    BY <1>3, HeaderAtType
  <2>2. hdr = [flags |-> "READY", size |-> FrameSize(f.payload), payload |-> f.payload]
    BY <1>4, <1>5, <2>1 DEF Header
  <2>3. index'[f.index] = f.data
    BY <1>2, <1>3, <1>5
  <2> QED BY <1>2, <1>5, <2>1, <2>2, <2>3 DEF Complete
<1>8. \A u \in Writers : pc'[u] = "idle"
  BY DEF OneProducer
<1> QED BY <1>2, <1>3, <1>4, <1>5, <1>6, <1>7, <1>8 DEF Protected, EndOf, Writing, EosLabels

LEMMA RunAcked ==
  ASSUME StateOK, StateOK', OneProducer, AckedKept, [Next]_vars,
         acked' = acked \cup Acknowledged
  PROVE  AckedKept'
<1>1. ASSUME NEW t \in Writers, WriterStep(t) \/ \E p \in Payloads : segment_write(t, p)
      PROVE  AckedKept'
  <2>1. WriteProgress(t)' /\ (w_offset_pair'.index > 1 => w_offset_pair'.data > 0)
    BY <1>1, ProgressKept DEF AckedKept
  <2>2. \A u \in Writers : WriteProgress(u)'
    BY <2>1 DEF OneProducer
  <2>3. ASSUME NEW f \in acked' PROVE Protected(f)' /\ (f.index > 1 => f.data > 0)
    <3>1. CASE f \in acked
      BY <3>1, ProtectedKept DEF AckedKept
    <3>2. CASE f \in Acknowledged
      <4>1. PICK u \in Writers : pc[u] = "index" /\ pc'[u] = "idle" /\ f = Frame(wr[u].curr.index)
        BY <3>2 DEF Acknowledged
      <4>2. u = t
        BY DEF OneProducer
      <4> QED BY <1>1, <4>1, <4>2, AckedNow DEF AckedKept
    <3> QED BY <3>1, <3>2
  <2> QED BY <2>1, <2>2, <2>3 DEF AckedKept
<1>2. CASE \/ UNCHANGED vars
           \/ \E t \in Readers : ReaderStep(t) \/ \E rel \in 0 .. MaxWrites - 1 : segment_read(t, rel)
           \/ \E t \in Syncers : SyncerStep(t) \/ segment_sync(t)
  <2>1. /\ UNCHANGED <<w_offset_pair, buffer, index, wr, frames>>
        /\ \A u \in Writers : pc'[u] = pc[u]
    BY <1>2, OthersOwn
  <2>2. acked' = acked
    BY <2>1 DEF Acknowledged
  <2>3. \A t \in Writers : WriteProgress(t)'
    BY <2>1 DEF AckedKept, WriteProgress, HeaderStored
  <2>4. \A f \in acked : Protected(f)'
    BY ProtectedKept DEF AckedKept
  <2> QED BY <2>1, <2>2, <2>3, <2>4 DEF AckedKept
<1> QED BY <1>1, <1>2 DEF Next

(* In the first life there is no gap. *)
LEMMA RunAckedFrames ==
  ASSUME ReadInv, AckedKept, AckedFrames, [Next]_vars, acked' = acked \cup Acknowledged
  PROVE  AckedFrames'
<1>0. StateOK /\ TypeOK
  BY DEF ReadInv, TypeOK, StateOK
<1>1. ASSUME NEW t \in Writers, WriterStep(t) \/ \E p \in Payloads : segment_write(t, p)
      PROVE  AckedFrames'
  <2>1. DOMAIN frames \subseteq DOMAIN frames' /\ \A i \in DOMAIN frames : frames'[i] = frames[i]
    BY <1>1, WriterShape
  <2>2. \A u \in Writers : u # t => pc'[u] = pc[u] /\ wr'[u] = wr[u]
    BY <1>0, <1>1, WriterOwn
  <2>3. ASSUME NEW f \in acked' PROVE f.index \in DOMAIN frames' /\ f = Frame(f.index)'
    <3>1. f.index \in DOMAIN frames /\ f = Frame(f.index)
      <4>1. CASE f \in acked
        BY <4>1 DEF AckedFrames
      <4>2. CASE f \in Acknowledged
        <5>1. PICK u \in Writers : pc[u] = "index" /\ f = Frame(wr[u].curr.index)
          BY <4>2 DEF Acknowledged
        <5>2. wr[u].curr.index \in DOMAIN frames
          BY <5>1 DEF AckedKept, WriteProgress, Writing
        <5> QED BY <5>1, <5>2 DEF Frame
      <4> QED BY <4>1, <4>2
    <3>2. PICK i : i = f.index
      OBVIOUS
    <3> QED BY <2>1, <3>1 DEF Frame
  <2>4. ASSUME NEW i \in DOMAIN frames'
        PROVE  \/ \E f \in acked' : f.index = i
               \/ \E u \in Writers : pc'[u] \in Writing /\ wr'[u].curr.index = i
    <3>1. CASE i \notin DOMAIN frames
      <4>1. ClaimFrame(t)
        BY <1>1, <2>4, <3>1 DEF WriterStep, segment_write, marked_eos, CheckEosFlags, ReadWriteOffset,
             ClaimLost, CopyToBuffer, InitHeader, StoreHeaderField, StoreIndexEntry, mark_eos,
             InitEosHeader, StoreEosFlags, Crashes
      <4>2. /\ DOMAIN frames' = DOMAIN frames \cup {wr[t].curr.index}
            /\ Goto(t, "copy") /\ wr' = wr
        BY <4>1 DEF ClaimFrame, locals
      <4>3. i = wr[t].curr.index /\ pc'[t] = "copy"
        BY <1>0, <2>4, <3>1, <4>2 DEF Goto, StateOK, ThreadsTypeOK, Threads
      <4> QED BY <4>2, <4>3 DEF Writing
    <3>2. CASE \E f \in acked : f.index = i
      BY <3>2
    <3>3. ASSUME NEW u \in Writers, pc[u] \in Writing, wr[u].curr.index = i
          PROVE  \/ \E f \in acked' : f.index = i
                 \/ \E v \in Writers : pc'[v] \in Writing /\ wr'[v].curr.index = i
      <4>1. CASE u # t
        BY <2>2, <3>3, <4>1
      <4>2. CASE u = t /\ pc'[t] \in Writing /\ wr'[t].curr = wr[t].curr
        BY <3>3, <4>2
      <4>3. CASE u = t /\ StoreIndexEntry(t) /\ ~ Crashes
        <5>1. pc[u] = "index" /\ pc'[u] = "idle"
          BY <1>0, <4>3 DEF StoreIndexEntry, WriteReturns, Goto, At, StateOK, ThreadsTypeOK, Threads
        <5>2. Frame(wr[u].curr.index) \in acked'
          BY <5>1 DEF Acknowledged
        <5>3. Frame(wr[u].curr.index).index = i
          BY <3>3 DEF Frame
        <5> QED BY <5>2, <5>3
      <4> QED BY <1>0, <1>1, <3>3, <4>1, <4>2, <4>3, InFlightNext
    <3> QED BY <3>1, <3>2, <3>3 DEF AckedFrames
  <2> QED BY <2>3, <2>4 DEF AckedFrames
<1>2. CASE \/ UNCHANGED vars
           \/ \E t \in Readers : ReaderStep(t) \/ \E rel \in 0 .. MaxWrites - 1 : segment_read(t, rel)
           \/ \E t \in Syncers : SyncerStep(t) \/ segment_sync(t)
  <2>1. /\ UNCHANGED <<wr, frames>> /\ \A u \in Writers : pc'[u] = pc[u]
    BY <1>0, <1>2, OthersOwn
  <2>2. acked' = acked
    BY <2>1 DEF Acknowledged
  <2> QED BY <2>1, <2>2 DEF AckedFrames, Frame
<1> QED BY <1>1, <1>2 DEF Next

(* Behind two frames, recovery resumes behind byte 0. *)
LEMMA OpenedBehind ==
  ASSUME NEW idx, idx \in [Entry -> Nat], NEW buf, IsBuffer(buf), opened',
         segment_open(idx, buf, disk)
  PROVE  w_offset_pair'.index > 1 => w_offset_pair'.data > 0
<1>1. PICK found : found = find_w_offset_pair(buf, idx, Size)
  OBVIOUS
<1>2. found.rc = 0 /\ w_offset_pair' = found.pair
  BY <1>1 DEF segment_open
<1>3. PICK m : m = found.pair.index
  OBVIOUS
<1>4. /\ m \in 0 .. max_index_entries(Size) - 1
      /\ \A j \in 0 .. m - 1 : j \notin FreeEntries(buf, idx, Size)
      /\ m # 0 => /\ m - 1 \in Entry
                  /\ found.pair.data = idx[m - 1] + HeaderAt(buf, idx[m - 1]).size
  BY <1>1, <1>2, <1>3, FoundAt
<1> SUFFICES ASSUME m > 1 PROVE found.pair.data > 0
  BY <1>2, <1>3
<1>5. PICK k : k = m - 1
  OBVIOUS
<1>6. /\ k \in 0 .. m - 1 /\ k \in 0 .. max_index_entries(Size) - 1 /\ k # 0 /\ k \in Entry
      /\ found.pair.data = idx[k] + HeaderAt(buf, idx[k]).size
  BY <1>4, <1>5, MappedCovers
<1>7. idx[k] # 0 /\ idx[k] \in Nat /\ HeaderAt(buf, idx[k]).size \in Nat
  BY <1>4, <1>6, NotFree, HeaderAtType DEF Header
<1> QED BY <1>6, <1>7

(* What a dead process has stored, segment_open finds: no entry before an *)
(* acknowledged frame's looks unused.                                     *)
LEMMA DieProtects ==
  ASSUME ReadInv, AckedKept, AckedFrames, StateOK', opened', NEW tail \in BOOLEAN, NEW idx,
         idx = [i \in Entry |-> IF InIndexFile(i) \/ tail THEN index[i] ELSE 0],
         segment_open(idx, buffer, disk), NEW f \in acked
  PROVE  Protected(f)'
<1>0. /\ TypeOK /\ index \in [Entry -> Nat] /\ idx \in [Entry -> Nat] /\ IsBuffer(buffer)
      /\ max_index_entries(Size) \in Nat /\ MappedEntries(Size) \in Nat
      /\ max_index_entries(Size) <= MappedEntries(Size)
      /\ \A i \in 0 .. max_index_entries(Size) - 1 : i \in Entry /\ idx[i] = index[i]
  <2>1. TypeOK /\ index \in [Entry -> Nat] /\ IsBuffer(buffer)
    BY DEF ReadInv, TypeOK, MapsTypeOK
  <2>2. /\ max_index_entries(Size) \in Nat /\ MappedEntries(Size) \in Nat
        /\ max_index_entries(Size) <= MappedEntries(Size)
    BY MappedCovers
  <2>3. idx \in [Entry -> Nat]
    BY <2>1
  <2>4. \A i \in 0 .. max_index_entries(Size) - 1 : i \in Entry
    BY <2>2 DEF Entry
  <2>5. \A i \in 0 .. max_index_entries(Size) - 1 : InIndexFile(i)
    BY <2>2 DEF InIndexFile
  <2>6. \A i \in 0 .. max_index_entries(Size) - 1 : idx[i] = index[i]
    BY <2>4, <2>5
  <2> QED BY <2>1, <2>2, <2>3, <2>4, <2>6
<1>1. /\ f.index \in DOMAIN frames /\ f.index \in Nat /\ f.index \in Entry
      /\ f.data = frames[f.index].data /\ f.payload = frames[f.index].payload
      /\ f.data \in Nat /\ f.payload \in Payloads /\ EndOf(f) = FrameEnd(f.index)
      /\ Complete(buffer, index, f)
  <2>1. f.index \in DOMAIN frames /\ f = Frame(f.index)
    BY DEF AckedFrames
  <2>2. f.data = frames[f.index].data /\ f.payload = frames[f.index].payload
    BY <2>1 DEF Frame
  <2>3. Protected(f)
    BY DEF AckedKept
  <2>4. f.index \in Nat
    BY <2>3 DEF Protected, Entry
  <2> QED BY <2>1, <2>2, <2>3, <2>4 DEF Protected, EndOf, FrameEnd
<1>2. PICK found : found = find_w_offset_pair(buffer, idx, Size)
  OBVIOUS
<1>3. found.rc = 0 /\ w_offset_pair' = found.pair
  BY <1>2 DEF segment_open
<1>4. PICK m : m = w_offset_pair'.index
  OBVIOUS
<1>5. /\ m \in FreeEntries(buffer, idx, Size) /\ m \in 0 .. max_index_entries(Size) - 1
      /\ \A j \in 0 .. m - 1 : j \notin FreeEntries(buffer, idx, Size)
  BY <1>0, <1>2, <1>3, <1>4, FoundAt
<1>6. f.index < m
  <2> SUFFICES ASSUME m <= f.index PROVE FALSE
    BY <1>0, <1>1, <1>5
  <2>1. m \in DOMAIN frames
    <3>1. w_offset_pair.index \in Nat /\ DOMAIN frames = 0 .. w_offset_pair.index - 1
      BY <1>0 DEF TypeOK, FramesTypeOK, OffsetsTypeOK, Pair
    <3> QED BY <1>0, <1>1, <1>5, <3>1
  <2>2. CASE \E t \in Writers : pc[t] \in Writing /\ wr[t].curr.index = m
    <3>1. PICK t \in Writers : pc[t] \in Writing /\ wr[t].curr.index = m
      BY <2>2
    <3>2. f.index < m
      BY <3>1 DEF AckedKept, Protected
    <3> QED BY <1>0, <1>1, <1>5, <3>2
  <2>3. CASE \E g \in acked : g.index = m
    <3>1. PICK g \in acked : g.index = m
      BY <2>3
    <3>2. Complete(buffer, index, g) /\ g = Frame(m)
      BY <3>1 DEF AckedKept, Protected, AckedFrames
    <3>3. index[m] = frames[m].data /\ HeaderAt(buffer, frames[m].data).flags = "READY"
      BY <3>2 DEF Complete, Frame
    <3>4. index[m] = 0 /\ ~ (m = 0 /\ prot_is_header(HeaderAt(buffer, 0)))
      BY <1>0, <1>5 DEF FreeEntries
    <3>5. m = 0
      BY <1>0, <2>1, <3>3, <3>4, FirstFrame DEF ReadInv
    <3> QED BY <3>3, <3>4, <3>5 DEF prot_is_header
  <2> QED BY <2>1, <2>2, <2>3 DEF AckedFrames
<1>7. f.index # m - 1 => EndOf(f) <= idx[m - 1]
  <2> SUFFICES ASSUME f.index # m - 1 PROVE FrameEnd(f.index) <= idx[m - 1]
    BY <1>1
  <2>1. PICK k : k = m - 1
    OBVIOUS
  <2>2. k \in 0 .. m - 1 /\ k # 0 /\ f.index < k /\ k \in 0 .. max_index_entries(Size) - 1
    BY <1>0, <1>1, <1>5, <1>6, <2>1
  <2>3. k \in Entry /\ idx[k] = index[k] /\ idx[k] # 0
    BY <1>0, <1>5, <2>2, NotFree
  <2>4. k \in DOMAIN frames /\ idx[k] = frames[k].data
    BY <2>3 DEF ReadInv, IndexPointsToFrame
  <2> QED BY <1>1, <2>1, <2>2, <2>4 DEF ReadInv, FramesDisjoint
<1>8. Complete(buffer, idx, f)
  <2>1. f.index \in 0 .. max_index_entries(Size) - 1
    BY <1>0, <1>1, <1>5, <1>6
  <2>2. idx[f.index] = index[f.index]
    BY <1>0, <2>1
  <2> QED BY <1>1, <2>2 DEF Complete
<1> QED BY <1>0, <1>1, <1>4, <1>6, <1>7, <1>8, OpenProtects

AckedInv ==
  /\ StateOK /\ IsBuffer(disk.buffer) /\ stops \in Nat
  /\ stops = 0 => opened /\ ReadInv /\ AckedFrames
  /\ opened /\ stops <= 1 => AckedKept

LEMMA OpenAcked ==
  ASSUME NEW idx, idx \in [Entry -> Nat], NEW buf, IsBuffer(buf), opened',
         segment_open(idx, buf, disk),
         \A f \in acked' : Protected(f)' /\ (f.index > 1 => f.data > 0)
  PROVE  AckedKept'
<1>1. \A t \in Writers : pc'[t] = "idle"
  BY DEF segment_open, Threads
<1>2. \A t \in Writers : WriteProgress(t)'
  BY <1>1 DEF WriteProgress, HeaderStored, Writing
<1> QED BY <1>2, OpenedBehind DEF AckedKept

LEMMA NextAcked ==
  ASSUME AckedInv, OneProducer, [RestartNext]_allVars
  PROVE  AckedInv'
<1>0. /\ StateOK /\ IsBuffer(disk.buffer) /\ stops \in Nat /\ StateOK' /\ IsBuffer(disk'.buffer)
      /\ IsBuffer(buffer) /\ index \in [Entry -> Nat] /\ disk.index \in [Entry -> Nat]
  BY NextGround DEF AckedInv, StateOK, MapsTypeOK, DiskTypeOK
<1>1. CASE Run \/ UNCHANGED allVars
  <2>1. [Next]_vars /\ UNCHANGED <<stops, opened>>
    BY <1>1 DEF Run, allVars, restarts, kept
  <2>2. acked' = acked \cup Acknowledged
    <3>1. CASE Run
      BY <3>1 DEF Run, Acknowledged
    <3>2. CASE UNCHANGED allVars
      <4>1. acked' = acked /\ pc' = pc
        BY <3>2 DEF allVars, vars, restarts
      <4> QED BY <4>1 DEF Acknowledged
    <3> QED BY <1>1, <3>1, <3>2
  <2>3. opened' /\ stops' <= 1 => AckedKept'
    BY <1>0, <2>1, <2>2, RunAcked DEF AckedInv
  <2>4. ASSUME stops' = 0 PROVE opened' /\ ReadInv' /\ AckedFrames'
    <3>1. opened /\ ReadInv /\ AckedFrames /\ AckedKept
      BY <2>1, <2>4 DEF AckedInv
    <3> QED BY <2>1, <2>2, <3>1, NextReadInv, RunAckedFrames
  <2> QED BY <1>0, <2>1, <2>3, <2>4 DEF AckedInv
<1>2. CASE WriteBackData \/ WriteBackIndex
  <2>1. UNCHANGED <<w_offset_pair, s_offset_pair, index, buffer, pc, wr, rd, sy, frames, stops, opened, acked>>
    BY <1>2 DEF WriteBackData, WriteBackIndex, locals, kept
  <2>2. opened' /\ stops' <= 1 => AckedKept'
    BY <2>1 DEF AckedInv, AckedKept, Protected, Complete, EndOf, WriteProgress, HeaderStored
  <2>3. ASSUME stops' = 0 PROVE opened' /\ ReadInv' /\ AckedFrames'
    <3>1. opened /\ ReadInv /\ AckedFrames
      BY <2>1, <2>3 DEF AckedInv
    <3>2. AckedFrames'
      BY <2>1, <3>1 DEF AckedFrames, Frame
    <3> QED BY <1>0, <1>2, <2>1, <3>1, <3>2, WriteBackRead
  <2> QED BY <1>0, <2>1, <2>2, <2>3 DEF AckedInv
<1>3. CASE Die
  <2>1. stops' = stops + 1 /\ acked' = acked
    BY <1>3 DEF Die
  <2>2. stops' \in Nat /\ stops' # 0 /\ (stops' <= 1 => stops = 0)
    BY <1>0, <2>1
  <2>3. PICK tail \in BOOLEAN :
          segment_open([i \in Entry |-> IF InIndexFile(i) \/ tail THEN index[i] ELSE 0], buffer, disk)
    BY <1>3 DEF Die
  <2>4. PICK idx : idx = [i \in Entry |-> IF InIndexFile(i) \/ tail THEN index[i] ELSE 0]
    OBVIOUS
  <2>5. idx \in [Entry -> Nat] /\ segment_open(idx, buffer, disk)
    BY <1>0, <2>3, <2>4
  <2>6. ASSUME opened', stops' <= 1 PROVE AckedKept'
    <3>1. ReadInv /\ AckedFrames /\ AckedKept
      BY <1>0, <2>2, <2>6 DEF AckedInv
    <3>2. ASSUME NEW f \in acked' PROVE Protected(f)' /\ (f.index > 1 => f.data > 0)
      <4>1. f \in acked /\ (f.index > 1 => f.data > 0)
        BY <2>1, <3>1, <3>2 DEF AckedKept
      <4> QED BY <1>0, <2>4, <2>5, <2>6, <3>1, <4>1, DieProtects
    <3> QED BY <1>0, <2>5, <2>6, <3>2, OpenAcked
  <2> QED BY <1>0, <2>2, <2>6 DEF AckedInv
<1>4. CASE MachineCrash
  <2>1. stops' = stops + 1 /\ acked' = {} /\ segment_open(disk.index, disk.buffer, disk)
    BY <1>4 DEF MachineCrash
  <2>2. stops' \in Nat /\ stops' # 0
    BY <1>0, <2>1
  <2>3. PICK idx, buf : idx = disk.index /\ buf = disk.buffer
    OBVIOUS
  <2>4. opened' => AckedKept'
    BY <1>0, <2>1, <2>3, OpenAcked
  <2> QED BY <1>0, <2>2, <2>4 DEF AckedInv
<1> QED BY <1>1, <1>2, <1>3, <1>4 DEF RestartNext

(* With one producer, and whatever readers, syncers and the kernel do,     *)
(* every frame whose segment_write has returned is read back at its offset *)
(* after the process has died at any point and the segment is opened       *)
(* again, and what is then written leaves it alone: but for a frame that   *)
(* was put at entry 1 and byte 0, which reads as an entry not set.         *)
THEOREM AckedSurvivesDeath ==
  ASSUME OneProducer
  PROVE  RestartSpec => [](stops <= 1 => AckedSurvive)
<1>1. RestartInit => AckedInv
  <2> SUFFICES ASSUME RestartInit PROVE AckedInv
    OBVIOUS
  <2>1. Init /\ acked = {} /\ stops = 0 /\ opened /\ RestartInv
    BY InitRestart DEF RestartInit
  <2>2. ReadInv
    BY <2>1, InitReadInv
  <2>3. /\ DOMAIN frames = {} /\ w_offset_pair.index = 0 /\ \A t \in Writers : pc[t] = "idle"
    BY <2>1 DEF Init, Threads
  <2>4. AckedFrames
    BY <2>1, <2>3 DEF AckedFrames
  <2>5. AckedKept
    BY <2>1, <2>3 DEF AckedKept, WriteProgress, HeaderStored, Writing
  <2> QED BY <2>1, <2>2, <2>4, <2>5 DEF AckedInv, RestartInv
<1>2. AckedInv /\ [RestartNext]_allVars => AckedInv'
  BY NextAcked
<1>3. AckedInv => (stops <= 1 => AckedSurvive)
  <2> SUFFICES ASSUME AckedInv, stops <= 1, opened, NEW f \in acked
               PROVE  ReadsBack(f) \/ (f.index = 1 /\ f.data = 0)
    BY DEF AckedSurvive
  <2>1. Protected(f) /\ (f.index > 1 => f.data > 0)
    BY DEF AckedInv, AckedKept
  <2>2. f.index \in Nat /\ f.data \in Nat
    BY <2>1 DEF Protected, Entry
  <2>3. (f.index # 0 => f.data # 0) \/ (f.index = 1 /\ f.data = 0)
    BY <2>1, <2>2
  <2> QED BY <2>1, <2>3, ProtectedReadsBack
<1> QED BY <1>1, <1>2, <1>3, PTL DEF RestartSpec
=============================================================================
