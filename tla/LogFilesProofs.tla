--------------------------- MODULE LogFilesProofs ---------------------------
(***************************************************************************)
(* TypeOK, HeldAccountedFor, ClosedHoldsNothing and FoundAgain of LogFiles *)
(* for any number of segments, descriptors and calls, any lengths of names *)
(* and any system calls that fail.                                         *)
(***************************************************************************)
EXTENDS LogFiles, FiniteSetTheorems, TLAPS

(* What segment_open holds at a label, beside the segments that are open. *)
TakenFds(label) == IF label \in {"size_index", "map_index", "open_data"} THEN 1
                   ELSE IF label \in {"size_data", "map_data", "find"} THEN 2 ELSE 0
TakenMaps(label) == IF label \in {"open_data", "size_data", "map_data"} THEN 1
                    ELSE IF label = "find" THEN 2 ELSE 0

Streams == IF phase = "loading" THEN 1 ELSE 0

(* segment_open is running or has just succeeded. *)
InOpen == pc \notin {"idle", "close"}

StateTypes ==
  /\ files \in [Base -> [Kind -> {"none", "empty", "sized"}]]
  /\ handles \in [Base -> Nat] /\ tree \in Seq(Base) /\ todo \in Seq(Base)
  /\ phase \in {"closed", "loading", "open"} /\ pc \in Labels /\ cur \in Base /\ rc \in Int
  /\ opens \in Nat /\ failed \in Nat /\ opens <= MaxOpens /\ failed + Streams <= opens
  /\ blind \in BOOLEAN /\ indexed \subseteq Base /\ causes \subseteq {"msync", "first", "floor"}
  /\ pc = "close" => phase = "loading"
  /\ phase = "closed" => pc = "idle" /\ tree = <<>>

(* Each segment is opened once, and is not in the index until it is open. *)
EachOnce ==
  /\ \A i, j \in DOMAIN tree : i < j => tree[i] < tree[j]
  /\ \A i \in DOMAIN tree : handles[tree[i]] > 0
  /\ InOpen => \A i \in DOMAIN tree : tree[i] # cur
  /\ pc = "opened" => handles[cur] > 0
  /\ phase = "loading" =>
       /\ \A i, j \in DOMAIN todo : i # j => todo[i] # todo[j]
       /\ \A i \in DOMAIN todo, j \in DOMAIN tree : todo[i] # tree[j]
       /\ InOpen => \A i \in DOMAIN todo : todo[i] # cur

Accounted ==
  /\ IsFiniteSet(Handles)
  /\ held = [fd  |-> 2 * Live + held.dir + TakenFds(pc),
             map |-> 2 * Live + TakenMaps(pc),
             dir |-> failed + Streams]
  /\ held.fd <= MaxFds

(* As long as every segment_close succeeds and reaches its segment, only  *)
(* the segments of the index are open, once, and the one being added.     *)
NoneLeft ==
  causes = {} => \A b \in Base : handles[b] > 0 =>
                   /\ handles[b] = 1
                   /\ (\E i \in DOMAIN tree : tree[i] = b) \/ (pc = "opened" /\ b = cur)

(* load_segments has indexed every segment it has been shown. *)
AllLoaded ==
  /\ \A b \in indexed : files[b]["data"] # "none"
  /\ pc \in {"size_data", "map_data", "find", "opened"} => files[cur]["data"] # "none"
  /\ phase = "loading" /\ pc # "close" =>
       \A b \in Base : has_suffix(b) =>
         \/ \E i \in DOMAIN tree : tree[i] = b
         \/ \E i \in DOMAIN todo : todo[i] = b
         \/ InOpen /\ b = cur
  /\ phase = "open" /\ ~ blind =>
       \A b \in indexed : (\E i \in DOMAIN tree : tree[i] = b) \/ NameCut(b)

FilesInv == StateTypes /\ EachOnce /\ Accounted /\ NoneLeft /\ AllLoaded

-----------------------------------------------------------------------------
(* Bases, and the set of handles. *)

LEMMA BaseFacts == Base \subseteq Nat /\ 0 \in Base /\ IsFiniteSet(Base)
<1>1. /\ Bases \in Seq(Nat) /\ Bases # <<>> /\ Bases[1] = 0
  BY FilesAssumption
<1>2. Len(Bases) \in Nat /\ DOMAIN Bases = 1 .. Len(Bases) /\ 1 \in DOMAIN Bases
      /\ Bases \in [1 .. Len(Bases) -> Nat]
  BY <1>1
<1>3. Base \subseteq Nat /\ 0 \in Base
  BY <1>1, <1>2 DEF Base, Range
<1>4. Bases \in Surjection(1 .. Len(Bases), Base)
  BY <1>2 DEF Base, Range, Surjection
<1>5. IsFiniteSet(1 .. Len(Bases))
  BY <1>2, FS_Interval
<1> QED BY <1>3, <1>4, <1>5, FS_Surjection

LEMMA HandleElements ==
  \A x : x \in Handles <=> \E b \in Base : \E n \in 1 .. handles[b] : x = <<b, n>>
BY DEF Handles

(* segment_open has succeeded. *)
LEMMA HandlesGrow ==
  ASSUME StateTypes, IsFiniteSet(Handles), handles' = [handles EXCEPT ![cur] = handles[cur] + 1]
  PROVE  IsFiniteSet(Handles)' /\ Live' = Live + 1
<1>0. handles \in [Base -> Nat] /\ cur \in Base
  BY DEF StateTypes
<1>1. PICK x : x = <<cur, handles[cur] + 1>>
  OBVIOUS
<1>2. x \notin Handles
  BY <1>0, <1>1 DEF Handles
<1>3. Handles' = Handles \cup {x}
  <2>1. ASSUME NEW b \in Base, NEW n
        PROVE  n \in 1 .. handles'[b] <=> n \in 1 .. handles[b] \/ (b = cur /\ n = handles[cur] + 1)
    BY <1>0
  <2>2. ASSUME NEW y PROVE y \in Handles' <=> \E b \in Base : \E n \in 1 .. handles'[b] : y = <<b, n>>
    BY DEF Handles
  <2>3. ASSUME NEW y PROVE y \in Handles' <=> y \in Handles \cup {x}
    <3>1. ASSUME y \in Handles' PROVE y \in Handles \cup {x}
      <4>1. PICK b \in Base : \E n \in 1 .. handles'[b] : y = <<b, n>>
        BY <2>2, <3>1
      <4>2. PICK n \in 1 .. handles'[b] : y = <<b, n>>
        BY <4>1
      <4> QED BY <1>1, <2>1, <4>2, HandleElements
    <3>2. ASSUME y \in Handles PROVE y \in Handles'
      <4>1. PICK b \in Base : \E n \in 1 .. handles[b] : y = <<b, n>>
        BY <3>2, HandleElements
      <4>2. PICK n \in 1 .. handles[b] : y = <<b, n>>
        BY <4>1
      <4> QED BY <2>1, <2>2, <4>2
    <3>3. ASSUME y = x PROVE y \in Handles'
      <4>1. handles[cur] + 1 \in 1 .. handles'[cur]
        BY <1>0
      <4> QED BY <1>0, <1>1, <2>2, <3>3, <4>1
    <3> QED BY <3>1, <3>2, <3>3
  <2> QED BY <2>3
<1>4. IsFiniteSet(Handles \cup {x}) /\ Cardinality(Handles \cup {x}) = Cardinality(Handles) + 1
  BY <1>2, FS_AddElement
<1> QED BY <1>3, <1>4 DEF Live

(* segment_close gives back the two descriptors and the two maps of each   *)
(* segment that it could sync, and those are the handles that go.          *)
LEMMA CloseShape ==
  ASSUME StateTypes, IsFiniteSet(Handles), NEW bases \in SUBSET Base, \A b \in bases : handles[b] > 0,
         held.fd \in Int, held.map \in Int, held.dir \in Int, segment_close(bases)
  PROVE  \E closed \in SUBSET bases :
           /\ handles' = [b \in Base |-> IF b \in closed THEN handles[b] - 1 ELSE handles[b]]
           /\ causes' = IF closed = bases THEN causes ELSE causes \cup {"msync"}
           /\ Cardinality(closed) \in Nat /\ Live' = Live - Cardinality(closed)
           /\ held' = [fd |-> held.fd - 2 * Cardinality(closed), map |-> held.map - 2 * Cardinality(closed),
                       dir |-> held.dir]
           /\ IsFiniteSet(Handles')
<1>0. handles \in [Base -> Nat]
  BY DEF StateTypes
<1>1. PICK closed \in SUBSET bases :
        /\ handles' = [b \in Base |-> IF b \in closed THEN handles[b] - 1 ELSE handles[b]]
        /\ Frees(2 * Cardinality(closed), 2 * Cardinality(closed))
        /\ causes' = IF closed = bases THEN causes ELSE causes \cup {"msync"}
  <2>1. (IF MayFail("msync") THEN SUBSET bases ELSE {bases}) \subseteq SUBSET bases
    OBVIOUS
  <2> QED BY <2>1 DEF segment_close
<1>2. IsFiniteSet(closed) /\ Cardinality(closed) \in Nat
  BY BaseFacts, FS_Subset, FS_CardinalityType
<1>3. PICK gone : gone = {<<b, handles[b]>> : b \in closed}
  OBVIOUS
<1>4. IsFiniteSet(gone) /\ Cardinality(gone) = Cardinality(closed)
  <2>1. PICK f : f = [b \in closed |-> <<b, handles[b]>>]
    OBVIOUS
  <2>2. f \in Bijection(closed, gone)
    BY <1>3, <2>1 DEF Bijection, Injection, Surjection, IsInjective
  <2> QED BY <1>2, <2>2, FS_Bijection DEF ExistsBijection
<1>5. gone \subseteq Handles
  <2>1. \A b \in closed : b \in Base /\ handles[b] \in 1 .. handles[b]
    BY <1>0
  <2> QED BY <1>3, <2>1, HandleElements
<1>6. Handles' = Handles \ gone
  <2>1. ASSUME NEW b \in Base, NEW n
        PROVE  n \in 1 .. handles'[b] <=> n \in 1 .. handles[b] /\ ~ (b \in closed /\ n = handles[b])
    <3>1. handles[b] \in Nat /\ (b \in closed => handles[b] > 0)
      BY <1>0
    <3>2. handles'[b] = IF b \in closed THEN handles[b] - 1 ELSE handles[b]
      BY <1>1
    <3> QED BY <3>1, <3>2
  <2>2. ASSUME NEW y PROVE y \in Handles' <=> \E b \in Base : \E n \in 1 .. handles'[b] : y = <<b, n>>
    BY DEF Handles
  <2>3. ASSUME NEW b \in Base, NEW n PROVE <<b, n>> \in gone <=> b \in closed /\ n = handles[b]
    BY <1>3
  <2>4. ASSUME NEW y PROVE y \in Handles' <=> y \in Handles \ gone
    <3>1. ASSUME y \in Handles' PROVE y \in Handles \ gone
      <4>1. PICK b \in Base : \E n \in 1 .. handles'[b] : y = <<b, n>>
        BY <2>2, <3>1
      <4>2. PICK n \in 1 .. handles'[b] : y = <<b, n>>
        BY <4>1
      <4> QED BY <2>1, <2>3, <4>2, HandleElements
    <3>2. ASSUME y \in Handles, y \notin gone PROVE y \in Handles'
      <4>1. PICK b \in Base : \E n \in 1 .. handles[b] : y = <<b, n>>
        BY <3>2, HandleElements
      <4>2. PICK n \in 1 .. handles[b] : y = <<b, n>>
        BY <4>1
      <4> QED BY <2>1, <2>2, <2>3, <3>2, <4>2
    <3> QED BY <3>1, <3>2
  <2> QED BY <2>4
<1>7. /\ IsFiniteSet(Handles \ gone)
      /\ Cardinality(Handles \ gone) = Cardinality(Handles) - Cardinality(Handles \cap gone)
  BY FS_Difference
<1>8. Handles \cap gone = gone
  BY <1>5
<1>9. Live' = Live - Cardinality(closed) /\ IsFiniteSet(Handles')
  BY <1>4, <1>6, <1>7, <1>8 DEF Live
<1>10. held' = [fd |-> held.fd - 2 * Cardinality(closed), map |-> held.map - 2 * Cardinality(closed),
                dir |-> held.dir]
  <2>1. PICK n \in Nat : n = 2 * Cardinality(closed)
    BY <1>2
  <2>2. held' = [fd |-> held.fd + (0 - n), map |-> held.map + (0 - n), dir |-> held.dir + 0]
    BY <1>1, <2>1 DEF Frees, Takes
  <2> QED BY <2>1, <2>2
<1> QED BY <1>1, <1>2, <1>9, <1>10

LEMMA HeldTypes ==
  ASSUME StateTypes, Accounted
  PROVE  /\ Live \in Nat /\ Streams \in Nat /\ TakenFds(pc) \in Nat /\ TakenMaps(pc) \in Nat
         /\ held.fd \in Nat /\ held.map \in Nat /\ held.dir \in Nat
         /\ held.fd = 2 * Live + held.dir + TakenFds(pc) /\ held.map = 2 * Live + TakenMaps(pc)
         /\ held.dir = failed + Streams
<1>1. Live \in Nat
  BY FS_CardinalityType DEF Accounted, Live
<1>2. Streams \in Nat /\ TakenFds(pc) \in Nat /\ TakenMaps(pc) \in Nat /\ failed \in Nat
  BY DEF Streams, TakenFds, TakenMaps, StateTypes
<1>3. /\ held.fd = 2 * Live + held.dir + TakenFds(pc) /\ held.map = 2 * Live + TakenMaps(pc)
      /\ held.dir = failed + Streams
  BY DEF Accounted
<1> QED BY <1>1, <1>2, <1>3

-----------------------------------------------------------------------------
(* segment_open: a step of it fails and gives back what the label says was *)
(* taken, or goes on, or has opened the segment.                           *)

Freed == /\ pc' = IF phase = "loading" THEN "close" ELSE "idle"
         /\ rc' \in Int

LEMMA FailsShape ==
  ASSUME NEW code \in Int, Fails(code), rc \in Int
  PROVE  Freed
BY DEF Fails, Freed, ELLDSGM

LEMMA OpenFailsShape ==
  ASSUME StateTypes, Accounted, NEW code \in Int, NEW fds, NEW maps, OpenFails(code, fds, maps),
         fds = TakenFds(pc), maps = TakenMaps(pc)
  PROVE  /\ Freed /\ handles' = handles
         /\ held' = [fd |-> held.fd - TakenFds(pc), map |-> held.map - TakenMaps(pc), dir |-> held.dir]
<1>1. Freed /\ handles' = handles
  BY FailsShape DEF OpenFails, StateTypes
<1>2. held' = [fd |-> held.fd + (0 - fds), map |-> held.map + (0 - maps), dir |-> held.dir + 0]
  BY DEF OpenFails, Frees, Takes
<1>3. /\ fds \in Nat /\ maps \in Nat /\ held.fd \in Nat /\ held.map \in Nat /\ held.dir \in Nat
  BY HeldTypes
<1> QED BY <1>1, <1>2, <1>3

Advances ==
  /\ pc' \in Labels \ {"idle", "close", "opened", "open_index"} /\ handles' = handles /\ rc' = rc
  /\ held' = [fd |-> held.fd + TakenFds(pc') - TakenFds(pc), map |-> held.map + TakenMaps(pc') - TakenMaps(pc),
              dir |-> held.dir]
  /\ held'.fd <= MaxFds
  /\ pc' \in {"size_data", "map_data", "find"} => files'[cur]["data"] # "none"

OpenStep ==
  /\ pc \in Labels \ {"idle", "close", "opened"} /\ UNCHANGED <<log, cur, causes>>
  /\ files' \in [Base -> [Kind -> {"none", "empty", "sized"}]]
  /\ \A b \in Base : /\ b # cur => files'[b] = files[b]
                     /\ files[b]["data"] # "none" => files'[b]["data"] # "none"
  /\ \/ /\ Freed /\ handles' = handles
        /\ held' = [fd |-> held.fd - TakenFds(pc), map |-> held.map - TakenMaps(pc), dir |-> held.dir]
     \/ Advances
     \/ /\ pc = "find" /\ pc' = "opened" /\ UNCHANGED <<held, rc, files>>
        /\ handles' = [handles EXCEPT ![cur] = handles[cur] + 1]

LEMMA OpenFileShape ==
  ASSUME StateTypes, Accounted, NEW kind \in Kind, NEW label \in Labels, NEW next \in Labels,
         NEW fds, NEW maps, open_file(kind, label, next, fds, maps),
         label \notin {"idle", "close", "opened"}, next \notin {"idle", "close", "opened", "open_index"},
         fds = TakenFds(label), maps = TakenMaps(label),
         TakenFds(next) = fds + 1, TakenMaps(next) = maps,
         next \in {"size_data", "map_data", "find"} => kind = "data"
  PROVE  OpenStep
<1>0. /\ pc = label /\ UNCHANGED <<log, cur, causes>> /\ cur \in Base
      /\ files \in [Base -> [Kind -> {"none", "empty", "sized"}]]
  BY DEF open_file, StateTypes
<1>1. ASSUME UNCHANGED files, NEW code \in Int, OpenFails(code, fds, maps) PROVE OpenStep
  <2>1. /\ Freed /\ handles' = handles
        /\ held' = [fd |-> held.fd - TakenFds(pc), map |-> held.map - TakenMaps(pc), dir |-> held.dir]
    BY <1>0, <1>1, OpenFailsShape
  <2> QED BY <1>0, <1>1, <2>1 DEF OpenStep
<1>2. ASSUME FdsLeft, Takes(1, 0, 0), pc' = next, UNCHANGED <<handles, rc>>,
             files' = [files EXCEPT ![cur][kind] = IF files[cur][kind] = "none" THEN "empty" ELSE files[cur][kind]]
      PROVE  OpenStep
  <2>1. PICK new \in {"empty", "sized"} :
          files' = [files EXCEPT ![cur] = [files[cur] EXCEPT ![kind] = new]]
    <3>1. files[cur][kind] \in {"none", "empty", "sized"}
      BY <1>0
    <3>2. PICK new : new = IF files[cur][kind] = "none" THEN "empty" ELSE files[cur][kind]
      OBVIOUS
    <3>3. new \in {"empty", "sized"} /\ files' = [files EXCEPT ![cur][kind] = new]
      BY <1>2, <3>1, <3>2
    <3> QED BY <3>3
  <2>2. PICK row : row = [files[cur] EXCEPT ![kind] = new]
    OBVIOUS
  <2>3. row \in [Kind -> {"none", "empty", "sized"}] /\ row[kind] = new
        /\ (row["data"] = files[cur]["data"] \/ row["data"] = new) /\ files' = [files EXCEPT ![cur] = row]
    BY <1>0, <2>1, <2>2 DEF Kind
  <2>4. /\ files' \in [Base -> [Kind -> {"none", "empty", "sized"}]] /\ files'[cur] = row
        /\ \A b \in Base : b # cur => files'[b] = files[b]
    BY <1>0, <2>3
  <2>5. \A b \in Base : files[b]["data"] # "none" => files'[b]["data"] # "none"
    BY <2>1, <2>3, <2>4
  <2>6. held' = [fd |-> held.fd + 1, map |-> held.map + 0, dir |-> held.dir + 0] /\ held.fd < MaxFds
    BY <1>2 DEF Takes, FdsLeft
  <2>7. /\ held' = [fd |-> held.fd + TakenFds(pc') - TakenFds(pc),
                    map |-> held.map + TakenMaps(pc') - TakenMaps(pc), dir |-> held.dir]
        /\ held'.fd <= MaxFds
    <3>1. /\ held.fd \in Nat /\ held.map \in Nat /\ held.dir \in Nat /\ fds \in Nat /\ maps \in Nat
      BY <1>0, HeldTypes
    <3>2. MaxFds \in Nat
      BY FilesAssumption
    <3> QED BY <1>0, <1>2, <2>6, <3>1, <3>2
  <2>8. pc' \in {"size_data", "map_data", "find"} => files'[cur]["data"] # "none"
    BY <1>2, <2>1, <2>3, <2>4
  <2>9. Advances
    BY <1>2, <2>7, <2>8 DEF Advances
  <2> QED BY <1>0, <2>4, <2>5, <2>9 DEF OpenStep
<1>3. ELSOFLW \in Int /\ ELFLEOP \in Int
  BY DEF ELSOFLW, ELFLEOP
<1> QED BY <1>1, <1>2, <1>3 DEF open_file

LEMMA SizeFileShape ==
  ASSUME StateTypes, Accounted, NEW kind \in Kind, NEW label \in Labels, NEW next \in Labels,
         NEW fds, NEW maps, size_file(kind, label, next, fds, maps),
         label \notin {"idle", "close", "opened"}, next \notin {"idle", "close", "opened", "open_index"},
         fds = TakenFds(label), maps = TakenMaps(label),
         TakenFds(next) = fds, TakenMaps(next) = maps,
         next \in {"size_data", "map_data", "find"} => files[cur]["data"] # "none"
  PROVE  OpenStep
<1>0. /\ pc = label /\ UNCHANGED <<log, cur, causes>> /\ cur \in Base
      /\ files \in [Base -> [Kind -> {"none", "empty", "sized"}]]
  BY DEF size_file, StateTypes
<1>1. ASSUME UNCHANGED files, OpenFails(ELFLEOP, fds, maps) PROVE OpenStep
  <2>1. /\ Freed /\ handles' = handles
        /\ held' = [fd |-> held.fd - TakenFds(pc), map |-> held.map - TakenMaps(pc), dir |-> held.dir]
    BY <1>0, <1>1, OpenFailsShape DEF ELFLEOP
  <2> QED BY <1>0, <1>1, <2>1 DEF OpenStep
<1>2. ASSUME pc' = next, UNCHANGED <<held, handles, rc>>,
             files' = [files EXCEPT ![cur][kind] = Wanted]
      PROVE  OpenStep
  <2>1. PICK new : new = Wanted
    OBVIOUS
  <2>2. new \in {"none", "empty", "sized"} /\ (files[cur]["data"] # "none" => new # "none")
    BY <1>0, <2>1 DEF Wanted, Kind
  <2>3. PICK row : row = [files[cur] EXCEPT ![kind] = new]
    OBVIOUS
  <2>4. row \in [Kind -> {"none", "empty", "sized"}] /\ row[kind] = new
        /\ (row["data"] = files[cur]["data"] \/ row["data"] = new) /\ files' = [files EXCEPT ![cur] = row]
    BY <1>0, <1>2, <2>1, <2>2, <2>3 DEF Kind
  <2>5. /\ files' \in [Base -> [Kind -> {"none", "empty", "sized"}]] /\ files'[cur] = row
        /\ \A b \in Base : b # cur => files'[b] = files[b]
    BY <1>0, <2>4
  <2>6. \A b \in Base : files[b]["data"] # "none" => files'[b]["data"] # "none"
    BY <2>2, <2>4, <2>5
  <2>7. /\ held' = [fd |-> held.fd + TakenFds(pc') - TakenFds(pc),
                    map |-> held.map + TakenMaps(pc') - TakenMaps(pc), dir |-> held.dir]
        /\ held'.fd <= MaxFds
    <3>1. /\ held.fd \in Nat /\ held.map \in Nat /\ held.dir \in Nat /\ fds \in Nat /\ maps \in Nat
      BY <1>0, HeldTypes
    <3>2. held = [fd |-> held.fd, map |-> held.map, dir |-> held.dir] /\ held.fd <= MaxFds
      BY DEF Accounted
    <3> QED BY <1>0, <1>2, <3>1, <3>2
  <2>8. pc' \in {"size_data", "map_data", "find"} => files'[cur]["data"] # "none"
    BY <1>0, <1>2, <2>6
  <2>9. Advances
    BY <1>2, <2>7, <2>8 DEF Advances
  <2> QED BY <1>0, <2>5, <2>6, <2>9 DEF OpenStep
<1> QED BY <1>1, <1>2 DEF size_file

LEMMA MmapShape ==
  ASSUME StateTypes, Accounted, NEW label \in Labels, NEW next \in Labels,
         NEW fds, NEW maps, mmap_helper(label, next, fds, maps),
         label \notin {"idle", "close", "opened"}, next \notin {"idle", "close", "opened", "open_index"},
         fds = TakenFds(label), maps = TakenMaps(label),
         TakenFds(next) = fds, TakenMaps(next) = maps + 1,
         next \in {"size_data", "map_data", "find"} => files[cur]["data"] # "none"
  PROVE  OpenStep
<1>0. /\ pc = label /\ UNCHANGED <<log, cur, causes, files>>
      /\ files \in [Base -> [Kind -> {"none", "empty", "sized"}]]
  BY DEF mmap_helper, StateTypes
<1>1. ASSUME OpenFails(ELMADV, fds, maps) PROVE OpenStep
  <2>1. /\ Freed /\ handles' = handles
        /\ held' = [fd |-> held.fd - TakenFds(pc), map |-> held.map - TakenMaps(pc), dir |-> held.dir]
    BY <1>0, <1>1, OpenFailsShape DEF ELMADV
  <2> QED BY <1>0, <2>1 DEF OpenStep
<1>2. ASSUME pc' = next, UNCHANGED <<handles, rc>>, Takes(0, 1, 0)
      PROVE  OpenStep
  <2>1. held' = [fd |-> held.fd + 0, map |-> held.map + 1, dir |-> held.dir + 0]
    BY <1>2 DEF Takes
  <2>2. /\ held' = [fd |-> held.fd + TakenFds(pc') - TakenFds(pc),
                    map |-> held.map + TakenMaps(pc') - TakenMaps(pc), dir |-> held.dir]
        /\ held'.fd <= MaxFds
    <3>1. /\ held.fd \in Nat /\ held.map \in Nat /\ held.dir \in Nat /\ fds \in Nat /\ maps \in Nat
      BY <1>0, HeldTypes
    <3>2. held.fd <= MaxFds
      BY DEF Accounted
    <3> QED BY <1>0, <1>2, <2>1, <3>1, <3>2
  <2>3. Advances
    BY <1>0, <1>2, <2>2 DEF Advances
  <2> QED BY <1>0, <2>3 DEF OpenStep
<1> QED BY <1>1, <1>2 DEF mmap_helper

LEMMA OpenShape ==
  ASSUME StateTypes, Accounted, segment_open,
         pc \in {"size_data", "map_data", "find", "opened"} => files[cur]["data"] # "none"
  PROVE  OpenStep
<1> USE DEF TakenFds, TakenMaps, Labels, Kind
<1>1. CASE open_file("index", "open_index", "size_index", 0, 0)
  BY <1>1, OpenFileShape
<1>2. CASE size_file("index", "size_index", "map_index", 1, 0)
  BY <1>2, SizeFileShape
<1>3. CASE mmap_helper("map_index", "open_data", 1, 0)
  BY <1>3, MmapShape
<1>4. CASE open_file("data", "open_data", "size_data", 1, 1)
  BY <1>4, OpenFileShape
<1>5. CASE size_file("data", "size_data", "map_data", 2, 1)
  <2>1. pc = "size_data"
    BY <1>5 DEF size_file
  <2> QED BY <1>5, <2>1, SizeFileShape
<1>6. CASE mmap_helper("map_data", "find", 2, 1)
  <2>1. pc = "map_data"
    BY <1>6 DEF mmap_helper
  <2> QED BY <1>6, <2>1, MmapShape
<1>7. CASE find_w_offset_pair
  <2>0. /\ pc = "find" /\ UNCHANGED <<log, cur, causes, files>>
        /\ files \in [Base -> [Kind -> {"none", "empty", "sized"}]]
    BY <1>7 DEF find_w_offset_pair, StateTypes
  <2>1. CASE OpenFails(ELWOFFS, 2, 2)
    <3>1. 2 = TakenFds(pc) /\ 2 = TakenMaps(pc) /\ ELWOFFS \in Int
      BY <2>0 DEF ELWOFFS
    <3> HIDE DEF TakenFds, TakenMaps
    <3>2. /\ Freed /\ handles' = handles
          /\ held' = [fd |-> held.fd - TakenFds(pc), map |-> held.map - TakenMaps(pc), dir |-> held.dir]
      BY <2>1, <3>1, OpenFailsShape
    <3> QED BY <2>0, <3>2 DEF OpenStep
  <2>2. CASE handles' = [handles EXCEPT ![cur] = @ + 1] /\ pc' = "opened" /\ UNCHANGED <<held, rc>>
    BY <2>0, <2>2 DEF OpenStep
  <2> QED BY <1>7, <2>1, <2>2 DEF find_w_offset_pair
<1> QED BY <1>1, <1>2, <1>3, <1>4, <1>5, <1>6, <1>7 DEF segment_open

LEMMA OpenKeeps ==
  ASSUME FilesInv, segment_open
  PROVE  FilesInv'
<1>0. /\ StateTypes /\ EachOnce /\ Accounted /\ NoneLeft /\ AllLoaded /\ MaxFds \in Nat
      /\ Live \in Nat /\ Streams \in Nat /\ TakenFds(pc) \in Nat /\ TakenMaps(pc) \in Nat
      /\ held.fd \in Nat /\ held.map \in Nat /\ held.dir \in Nat
      /\ held.fd = 2 * Live + held.dir + TakenFds(pc) /\ held.map = 2 * Live + TakenMaps(pc)
      /\ held.dir = failed + Streams /\ held.fd <= MaxFds
  BY HeldTypes, FilesAssumption DEF FilesInv, Accounted
<1>1. OpenStep
  BY <1>0, OpenShape DEF AllLoaded
<1>2. /\ UNCHANGED <<tree, phase, todo, opens, blind, failed, indexed, cur, causes>>
      /\ pc \in Labels \ {"idle", "close", "opened"} /\ InOpen /\ phase # "closed"
      /\ files' \in [Base -> [Kind -> {"none", "empty", "sized"}]]
      /\ \A b \in Base : /\ b # cur => files'[b] = files[b]
                         /\ files[b]["data"] # "none" => files'[b]["data"] # "none"
  BY <1>0, <1>1 DEF OpenStep, log, InOpen, StateTypes
<1>3. indexed \subseteq Base /\ Streams' = Streams /\ cur \in Base /\ handles \in [Base -> Nat]
  BY <1>0, <1>2 DEF StateTypes, Streams
<1>4. CASE /\ Freed /\ handles' = handles
           /\ held' = [fd |-> held.fd - TakenFds(pc), map |-> held.map - TakenMaps(pc), dir |-> held.dir]
  <2>0. pc' \in {"idle", "close"} /\ rc' \in Int /\ (pc' = "close" <=> phase = "loading") /\ pc' \in Labels
    BY <1>4 DEF Freed, Labels
  <2>1. StateTypes'
    BY <1>0, <1>2, <1>3, <1>4, <2>0 DEF StateTypes
  <2>2. EachOnce'
    BY <1>0, <1>2, <1>4, <2>0 DEF EachOnce, InOpen
  <2>3. Accounted'
    <3>1. TakenFds(pc') = 0 /\ TakenMaps(pc') = 0
      BY <2>0 DEF TakenFds, TakenMaps
    <3>2. Handles' = Handles /\ Live' = Live
      BY <1>4 DEF Handles, Live
    <3> QED BY <1>0, <1>2, <1>3, <1>4, <3>1, <3>2 DEF Accounted
  <2>4. NoneLeft'
    BY <1>0, <1>2, <1>4, <2>0 DEF NoneLeft
  <2>5. AllLoaded'
    BY <1>0, <1>2, <1>3, <2>0 DEF AllLoaded
  <2> QED BY <2>1, <2>2, <2>3, <2>4, <2>5 DEF FilesInv
<1>5. CASE Advances
  <2>0. /\ pc' \in Labels \ {"idle", "close", "opened", "open_index"} /\ handles' = handles /\ rc' = rc
        /\ held' = [fd |-> held.fd + TakenFds(pc') - TakenFds(pc), map |-> held.map + TakenMaps(pc') - TakenMaps(pc),
                    dir |-> held.dir]
        /\ held'.fd <= MaxFds
        /\ pc' \in {"size_data", "map_data", "find"} => files'[cur]["data"] # "none"
    BY <1>5 DEF Advances
  <2>1. StateTypes'
    BY <1>0, <1>2, <1>3, <2>0 DEF StateTypes
  <2>2. EachOnce'
    BY <1>0, <1>2, <2>0 DEF EachOnce, InOpen
  <2>3. Accounted'
    <3>1. TakenFds(pc') \in Nat /\ TakenMaps(pc') \in Nat
      BY DEF TakenFds, TakenMaps
    <3>2. Handles' = Handles /\ Live' = Live
      BY <2>0 DEF Handles, Live
    <3> QED BY <1>0, <1>2, <1>3, <2>0, <3>1, <3>2 DEF Accounted
  <2>4. NoneLeft'
    BY <1>0, <1>2, <2>0 DEF NoneLeft
  <2>5. AllLoaded'
    BY <1>0, <1>2, <1>3, <2>0 DEF AllLoaded, InOpen, has_suffix
  <2> QED BY <2>1, <2>2, <2>3, <2>4, <2>5 DEF FilesInv
<1>6. CASE /\ pc = "find" /\ pc' = "opened" /\ UNCHANGED <<held, rc, files>>
           /\ handles' = [handles EXCEPT ![cur] = handles[cur] + 1]
  <2>0. /\ handles' \in [Base -> Nat] /\ handles'[cur] = handles[cur] + 1
        /\ \A b \in Base : b # cur => handles'[b] = handles[b]
    BY <1>3, <1>6
  <2>1. StateTypes'
    BY <1>0, <1>2, <1>3, <1>6, <2>0 DEF StateTypes, Labels
  <2>2. EachOnce'
    <3>1. \A i \in DOMAIN tree : tree[i] \in Base /\ tree[i] # cur
      BY <1>0, <1>2 DEF EachOnce, StateTypes
    <3>2. \A i \in DOMAIN tree : handles'[tree[i]] > 0
      BY <1>0, <2>0, <3>1 DEF EachOnce
    <3>3. handles'[cur] > 0
      BY <1>3, <2>0
    <3> QED BY <1>0, <1>2, <1>6, <3>2, <3>3 DEF EachOnce, InOpen
  <2>3. Accounted'
    <3>1. IsFiniteSet(Handles)' /\ Live' = Live + 1
      BY <1>0, <1>6, HandlesGrow DEF Accounted
    <3>2. TakenFds(pc) = 2 /\ TakenMaps(pc) = 2 /\ TakenFds(pc') = 0 /\ TakenMaps(pc') = 0
      BY <1>6 DEF TakenFds, TakenMaps
    <3>3. held = [fd |-> held.fd, map |-> held.map, dir |-> held.dir]
      BY <1>0 DEF Accounted
    <3>4. /\ held'.fd = held.fd /\ held'.map = held.map /\ held'.dir = held.dir
          /\ held' = [fd |-> held'.fd, map |-> held'.map, dir |-> held'.dir]
      BY <1>6, <3>3
    <3>5. /\ held'.fd = 2 * Live' + held'.dir + TakenFds(pc') /\ held'.map = 2 * Live' + TakenMaps(pc')
          /\ held'.dir = failed' + Streams' /\ held'.fd <= MaxFds
      <4>1. held'.fd = 2 * Live' + held'.dir + TakenFds(pc')
        <5>1. held.fd = 2 * Live + held.dir + 2 /\ Live' = Live + 1 /\ TakenFds(pc') = 0
          BY <1>0, <3>1, <3>2
        <5>2. Live \in Nat /\ held.dir \in Nat
          BY <1>0
        <5> QED BY <3>4, <5>1, <5>2
      <4>2. held'.map = 2 * Live' + TakenMaps(pc')
        <5>1. held.map = 2 * Live + 2 /\ Live' = Live + 1 /\ TakenMaps(pc') = 0 /\ Live \in Nat
          BY <1>0, <3>1, <3>2
        <5> QED BY <3>4, <5>1
      <4>3. held'.dir = failed' + Streams' /\ held'.fd <= MaxFds
        BY <1>0, <1>2, <1>3, <3>4
      <4> QED BY <4>1, <4>2, <4>3
    <3> QED BY <3>1, <3>4, <3>5 DEF Accounted
  <2>4. NoneLeft'
    <3> SUFFICES ASSUME causes = {}, NEW b \in Base, handles'[b] > 0
                 PROVE  /\ handles'[b] = 1
                        /\ (\E i \in DOMAIN tree : tree[i] = b) \/ b = cur
      BY <1>2, <1>6 DEF NoneLeft
    <3>1. CASE b # cur
      BY <1>0, <1>6, <2>0, <3>1 DEF NoneLeft
    <3>2. CASE b = cur
      <4>1. \A i \in DOMAIN tree : tree[i] # cur
        BY <1>0, <1>2 DEF EachOnce
      <4>2. ~ (handles[cur] > 0)
        BY <1>0, <1>3, <1>6, <4>1 DEF NoneLeft
      <4> QED BY <1>3, <2>0, <3>2, <4>2
    <3> QED BY <3>1, <3>2
  <2>5. AllLoaded'
    BY <1>0, <1>2, <1>3, <1>6 DEF AllLoaded, InOpen, has_suffix
  <2> QED BY <2>1, <2>2, <2>3, <2>4, <2>5 DEF FilesInv
<1> QED BY <1>1, <1>4, <1>5, <1>6 DEF OpenStep

-----------------------------------------------------------------------------
(* A segment that is open and not kept: it does not fit in the index, or   *)
(* the payload does not fit in it.                                         *)
LEMMA DropKeeps ==
  ASSUME FilesInv, pc = "opened", segment_close({cur}), Freed, UNCHANGED <<files, log, cur>>
  PROVE  FilesInv'
<1>0. /\ StateTypes /\ EachOnce /\ Accounted /\ NoneLeft /\ AllLoaded /\ MaxFds \in Nat
      /\ Live \in Nat /\ Streams \in Nat /\ TakenFds(pc) = 0 /\ TakenMaps(pc) = 0
      /\ held.fd \in Nat /\ held.map \in Nat /\ held.dir \in Nat
      /\ held.fd = 2 * Live + held.dir /\ held.map = 2 * Live
      /\ held.dir = failed + Streams /\ held.fd <= MaxFds
  <2>1. StateTypes /\ EachOnce /\ Accounted /\ NoneLeft /\ AllLoaded /\ MaxFds \in Nat
    BY FilesAssumption DEF FilesInv
  <2>2. TakenFds(pc) = 0 /\ TakenMaps(pc) = 0
    BY DEF TakenFds, TakenMaps
  <2> QED BY <2>1, <2>2, HeldTypes DEF Accounted
<1>1. /\ UNCHANGED <<tree, phase, todo, opens, blind, failed, indexed, cur, files>> /\ InOpen
      /\ pc' \in {"idle", "close"} /\ rc' \in Int /\ (pc' = "close" <=> phase = "loading") /\ pc' \in Labels
      /\ phase # "closed"
  BY <1>0 DEF log, InOpen, Freed, Labels, StateTypes
<1>2. /\ Streams' = Streams /\ cur \in Base /\ handles \in [Base -> Nat] /\ handles[cur] > 0
      /\ \A i \in DOMAIN tree : tree[i] # cur /\ tree[i] \in Base
  BY <1>0, <1>1 DEF StateTypes, Streams, EachOnce
<1>3. PICK closed \in SUBSET {cur} :
           /\ handles' = [b \in Base |-> IF b \in closed THEN handles[b] - 1 ELSE handles[b]]
           /\ causes' = IF closed = {cur} THEN causes ELSE causes \cup {"msync"}
           /\ Cardinality(closed) \in Nat /\ Live' = Live - Cardinality(closed)
           /\ held' = [fd |-> held.fd - 2 * Cardinality(closed), map |-> held.map - 2 * Cardinality(closed),
                       dir |-> held.dir]
           /\ IsFiniteSet(Handles')
  <2>1. PICK bases : bases = {cur}
    OBVIOUS
  <2>2. /\ bases \in SUBSET Base /\ (\A b \in bases : handles[b] > 0) /\ IsFiniteSet(Handles)
        /\ held.fd \in Int /\ held.map \in Int /\ held.dir \in Int /\ segment_close(bases)
    BY <1>0, <1>2, <2>1 DEF Accounted
  <2> QED BY <1>0, <2>1, <2>2, CloseShape
<1>4. /\ handles' \in [Base -> Nat] /\ causes' \subseteq {"msync", "first", "floor"}
      /\ \A b \in Base : b # cur => handles'[b] = handles[b]
  <2>1. ASSUME NEW b \in Base PROVE (IF b \in closed THEN handles[b] - 1 ELSE handles[b]) \in Nat
    BY <1>2
  <2>2. handles' \in [Base -> Nat] /\ \A b \in Base : b # cur => handles'[b] = handles[b]
    BY <1>3, <2>1
  <2>3. causes' \subseteq {"msync", "first", "floor"}
    BY <1>0, <1>3 DEF StateTypes
  <2> QED BY <2>2, <2>3
<1>5. StateTypes'
  BY <1>0, <1>1, <1>2, <1>4 DEF StateTypes
<1>6. EachOnce'
  BY <1>0, <1>1, <1>2, <1>4 DEF EachOnce, InOpen
<1>7. Accounted'
  <2>1. TakenFds(pc') = 0 /\ TakenMaps(pc') = 0
    BY <1>1 DEF TakenFds, TakenMaps
  <2>2. PICK n \in Nat : n = Cardinality(closed)
    BY <1>3
  <2>3. /\ held'.fd = held.fd - 2 * n /\ held'.map = held.map - 2 * n /\ held'.dir = held.dir
        /\ held' = [fd |-> held'.fd, map |-> held'.map, dir |-> held'.dir] /\ Live' = Live - n
    BY <1>3, <2>2
  <2>4. /\ held'.fd = 2 * Live' + held'.dir + TakenFds(pc') /\ held'.map = 2 * Live' + TakenMaps(pc')
        /\ held'.dir = failed' + Streams' /\ held'.fd <= MaxFds
    BY <1>0, <1>1, <1>2, <2>1, <2>2, <2>3
  <2> QED BY <1>3, <2>3, <2>4 DEF Accounted
<1>8. NoneLeft'
  <2> SUFFICES ASSUME causes' = {}, NEW b \in Base, handles'[b] > 0
               PROVE  handles'[b] = 1 /\ \E i \in DOMAIN tree : tree[i] = b
    BY <1>1 DEF NoneLeft
  <2>1. causes = {} /\ closed = {cur}
    BY <1>3
  <2>2. handles[cur] = 1
    BY <1>0, <1>2, <2>1 DEF NoneLeft
  <2>3. b # cur
    BY <1>3, <2>1, <2>2
  <2> QED BY <1>0, <1>4, <2>1, <2>3 DEF NoneLeft
<1>9. AllLoaded'
  <2>1. \A b \in indexed : files[b]["data"] # "none"
    BY <1>0 DEF AllLoaded
  <2>2. phase = "open" /\ ~ blind =>
          \A b \in indexed : (\E i \in DOMAIN tree : tree[i] = b) \/ NameCut(b)
    BY <1>0 DEF AllLoaded
  <2> QED BY <1>1, <2>1, <2>2 DEF AllLoaded
<1> QED BY <1>5, <1>6, <1>7, <1>8, <1>9 DEF FilesInv

-----------------------------------------------------------------------------
(* mqlog_open and load_segments *)

(* readdir returns each file once, in some order. *)
LEMMA DirectoryOrder ==
  ASSUME NEW S, S \subseteq Base, NEW s \in SetToSeqs(S)
  PROVE  /\ s \in Seq(Base)
         /\ \A i, j \in DOMAIN s : i # j => s[i] # s[j]
         /\ \A b \in S : \E i \in DOMAIN s : s[i] = b
<1>1. IsFiniteSet(S) /\ Cardinality(S) \in Nat
  BY BaseFacts, FS_Subset, FS_CardinalityType
<1>2. PICK n \in Nat : n = Cardinality(S)
  BY <1>1
<1>3. s \in [1 .. n -> S] /\ \A i, j \in 1 .. n : i # j => s[i] # s[j]
  BY <1>2 DEF SetToSeqs
<1>4. s \in Injection(1 .. n, S)
  BY <1>3 DEF Injection, IsInjective
<1>5. IsFiniteSet(1 .. n) /\ Cardinality(1 .. n) = n
  BY <1>2, FS_Interval
<1>6. s \in Surjection(1 .. n, S)
  BY <1>1, <1>2, <1>4, <1>5, FS_Injection
<1>7. \A b \in S : \E i \in 1 .. n : s[i] = b
  BY <1>6 DEF Surjection
<1>8. DOMAIN s = 1 .. n /\ s \in Seq(Base)
  BY <1>2, <1>3
<1> QED BY <1>3, <1>7, <1>8

(* The part of the invariant about held, from what a step does to it. *)
LEMMA SameHandles ==
  ASSUME handles' = handles
  PROVE  Handles' = Handles /\ Live' = Live
BY DEF Handles, Live

LEMMA MqlogOpenKeeps ==
  ASSUME FilesInv, mqlog_open
  PROVE  FilesInv'
<1>0. /\ StateTypes /\ EachOnce /\ Accounted /\ NoneLeft /\ AllLoaded
      /\ MaxFds \in Nat /\ MaxOpens \in Nat /\ failed \in Nat
      /\ phase = "closed" /\ pc = "idle" /\ tree = <<>> /\ opens \in Nat /\ opens < MaxOpens /\ failed <= opens
  <2>1. StateTypes /\ EachOnce /\ Accounted /\ NoneLeft /\ AllLoaded
    BY DEF FilesInv
  <2>2. phase = "closed" /\ pc = "idle" /\ opens < MaxOpens
    BY DEF mqlog_open
  <2> QED BY <2>1, <2>2, FilesAssumption DEF StateTypes, Streams
<1>1. /\ UNCHANGED <<files, handles, tree, pc, cur, failed, causes, indexed>> /\ opens' = opens + 1
      /\ pc' = "idle" /\ tree' = <<>>
  BY <1>0 DEF mqlog_open
<1>2. /\ Live \in Nat /\ TakenFds(pc) = 0 /\ TakenMaps(pc) = 0 /\ TakenFds(pc') = 0 /\ TakenMaps(pc') = 0
      /\ held = [fd |-> 2 * Live + failed, map |-> 2 * Live, dir |-> failed] /\ held.fd <= MaxFds
      /\ IsFiniteSet(Handles)' /\ Live' = Live
  <2>1. TakenFds(pc) = 0 /\ TakenMaps(pc) = 0 /\ TakenFds(pc') = 0 /\ TakenMaps(pc') = 0 /\ Streams = 0
    BY <1>0, <1>1 DEF TakenFds, TakenMaps, Streams
  <2>2. Live \in Nat
    BY <1>0, HeldTypes
  <2>3. /\ held.fd <= MaxFds /\ held.dir = failed + 0
        /\ held = [fd |-> 2 * Live + held.dir + 0, map |-> 2 * Live + 0, dir |-> failed + 0]
    BY <1>0, <2>1 DEF Accounted
  <2>4. IsFiniteSet(Handles)' /\ Live' = Live
    BY <1>0, <1>1, SameHandles DEF Accounted
  <2> QED BY <1>0, <2>1, <2>2, <2>3, <2>4
<1>3. NoneLeft'
  BY <1>0, <1>1 DEF NoneLeft
<1>4. CASE rc' \in {ELLGDIR, ELALLC, ELIDXCR, ELLCKOP} /\ UNCHANGED <<held, phase, todo, blind>>
  <2>1. rc' \in Int
    BY <1>4 DEF ELLGDIR, ELALLC, ELIDXCR, ELLCKOP
  <2>2. StateTypes' /\ EachOnce'
    BY <1>0, <1>1, <1>4, <2>1 DEF StateTypes, EachOnce, InOpen, Streams
  <2>3. Accounted'
    BY <1>0, <1>1, <1>2, <1>4 DEF Accounted, Streams
  <2>4. AllLoaded'
    BY <1>0, <1>1, <1>4 DEF AllLoaded
  <2> QED BY <1>3, <2>2, <2>3, <2>4 DEF FilesInv
<1>5. CASE phase' = "open" /\ blind' = TRUE /\ rc' = 0 /\ UNCHANGED <<held, todo>>
  <2>2. StateTypes' /\ EachOnce'
    BY <1>0, <1>1, <1>5 DEF StateTypes, EachOnce, InOpen, Streams
  <2>3. Accounted'
    BY <1>0, <1>1, <1>2, <1>5 DEF Accounted, Streams
  <2>4. AllLoaded'
    BY <1>0, <1>1, <1>5 DEF AllLoaded
  <2> QED BY <1>3, <2>2, <2>3, <2>4 DEF FilesInv
<1>6. CASE /\ FdsLeft /\ Takes(1, 0, 1) /\ todo' \in SetToSeqs({b \in Base : has_suffix(b)})
           /\ phase' = "loading" /\ blind' = FALSE /\ UNCHANGED rc
  <2>1. PICK S, s : S = {b \in Base : has_suffix(b)} /\ s = todo'
    OBVIOUS
  <2>2. /\ todo' \in Seq(Base) /\ \A i, j \in DOMAIN todo' : i # j => todo'[i] # todo'[j]
        /\ \A b \in Base : has_suffix(b) => \E i \in DOMAIN todo' : todo'[i] = b
    <3>1. S \subseteq Base /\ s \in SetToSeqs(S)
      BY <1>6, <2>1
    <3>2. /\ s \in Seq(Base) /\ \A i, j \in DOMAIN s : i # j => s[i] # s[j]
          /\ \A b \in S : \E i \in DOMAIN s : s[i] = b
      BY <3>1, DirectoryOrder
    <3> QED BY <2>1, <3>2
  <2>3. StateTypes'
    <3>1. Streams' = 1 /\ opens' <= MaxOpens /\ opens' \in Nat /\ failed' = failed /\ failed + 1 <= opens'
      BY <1>0, <1>1, <1>6 DEF Streams
    <3>2. todo' \in Seq(Base)
      BY <2>2
    <3> QED BY <1>0, <1>1, <1>6, <3>1, <3>2 DEF StateTypes
  <2>4. EachOnce'
    BY <1>1, <1>6, <2>2 DEF EachOnce, InOpen
  <2>5. Accounted'
    <3>1. held' = [fd |-> held.fd + 1, map |-> held.map + 0, dir |-> held.dir + 1] /\ held.fd < MaxFds
      BY <1>6 DEF Takes, FdsLeft
    <3>2. Streams' = 1
      BY <1>6 DEF Streams
    <3>3. /\ held'.fd = 2 * Live + failed + 1 /\ held'.map = 2 * Live /\ held'.dir = failed + 1
          /\ held' = [fd |-> held'.fd, map |-> held'.map, dir |-> held'.dir] /\ held'.fd <= MaxFds
      BY <1>0, <1>2, <3>1
    <3> QED BY <1>0, <1>1, <1>2, <3>2, <3>3 DEF Accounted
  <2>6. AllLoaded'
    BY <1>0, <1>1, <1>6, <2>2 DEF AllLoaded, has_suffix
  <2> QED BY <1>3, <2>3, <2>4, <2>5, <2>6 DEF FilesInv
<1> QED BY <1>4, <1>5, <1>6 DEF mqlog_open

LEMMA LoadNextKeeps ==
  ASSUME FilesInv, LoadNext
  PROVE  FilesInv'
<1>0. /\ StateTypes /\ EachOnce /\ Accounted /\ NoneLeft /\ AllLoaded
      /\ phase = "loading" /\ pc = "idle" /\ todo # <<>> /\ todo \in Seq(Base)
      /\ cur' = Head(todo) /\ todo' = Tail(todo)
      /\ UNCHANGED <<files, held, handles, tree, phase, opens, blind, failed, causes, indexed>>
  BY DEF FilesInv, LoadNext, StateTypes
<1>1. pc' \in {"close", "open_index"} /\ rc' \in Int /\ pc' \in Labels
  BY <1>0 DEF LoadNext, Fails, ELLDSGM, StateTypes, Labels
<1>2. /\ Len(todo) \in Nat /\ DOMAIN todo = 1 .. Len(todo) /\ 1 \in DOMAIN todo /\ cur' = todo[1]
      /\ cur' \in Base /\ todo' \in Seq(Base)
      /\ DOMAIN todo' = 1 .. Len(todo) - 1 /\ \A i \in DOMAIN todo' : i + 1 \in DOMAIN todo /\ todo'[i] = todo[i + 1]
  BY <1>0
<1>3. StateTypes'
  BY <1>0, <1>1, <1>2 DEF StateTypes, Streams
<1>4. EachOnce'
  <2>1. /\ \A i, j \in DOMAIN todo : i # j => todo[i] # todo[j]
        /\ \A i \in DOMAIN todo, j \in DOMAIN tree : todo[i] # tree[j]
    BY <1>0 DEF EachOnce
  <2>2. \A i, j \in DOMAIN todo' : i # j => todo'[i] # todo'[j]
    BY <1>2, <2>1
  <2>3. /\ \A i \in DOMAIN todo', j \in DOMAIN tree : todo'[i] # tree[j]
        /\ \A i \in DOMAIN todo' : todo'[i] # cur'
        /\ \A j \in DOMAIN tree : tree[j] # cur'
    BY <1>2, <2>1
  <2> QED BY <1>0, <1>1, <2>2, <2>3 DEF EachOnce, InOpen
<1>5. Accounted'
  <2>1. TakenFds(pc) = 0 /\ TakenMaps(pc) = 0 /\ TakenFds(pc') = 0 /\ TakenMaps(pc') = 0 /\ Streams' = Streams
    BY <1>0, <1>1 DEF TakenFds, TakenMaps, Streams
  <2> QED BY <1>0, <2>1, SameHandles DEF Accounted
<1>6. NoneLeft'
  BY <1>0, <1>1 DEF NoneLeft
<1>7. AllLoaded'
  <2>1. ASSUME NEW b \in Base, has_suffix(b), pc' # "close"
        PROVE  \/ \E i \in DOMAIN tree : tree[i] = b
               \/ \E i \in DOMAIN todo' : todo'[i] = b
               \/ InOpen' /\ b = cur'
    <3>1. (\E i \in DOMAIN tree : tree[i] = b) \/ \E i \in DOMAIN todo : todo[i] = b
      BY <1>0, <2>1 DEF AllLoaded, InOpen
    <3>2. ASSUME NEW i \in DOMAIN todo, todo[i] = b, i # 1 PROVE \E j \in DOMAIN todo' : todo'[j] = b
      <4>1. i - 1 \in DOMAIN todo' /\ (i - 1) + 1 = i
        BY <1>2, <3>2
      <4>2. todo'[i - 1] = b
        BY <1>2, <3>2, <4>1
      <4> QED BY <4>1, <4>2
    <3> QED BY <1>1, <1>2, <2>1, <3>1, <3>2 DEF InOpen
  <2>2. \A b \in indexed : files[b]["data"] # "none"
    BY <1>0 DEF AllLoaded
  <2> QED BY <1>0, <1>1, <2>1, <2>2 DEF AllLoaded, has_suffix
<1> QED BY <1>3, <1>4, <1>5, <1>6, <1>7 DEF FilesInv

LEMMA LoadDoneKeeps ==
  ASSUME FilesInv, LoadDone
  PROVE  FilesInv'
<1>0. /\ StateTypes /\ EachOnce /\ Accounted /\ NoneLeft /\ AllLoaded /\ MaxFds \in Nat
      /\ phase = "loading" /\ pc = "idle" /\ todo = <<>> /\ phase' = "open" /\ rc' = 0
      /\ UNCHANGED <<files, handles, tree, pc, cur, todo, opens, blind, failed, causes, indexed>>
      /\ failed \in Nat
  BY FilesAssumption DEF FilesInv, LoadDone, StateTypes
<1>1. StateTypes' /\ EachOnce' /\ NoneLeft'
  BY <1>0 DEF StateTypes, Streams, EachOnce, InOpen, NoneLeft
<1>2. Accounted'
  <2>1. TakenFds(pc) = 0 /\ TakenMaps(pc) = 0 /\ TakenFds(pc') = 0 /\ TakenMaps(pc') = 0
        /\ Streams = 1 /\ Streams' = 0
    BY <1>0 DEF TakenFds, TakenMaps, Streams
  <2>2. /\ Live \in Nat /\ held.fd = 2 * Live + held.dir /\ held.map = 2 * Live /\ held.dir = failed + 1
        /\ held.fd \in Nat /\ held.fd <= MaxFds
    BY <1>0, <2>1, HeldTypes DEF Accounted
  <2>3. held' = [fd |-> held.fd + (-1), map |-> held.map + 0, dir |-> held.dir + (-1)]
    BY DEF LoadDone, Takes
  <2>4. /\ held'.fd = 2 * Live + failed /\ held'.map = 2 * Live /\ held'.dir = failed
        /\ held' = [fd |-> held'.fd, map |-> held'.map, dir |-> held'.dir] /\ held'.fd <= MaxFds
    BY <1>0, <2>2, <2>3
  <2>5. IsFiniteSet(Handles)' /\ Live' = Live
    BY <1>0, SameHandles DEF Accounted
  <2> QED BY <1>0, <2>1, <2>2, <2>4, <2>5 DEF Accounted
<1>3. AllLoaded'
  <2>1. ASSUME NEW b \in indexed PROVE files[b]["data"] # "none" /\ b \in Base
    BY <1>0 DEF AllLoaded, StateTypes
  <2>2. ASSUME NEW b \in indexed PROVE (\E i \in DOMAIN tree : tree[i] = b) \/ NameCut(b)
    BY <1>0, <2>1, <2>2 DEF AllLoaded, InOpen, has_suffix
  <2> QED BY <1>0, <2>1, <2>2 DEF AllLoaded
<1> QED BY <1>1, <1>2, <1>3 DEF FilesInv

(* The segment that is open gets into the index. *)
LEMMA IndexedKeeps ==
  ASSUME FilesInv, Indexed
  PROVE  FilesInv'
<1>0. /\ StateTypes /\ EachOnce /\ Accounted /\ NoneLeft /\ AllLoaded
      /\ pc = "opened" /\ pc' = "idle" /\ cur \in Base /\ tree \in Seq(Base) /\ Monotonic(cur)
      /\ UNCHANGED <<files, held, handles, phase, todo, opens, blind, failed, cur, rc, causes>>
      /\ indexed' = IF phase = "open" THEN indexed \cup {cur} ELSE indexed
      /\ tree' = Append(tree, cur) /\ phase # "closed" /\ InOpen
  BY DEF FilesInv, Indexed, StateTypes, InOpen
<1>1. /\ Len(tree) \in Nat /\ DOMAIN tree = 1 .. Len(tree) /\ tree' \in Seq(Base) /\ tree' # <<>>
      /\ DOMAIN tree' = 1 .. Len(tree) + 1
      /\ tree'[Len(tree) + 1] = cur /\ \A i \in DOMAIN tree : tree'[i] = tree[i] /\ tree[i] \in Base
      /\ \A i \in DOMAIN tree' : i \in DOMAIN tree \/ i = Len(tree) + 1
      /\ \A i \in DOMAIN tree : i \in DOMAIN tree'
  BY <1>0
<1>2. \A i \in DOMAIN tree : tree[i] < cur
  <2> SUFFICES ASSUME NEW i \in DOMAIN tree PROVE tree[i] < cur
    OBVIOUS
  <2>1. Len(tree) \in DOMAIN tree /\ tree # <<>> /\ i <= Len(tree)
    BY <1>0, <1>1
  <2>2. tree[Len(tree)] < cur
    BY <1>0, <2>1 DEF Monotonic, Last
  <2>3. i # Len(tree) => tree[i] < tree[Len(tree)]
    BY <1>0, <1>1, <2>1 DEF EachOnce
  <2>4. tree[i] \in Nat /\ tree[Len(tree)] \in Nat /\ cur \in Nat
    BY <1>0, <1>1, <2>1, BaseFacts
  <2> QED BY <2>2, <2>3, <2>4
<1>3. StateTypes'
  BY <1>0, <1>1 DEF StateTypes, Streams, Labels
<1>4. EachOnce'
  <2>1. \A i, j \in DOMAIN tree' : i < j => tree'[i] < tree'[j]
    <3> SUFFICES ASSUME NEW i \in DOMAIN tree', NEW j \in DOMAIN tree', i < j PROVE tree'[i] < tree'[j]
      OBVIOUS
    <3>1. i \in DOMAIN tree
      BY <1>1
    <3>2. CASE j \in DOMAIN tree
      BY <1>0, <1>1, <3>1, <3>2 DEF EachOnce
    <3>3. CASE j = Len(tree) + 1
      BY <1>1, <1>2, <3>1, <3>3
    <3> QED BY <1>1, <3>2, <3>3
  <2>2. \A i \in DOMAIN tree' : handles'[tree'[i]] > 0
    BY <1>0, <1>1 DEF EachOnce
  <2>3. phase = "loading" => /\ \A i, j \in DOMAIN todo : i # j => todo[i] # todo[j]
                             /\ \A i \in DOMAIN todo, j \in DOMAIN tree' : todo[i] # tree'[j]
    BY <1>0, <1>1 DEF EachOnce
  <2> QED BY <1>0, <2>1, <2>2, <2>3 DEF EachOnce, InOpen
<1>5. Accounted'
  <2>1. TakenFds(pc) = 0 /\ TakenMaps(pc) = 0 /\ TakenFds(pc') = 0 /\ TakenMaps(pc') = 0 /\ Streams' = Streams
    BY <1>0 DEF TakenFds, TakenMaps, Streams
  <2> QED BY <1>0, <2>1, SameHandles DEF Accounted
<1>6. \A b : (\E i \in DOMAIN tree' : tree'[i] = b) <=> (\E i \in DOMAIN tree : tree[i] = b) \/ b = cur
  BY <1>1
<1>7. NoneLeft'
  BY <1>0, <1>6 DEF NoneLeft
<1>8. AllLoaded'
  <2>1. \A b \in indexed' : files[b]["data"] # "none"
    BY <1>0 DEF AllLoaded
  <2>2. phase = "loading" =>
          \A b \in Base : has_suffix(b) =>
            (\E i \in DOMAIN tree' : tree'[i] = b) \/ \E i \in DOMAIN todo : todo[i] = b
    BY <1>0, <1>6 DEF AllLoaded
  <2>3. phase = "open" /\ ~ blind =>
          \A b \in indexed' : (\E i \in DOMAIN tree' : tree'[i] = b) \/ NameCut(b)
    BY <1>0, <1>6 DEF AllLoaded
  <2> QED BY <1>0, <2>1, <2>2, <2>3 DEF AllLoaded, has_suffix
<1> QED BY <1>3, <1>4, <1>5, <1>7, <1>8 DEF FilesInv

(* The base of a new segment is not in the index. *)
LEMMA LeastBase ==
  ASSUME NEW S, S \subseteq Nat, S # {}
  PROVE  Min(S) \in S
<1> DEFINE R == {ss \in Nat \X Nat : ss[1] < ss[2]}
<1>1. IsWellFoundedOn(R, Nat)
  BY NatLessThanWellFounded DEF OpToRel
<1>2. PICK n \in S : \A m \in S : ~ (<<m, n>> \in R)
  <2> HIDE DEF R
  <2> QED BY <1>1, WFMin
<1>3. \A m \in S : ~ (m < n)
  BY <1>2
<1>4. \A m \in S : n <= m
  BY <1>3
<1> QED BY <1>4 DEF Min

LEMMA NextBase ==
  ASSUME StateTypes, create_segment
  PROVE  cur' \in Base /\ (tree # <<>> => cur' > Last(tree))
<1>1. CASE tree = <<>>
  BY <1>1, BaseFacts DEF create_segment
<1>2. CASE tree # <<>>
  <2>1. /\ tree \in Seq(Base) /\ Last(tree) # Last(Bases) /\ cur' = Min({b \in Base : b > Last(tree)})
    BY <1>2 DEF create_segment, StateTypes
  <2>2. Last(tree) \in Base /\ Base \subseteq Nat
    BY <1>2, <2>1, BaseFacts DEF Last
  <2>3. /\ Bases \in Seq(Nat) /\ Len(Bases) \in Nat /\ DOMAIN Bases = 1 .. Len(Bases)
        /\ \A i \in 2 .. Len(Bases) : Bases[i - 1] < Bases[i]
    BY FilesAssumption
  <2>4. PICK k \in 1 .. Len(Bases) : Last(tree) = Bases[k]
    BY <2>2, <2>3 DEF Base, Range
  <2>5. k # Len(Bases)
    BY <2>1, <2>4 DEF Last
  <2>6. PICK j \in 2 .. Len(Bases) : j - 1 = k
    <3>1. k + 1 \in 2 .. Len(Bases) /\ (k + 1) - 1 = k
      <4>1. k \in Nat /\ 1 <= k /\ k <= Len(Bases) /\ k # Len(Bases) /\ Len(Bases) \in Nat
        <5>1. k \in 1 .. Len(Bases)
          BY <2>4
        <5>2. Len(Bases) \in Nat
          BY <2>3
        <5> QED BY <2>5, <5>1, <5>2
      <4> QED BY <4>1
    <3> QED BY <3>1
  <2>7. Bases[j] \in Base /\ Bases[j] > Last(tree)
    <3>1. Bases[j] \in Base
      BY <2>3, <2>6 DEF Base, Range
    <3>2. Bases[j - 1] < Bases[j]
      BY <2>3, <2>6
    <3> QED BY <2>2, <2>4, <2>6, <3>1, <3>2
  <2>8. PICK S : S = {b \in Base : b > Last(tree)}
    OBVIOUS
  <2>9. S \subseteq Nat /\ S # {}
    BY <2>2, <2>7, <2>8
  <2> QED BY <2>1, <2>8, <2>9, LeastBase
<1> QED BY <1>1, <1>2

LEMMA CreateKeeps ==
  ASSUME FilesInv, create_segment
  PROVE  FilesInv'
<1>0. /\ StateTypes /\ EachOnce /\ Accounted /\ NoneLeft /\ AllLoaded
      /\ phase = "open" /\ pc = "idle" /\ pc' = "open_index" /\ tree \in Seq(Base)
      /\ UNCHANGED <<files, held, handles, tree, phase, todo, opens, blind, failed, indexed, rc, causes>>
  BY DEF FilesInv, create_segment, log, StateTypes
<1>1. cur' \in Base /\ (tree # <<>> => cur' > Last(tree))
  BY <1>0, NextBase
<1>2. \A i \in DOMAIN tree : tree[i] # cur'
  <2> SUFFICES ASSUME NEW i \in DOMAIN tree PROVE tree[i] # cur'
    OBVIOUS
  <2>1. /\ Len(tree) \in Nat /\ DOMAIN tree = 1 .. Len(tree) /\ Len(tree) \in DOMAIN tree /\ tree # <<>>
        /\ tree[i] \in Base /\ tree[Len(tree)] \in Base
    BY <1>0
  <2>2. i # Len(tree) => tree[i] < tree[Len(tree)]
    BY <1>0, <2>1 DEF EachOnce
  <2>3. tree[i] \in Nat /\ tree[Len(tree)] \in Nat /\ cur' \in Nat /\ cur' > tree[Len(tree)]
    BY <1>1, <2>1, BaseFacts DEF Last
  <2> QED BY <2>2, <2>3
<1>3. StateTypes'
  BY <1>0, <1>1 DEF StateTypes, Streams, Labels
<1>4. EachOnce'
  BY <1>0, <1>2 DEF EachOnce
<1>5. Accounted'
  <2>1. TakenFds(pc) = 0 /\ TakenMaps(pc) = 0 /\ TakenFds(pc') = 0 /\ TakenMaps(pc') = 0 /\ Streams' = Streams
    BY <1>0 DEF TakenFds, TakenMaps, Streams
  <2> QED BY <1>0, <2>1, SameHandles DEF Accounted
<1>6. NoneLeft'
  BY <1>0 DEF NoneLeft
<1>7. AllLoaded'
  BY <1>0 DEF AllLoaded
<1> QED BY <1>3, <1>4, <1>5, <1>6, <1>7 DEF FilesInv

-----------------------------------------------------------------------------
(* mqlog_close: the log is gone, with what it held or not. *)

LEMMA GoneKeeps ==
  ASSUME FilesInv, phase \in {"open", "loading"}, pc \in {"idle", "close"}, NEW code \in Int, Gone(code),
         UNCHANGED <<files, opens, blind, indexed, cur>>,
         handles' \in [Base -> Nat], causes' \subseteq {"msync", "first", "floor"},
         IsFiniteSet(Handles'), NEW n \in Nat, Live' = Live - n, Live' \in Nat,
         held' = [fd |-> held.fd - 2 * n, map |-> held.map - 2 * n, dir |-> held.dir],
         causes' = {} => \A b \in Base : handles'[b] = 0,
         pc = "idle" => phase = "open"
  PROVE  FilesInv'
<1>0. /\ StateTypes /\ Accounted /\ AllLoaded /\ MaxFds \in Nat /\ failed \in Nat /\ failed' \in Nat
      /\ tree' = <<>> /\ phase' = "closed" /\ pc' = "idle" /\ todo' = <<>>
      /\ failed' = failed + Streams /\ rc' \in Int
  BY FilesAssumption DEF FilesInv, Gone, StateTypes, Streams
<1>1. StateTypes'
  BY <1>0 DEF StateTypes, Streams, Labels
<1>2. EachOnce'
  BY <1>0 DEF EachOnce, InOpen
<1>3. Accounted'
  <2>1. TakenFds(pc) = 0 /\ TakenMaps(pc) = 0 /\ TakenFds(pc') = 0 /\ TakenMaps(pc') = 0 /\ Streams' = 0
    BY <1>0 DEF TakenFds, TakenMaps, Streams
  <2>2. /\ Live \in Nat /\ held.fd = 2 * Live + held.dir /\ held.map = 2 * Live /\ held.dir = failed + Streams
        /\ held.fd \in Nat /\ held.dir \in Nat /\ held.fd <= MaxFds
    BY <1>0, <2>1, HeldTypes DEF Accounted
  <2>3. /\ held'.fd = 2 * Live' + held'.dir /\ held'.map = 2 * Live' /\ held'.dir = failed'
        /\ held' = [fd |-> held'.fd, map |-> held'.map, dir |-> held'.dir] /\ held'.fd <= MaxFds
    BY <1>0, <2>2
  <2> QED BY <1>0, <2>1, <2>3 DEF Accounted
<1>4. NoneLeft'
  BY DEF NoneLeft
<1>5. AllLoaded'
  BY <1>0 DEF AllLoaded
<1> QED BY <1>1, <1>2, <1>3, <1>4, <1>5 DEF FilesInv

LEMMA MqlogCloseKeeps ==
  ASSUME FilesInv, mqlog_close
  PROVE  FilesInv'
<1>0. /\ StateTypes /\ EachOnce /\ Accounted /\ NoneLeft /\ AllLoaded
      /\ handles \in [Base -> Nat] /\ tree \in Seq(Base) /\ causes \subseteq {"msync", "first", "floor"}
      /\ phase \in {"open", "loading"} /\ pc \in {"idle", "close"} /\ (pc = "idle" => phase = "open")
      /\ UNCHANGED <<files, opens, blind, indexed, cur>>
      /\ Live \in Nat /\ held.fd \in Nat /\ held.map \in Nat /\ held.dir \in Nat /\ IsFiniteSet(Handles)
      /\ held = [fd |-> held.fd, map |-> held.map, dir |-> held.dir]
  <2>1. StateTypes /\ EachOnce /\ Accounted /\ NoneLeft /\ AllLoaded
    BY DEF FilesInv
  <2>2. /\ phase \in {"open", "loading"} /\ pc \in {"idle", "close"} /\ (pc = "idle" => phase = "open")
        /\ UNCHANGED <<files, opens, blind, indexed, cur>>
    BY <2>1 DEF mqlog_close, StateTypes
  <2> QED BY <2>1, <2>2, HeldTypes DEF StateTypes, Accounted
<1>1. ASSUME tree # <<>> => tree[1] = 0, segment_close(Iterated),
             Gone(IF \A b \in Iterated : handles'[b] < handles[b] THEN 0 ELSE ELLGCLS)
      PROVE  FilesInv'
  <2>1. PICK bases : bases = Iterated
    OBVIOUS
  <2>2. bases = Range(tree) /\ bases \subseteq Base /\ \A b \in bases : handles[b] > 0
    <3>1. bases = Range(tree)
      BY <1>1, <2>1 DEF Iterated, Range
    <3> QED BY <1>0, <3>1 DEF EachOnce, Range
  <2>3. PICK closed \in SUBSET bases :
           /\ handles' = [b \in Base |-> IF b \in closed THEN handles[b] - 1 ELSE handles[b]]
           /\ causes' = IF closed = bases THEN causes ELSE causes \cup {"msync"}
           /\ Cardinality(closed) \in Nat /\ Live' = Live - Cardinality(closed)
           /\ held' = [fd |-> held.fd - 2 * Cardinality(closed), map |-> held.map - 2 * Cardinality(closed),
                       dir |-> held.dir]
           /\ IsFiniteSet(Handles')
    BY <1>0, <1>1, <2>1, <2>2, CloseShape
  <2>4. handles' \in [Base -> Nat]
    <3>1. ASSUME NEW b \in Base PROVE (IF b \in closed THEN handles[b] - 1 ELSE handles[b]) \in Nat
      BY <1>0, <2>2
    <3> QED BY <2>3, <3>1
  <2>5. Live' \in Nat
    BY <2>3, FS_CardinalityType DEF Live
  <2>6. causes' \subseteq {"msync", "first", "floor"}
    BY <1>0, <2>3
  <2>7. ASSUME causes' = {}, NEW b \in Base PROVE handles'[b] = 0
    <3>1. causes = {} /\ closed = bases
      BY <2>3, <2>7
    <3>2. handles[b] > 0 => handles[b] = 1 /\ b \in bases
      BY <1>0, <2>2, <3>1 DEF NoneLeft, Range
    <3>3. handles[b] \in Nat /\ handles'[b] = IF b \in bases THEN handles[b] - 1 ELSE handles[b]
      BY <1>0, <2>3, <3>1
    <3>4. b \in bases => handles[b] > 0
      BY <2>2
    <3> QED BY <3>2, <3>3, <3>4
  <2>8. PICK code \in Int : Gone(code)
    BY <1>1 DEF ELLGCLS
  <2>9. PICK n \in Nat : n = Cardinality(closed)
    BY <2>3
  <2>10. Live' = Live - n /\ held' = [fd |-> held.fd - 2 * n, map |-> held.map - 2 * n, dir |-> held.dir]
    BY <2>3, <2>9
  <2> QED BY <1>0, <2>3, <2>4, <2>5, <2>6, <2>7, <2>8, <2>10, GoneKeeps
<1>2. ASSUME NEW cause \in {"first", "floor"}, causes' = causes \cup {cause}, Gone(0), UNCHANGED <<held, handles>>
      PROVE  FilesInv'
  <2>1. Live' = Live /\ IsFiniteSet(Handles') /\ handles' \in [Base -> Nat]
    BY <1>0, <1>2, SameHandles
  <2>2. causes' # {} /\ causes' \subseteq {"msync", "first", "floor"}
    BY <1>0, <1>2
  <2>3. Live' = Live - 0 /\ held' = [fd |-> held.fd - 2 * 0, map |-> held.map - 2 * 0, dir |-> held.dir]
    BY <1>0, <1>2, <2>1
  <2>4. PICK n \in Nat : n = 0
    OBVIOUS
  <2>5. PICK code \in Int : Gone(code)
    BY <1>2
  <2>6. Live' = Live - n /\ held' = [fd |-> held.fd - 2 * n, map |-> held.map - 2 * n, dir |-> held.dir]
    BY <2>3, <2>4
  <2> QED BY <1>0, <2>1, <2>2, <2>5, <2>6, GoneKeeps
<1>3. ASSUME rc' = ELALLC, UNCHANGED <<held, handles, tree, phase, pc, todo, failed, causes>>
      PROVE  FilesInv'
  <2>1. StateTypes' /\ EachOnce' /\ NoneLeft' /\ AllLoaded'
    BY <1>0, <1>3 DEF StateTypes, Streams, EachOnce, InOpen, NoneLeft, AllLoaded, has_suffix, ELALLC
  <2>2. Accounted'
    BY <1>0, <1>3, SameHandles DEF Accounted, Streams
  <2> QED BY <2>1, <2>2 DEF FilesInv
<1> QED BY <1>1, <1>2, <1>3 DEF mqlog_close

-----------------------------------------------------------------------------
LEMMA InitFiles == Init => FilesInv
<1> SUFFICES ASSUME Init PROVE FilesInv
  OBVIOUS
<1>1. /\ phase = "closed" /\ pc = "idle" /\ tree = <<>> /\ todo = <<>> /\ causes = {} /\ indexed = {}
      /\ failed = 0 /\ opens = 0 /\ cur = 0 /\ rc = 0 /\ blind = FALSE
      /\ held = [fd |-> 0, map |-> 0, dir |-> 0]
      /\ files = [b \in Base |-> [k \in Kind |-> "none"]] /\ handles = [b \in Base |-> 0]
  BY DEF Init
<1>2. Handles = {}
  BY <1>1 DEF Handles
<1>3. IsFiniteSet(Handles) /\ Live = 0
  BY <1>2, FS_EmptySet DEF Live
<1>4. StateTypes
  <2>1. /\ files \in [Base -> [Kind -> {"none", "empty", "sized"}]] /\ handles \in [Base -> Nat]
        /\ tree \in Seq(Base) /\ todo \in Seq(Base)
    BY <1>1
  <2>2. cur \in Base /\ MaxOpens \in Nat /\ Streams = 0 /\ pc \in Labels
    BY <1>1, BaseFacts, FilesAssumption DEF Streams, Labels
  <2> QED BY <1>1, <2>1, <2>2 DEF StateTypes
<1>5. EachOnce /\ NoneLeft /\ AllLoaded
  BY <1>1 DEF EachOnce, InOpen, NoneLeft, AllLoaded
<1>6. Accounted
  BY <1>1, <1>3, FilesAssumption DEF Accounted, Streams, TakenFds, TakenMaps
<1> QED BY <1>4, <1>5, <1>6 DEF FilesInv

LEMMA NextFiles ==
  ASSUME FilesInv, [Next]_vars
  PROVE  FilesInv'
<1>1. CASE NotIndexed
  <2>1. pc = "opened" /\ segment_close({cur}) /\ UNCHANGED <<files, log, cur>>
    BY <1>1 DEF NotIndexed
  <2>2. PICK code \in Int : Fails(code)
    BY <1>1 DEF NotIndexed, ELIDXOP, ELIDXPC
  <2>3. Freed
    BY <2>2, FailsShape DEF FilesInv, StateTypes
  <2> QED BY <2>1, <2>3, DropKeeps
<1>2. CASE NoCapacity
  <2>1. pc = "opened" /\ segment_close({cur}) /\ UNCHANGED <<files, log, cur>>
    BY <1>2 DEF NoCapacity
  <2>2. PICK code \in Int : Fails(code)
    BY <1>2 DEF NoCapacity, ELNOWCP
  <2>3. Freed
    BY <2>2, FailsShape DEF FilesInv, StateTypes
  <2> QED BY <2>1, <2>3, DropKeeps
<1>3. CASE UNCHANGED vars
  <2>1. UNCHANGED <<files, held, handles, tree, phase, todo, opens, blind, failed, indexed, pc, cur, rc, causes>>
    BY <1>3 DEF vars, log
  <2>2. StateTypes' /\ EachOnce' /\ NoneLeft' /\ AllLoaded'
    BY <2>1 DEF FilesInv, StateTypes, Streams, EachOnce, InOpen, NoneLeft, AllLoaded, has_suffix
  <2>3. Accounted'
    BY <2>1, SameHandles DEF FilesInv, Accounted, Streams
  <2> QED BY <2>2, <2>3 DEF FilesInv
<1> QED BY <1>1, <1>2, <1>3, OpenKeeps, MqlogOpenKeeps, LoadNextKeeps, LoadDoneKeeps, IndexedKeeps,
           CreateKeeps, MqlogCloseKeeps DEF Next

LEMMA FilesInvariant == Spec => []FilesInv
<1>1. FilesInv /\ [Next]_vars => FilesInv'
  BY NextFiles
<1> QED BY <1>1, InitFiles, PTL DEF Spec

(* Every variable of LogFiles keeps its type: the descriptors stay between *)
(* none and the limit, whatever is closed on an error path, the index is   *)
(* in order, and a segment in it is open.                                  *)
THEOREM FilesTypeCorrect == Spec => []TypeOK
<1>1. FilesInv => TypeOK
  <2> SUFFICES ASSUME FilesInv PROVE TypeOK
    OBVIOUS
  <2>1. StateTypes /\ EachOnce /\ Accounted
    BY DEF FilesInv
  <2>2. held \in [fd : 0 .. MaxFds, map : Nat, dir : Nat]
    <3>1. /\ held.fd \in Nat /\ held.map \in Nat /\ held.dir \in Nat /\ held.fd <= MaxFds
          /\ held = [fd |-> held.fd, map |-> held.map, dir |-> held.dir] /\ MaxFds \in Nat
      BY <2>1, HeldTypes, FilesAssumption DEF Accounted
    <3> QED BY <3>1
  <2>3. /\ \A i \in 2 .. Len(tree) : tree[i - 1] < tree[i]
        /\ \A b \in Range(tree) : handles[b] > 0
    <3>1. tree \in Seq(Base) /\ Len(tree) \in Nat /\ DOMAIN tree = 1 .. Len(tree)
      BY <2>1 DEF StateTypes
    <3>2. \A i \in 2 .. Len(tree) : i - 1 \in DOMAIN tree /\ i \in DOMAIN tree /\ i - 1 < i
      BY <3>1
    <3> QED BY <2>1, <3>2 DEF EachOnce, Range
  <2>4. opens \in 0 .. MaxOpens /\ failed \in 0 .. MaxOpens
    BY <2>1, FilesAssumption DEF StateTypes, Streams
  <2> QED BY <2>1, <2>2, <2>3, <2>4 DEF TypeOK, StateTypes
<1> QED BY <1>1, FilesInvariant, PTL

(* segment_open gives back on every error path what it had taken: between  *)
(* calls the descriptors and maps are those of the segments that were not  *)
(* freed and of the directory streams, for any number of segments, any     *)
(* limit on descriptors and any system calls that fail.                    *)
THEOREM FailuresGiveBack == Spec => []HeldAccountedFor
<1>1. FilesInv => HeldAccountedFor
  <2> SUFFICES ASSUME FilesInv, pc = "idle"
               PROVE  held = [fd |-> 2 * Live + held.dir, map |-> 2 * Live, dir |-> held.dir]
    BY DEF HeldAccountedFor
  <2>1. /\ held.fd = 2 * Live + held.dir + TakenFds(pc) /\ held.map = 2 * Live + TakenMaps(pc)
        /\ held.dir \in Nat /\ Live \in Nat
        /\ held = [fd |-> held.fd, map |-> held.map, dir |-> held.dir]
    BY HeldTypes DEF FilesInv, Accounted
  <2>2. TakenFds(pc) = 0 /\ TakenMaps(pc) = 0
    BY DEF TakenFds, TakenMaps
  <2>3. held.fd = 2 * Live + held.dir /\ held.map = 2 * Live
    BY <2>1, <2>2
  <2> QED BY <2>1, <2>3
<1> QED BY <1>1, FilesInvariant, PTL

(* A log that is closed, or that mqlog_open gave up, holds nothing but the *)
(* directory stream of each failed load_segments, unless a segment could   *)
(* not be synced or mqlog_close did not reach it.                          *)
THEOREM ClosingGivesBack == Spec => []ClosedHoldsNothing
<1>1. FilesInv => ClosedHoldsNothing
  <2> SUFFICES ASSUME FilesInv, phase = "closed", pc = "idle"
               PROVE  held.dir = failed /\ (causes = {} => Live = 0)
    BY DEF ClosedHoldsNothing
  <2>1. held.dir = failed
    <3>1. held.dir = failed + Streams /\ Streams = 0 /\ failed \in Nat
      BY HeldTypes DEF FilesInv, Streams, StateTypes
    <3> QED BY <3>1
  <2>2. ASSUME causes = {} PROVE Live = 0
    <3>1. \A b \in Base : handles[b] = 0
      BY <2>2 DEF FilesInv, NoneLeft, StateTypes
    <3>2. Handles = {}
      BY <3>1 DEF Handles
    <3> QED BY <3>2, FS_EmptySet DEF Live
  <2> QED BY <2>1, <2>2
<1> QED BY <1>1, FilesInvariant, PTL

(* After an mqlog_open that could read the directory and succeeded, every  *)
(* segment that writes were acknowledged in is in the index again, unless  *)
(* its name was cut: whatever the order of the directory, and whatever     *)
(* failed in the calls before.                                             *)
THEOREM SegmentsFoundAgain == Spec => []FoundAgain
<1>1. FilesInv => FoundAgain
  BY DEF FilesInv, AllLoaded, FoundAgain, Range
<1> QED BY <1>1, FilesInvariant, PTL
=============================================================================
