------------------------------ MODULE LogFiles ------------------------------
(***************************************************************************)
(* The files, descriptors and maps of a log: mqlog_open, the rollover to a *)
(* new segment and mqlog_close, one step per system call that may fail,    *)
(* and what each failure gives back.  Opening, closing and rolling over    *)
(* are not concurrent: the first two are not thread safe functions and the *)
(* third holds the mutex.  What the files contain is left to module MqLog. *)
(*                                                                         *)
(* A segment is its base offset, and its data and index files are named    *)
(* after it, in decimal, with a suffix of four characters.                 *)
(***************************************************************************)
EXTENDS MqlogErrno, Sequences, FiniteSets, SequencesExt

CONSTANTS
  Bases,      \* the base offsets the log's segments get, one after the other
  DirLen,     \* length of the directory's name with a slash behind it
  MaxPath,    \* length of the buffer for a path, 256 in the code
  MaxFds,     \* the limit on open descriptors
  Failing,    \* the calls that may fail for reasons of their own
  MaxOpens    \* bound: number of calls of mqlog_open

Calls == {"setup", "opendir", "stat", "open", "ftruncate", "mmap", "find", "write", "append",
          "msync", "floor"}

ASSUME FilesAssumption ==
  /\ Bases \in Seq(Nat) /\ Bases # <<>> /\ Bases[1] = 0
  /\ \A i \in 2 .. Len(Bases) : Bases[i - 1] < Bases[i]
  /\ DirLen \in Nat /\ MaxPath \in Nat /\ MaxFds \in Nat /\ MaxOpens \in Nat
  /\ Failing \subseteq Calls

Base == Range(Bases)
Kind == {"index", "data"}

VARIABLES
  files,     \* base -> [index, data]: whether each file is there and has a size
  held,      \* [fd, map, dir]: the descriptors, maps and directory streams
  handles,   \* base -> number of segment_t that have not been freed
  tree,      \* the bases in the index
  phase,     \* "closed", "loading" (in mqlog_open) or "open"
  pc,        \* where the running call is
  cur,       \* the base that is being opened
  todo,      \* what readdir has still to return
  rc,        \* the last result
  opens,     \* number of calls of mqlog_open
  (* history: *)
  blind,     \* the last mqlog_open could not read the directory
  failed,    \* number of times load_segments failed
  causes,    \* what kept a segment from being closed
  indexed    \* the bases of the segments that writes were acknowledged in

log  == <<tree, phase, todo, opens, blind, failed, indexed>>
vars == <<files, held, handles, log, pc, cur, rc, causes>>

Init ==
  /\ files = [b \in Base |-> [k \in Kind |-> "none"]]
  /\ held = [fd |-> 0, map |-> 0, dir |-> 0]
  /\ handles = [b \in Base |-> 0]
  /\ tree = <<>> /\ phase = "closed" /\ todo = <<>> /\ opens = 0
  /\ pc = "idle" /\ cur = 0 /\ rc = 0
  /\ blind = FALSE /\ failed = 0 /\ causes = {} /\ indexed = {}

MayFail(call) == call \in Failing
FdsLeft       == held.fd < MaxFds

Takes(fds, maps, dirs) ==
  held' = [fd |-> held.fd + fds, map |-> held.map + maps, dir |-> held.dir + dirs]
Frees(fds, maps) == Takes(0 - fds, 0 - maps, 0)

-----------------------------------------------------------------------------
(* File names. *)

Digits(b) == IF b = 0 THEN 1 ELSE CHOOSE d \in 1 .. b : 10 ^ (d - 1) <= b /\ b < 10 ^ d

(* What snprintf returns for a path: the length without the terminator. *)
PathLen(b) == DirLen + Digits(b) + 4

append_file_to_dir(b) == PathLen(b) <= MaxPath

(* A path as long as the buffer has lost its last character. *)
NameCut(b) == PathLen(b) = MaxPath

(* The names that load_segments takes for segments. *)
has_suffix(b) == files[b]["data"] # "none" /\ ~ NameCut(b)

-----------------------------------------------------------------------------
(* segment_open: open_index, mmap_helper, open_data, mmap_helper,          *)
(* find_w_offset_pair.  load_segments passes the size the data file has.   *)

Wanted == IF phase = "loading" THEN files[cur]["data"] ELSE "sized"

(* Mutant of Fails: load_segments goes on with the next segment. *)
MutantLoadsOthers(code) == rc' = code /\ pc' = "idle"

(* load_segments gives up on the first segment that fails. *)
Fails(code) ==
  /\ rc' = IF phase = "loading" /\ code # ELIDXPC THEN ELLDSGM ELSE code
  /\ pc' = IF phase = "loading" THEN "close" ELSE "idle"

(* Mutant of OpenFails: the descriptor of the index file stays open. *)
MutantKeepsIndexFd(code, fds, maps) ==
  Fails(code) /\ Frees(IF fds = 2 THEN 1 ELSE fds, maps) /\ UNCHANGED handles

(* segment_open fails after closing `fds' files and unmapping `maps'. *)
OpenFails(code, fds, maps) == Fails(code) /\ Frees(fds, maps) /\ UNCHANGED handles

open_file(kind, label, next, fds, maps) ==
  /\ pc = label
  /\ \/ /\ ~ append_file_to_dir(cur)
        /\ OpenFails(ELSOFLW, fds, maps)
        /\ UNCHANGED files
     \/ /\ append_file_to_dir(cur)
        /\ ~ FdsLeft \/ MayFail("open")
        /\ OpenFails(ELFLEOP, fds, maps)
        /\ UNCHANGED files
     \/ /\ append_file_to_dir(cur) /\ FdsLeft
        /\ files' = [files EXCEPT ![cur][kind] = IF @ = "none" THEN "empty" ELSE @]
        /\ Takes(1, 0, 0)
        /\ pc' = next
        /\ UNCHANGED <<handles, rc>>
  /\ UNCHANGED <<log, cur, causes>>

(* A file that has a size keeps it, and it must be the wanted one. *)
size_file(kind, label, next, fds, maps) ==
  /\ pc = label
  /\ \/ /\ files[cur][kind] = "sized" /\ Wanted # "sized"
        /\ OpenFails(ELFLEOP, fds, maps)
        /\ UNCHANGED files
     \/ /\ MayFail("ftruncate")
        /\ OpenFails(ELFLEOP, fds, maps)
        /\ UNCHANGED files
     \/ /\ files[cur][kind] = "sized" => Wanted = "sized"
        /\ files' = [files EXCEPT ![cur][kind] = Wanted]
        /\ pc' = next
        /\ UNCHANGED <<held, handles, rc>>
  /\ UNCHANGED <<log, cur, causes>>

(* mmap of an empty file fails with MAP_FAILED, which madvise refuses. *)
mmap_helper(label, next, fds, maps) ==
  /\ pc = label
  /\ \/ /\ Wanted = "empty" \/ MayFail("mmap")
        /\ OpenFails(ELMADV, fds, maps)
     \/ /\ Wanted # "empty"
        /\ Takes(0, 1, 0)
        /\ pc' = next
        /\ UNCHANGED <<handles, rc>>
  /\ UNCHANGED <<files, log, cur, causes>>

find_w_offset_pair ==
  /\ pc = "find"
  /\ \/ MayFail("find") /\ OpenFails(ELWOFFS, 2, 2)
     \/ /\ handles' = [handles EXCEPT ![cur] = @ + 1]
        /\ pc' = "opened"
        /\ UNCHANGED <<held, rc>>
  /\ UNCHANGED <<files, log, cur, causes>>

segment_open ==
  \/ open_file("index", "open_index", "size_index", 0, 0)
  \/ size_file("index", "size_index", "map_index", 1, 0)
  \/ mmap_helper("map_index", "open_data", 1, 0)
  \/ open_file("data", "open_data", "size_data", 1, 1)
  \/ size_file("data", "size_data", "map_data", 2, 1)
  \/ mmap_helper("map_data", "find", 2, 1)
  \/ find_w_offset_pair

(* segment_close of a set of segments.  One that cannot be synced is left  *)
(* as it is, and nobody has it any more.                                   *)
segment_close(bases) ==
  \E closed \in IF MayFail("msync") THEN SUBSET bases ELSE {bases} :
    /\ handles' = [b \in Base |-> IF b \in closed THEN handles[b] - 1 ELSE handles[b]]
    /\ Frees(2 * Cardinality(closed), 2 * Cardinality(closed))
    /\ causes' = IF closed = bases THEN causes ELSE causes \cup {"msync"}

-----------------------------------------------------------------------------
(* mqlog_open and load_segments *)

(* Without a directory stream nothing is loaded and nothing is reported. *)
mqlog_open ==
  /\ phase = "closed" /\ pc = "idle" /\ opens < MaxOpens
  /\ opens' = opens + 1
  /\ \/ /\ MayFail("setup")
        /\ rc' \in {ELLGDIR, ELALLC, ELIDXCR, ELLCKOP}
        /\ UNCHANGED <<held, phase, todo, blind>>
     \/ /\ ~ FdsLeft \/ MayFail("opendir")
        /\ phase' = "open" /\ blind' = TRUE /\ rc' = 0
        /\ UNCHANGED <<held, todo>>
     \/ /\ FdsLeft
        /\ Takes(1, 0, 1)
        /\ todo' \in SetToSeqs({b \in Base : has_suffix(b)})
        /\ phase' = "loading" /\ blind' = FALSE
        /\ UNCHANGED rc
  /\ UNCHANGED <<files, handles, tree, pc, cur, failed, causes, indexed>>

LoadNext ==
  /\ phase = "loading" /\ pc = "idle" /\ todo # <<>>
  /\ cur' = Head(todo) /\ todo' = Tail(todo)
  /\ \/ MayFail("stat") /\ Fails(ELLDSGM)
     \/ pc' = "open_index" /\ UNCHANGED rc
  /\ UNCHANGED <<files, held, handles, tree, phase, opens, blind, failed, causes, indexed>>

(* Only the path that loads everything closes the directory stream. *)
LoadDone ==
  /\ phase = "loading" /\ pc = "idle" /\ todo = <<>>
  /\ Takes(-1, 0, -1)
  /\ phase' = "open" /\ rc' = 0
  /\ UNCHANGED <<files, handles, tree, pc, cur, todo, opens, blind, failed, causes, indexed>>

(* Mutant of Monotonic: only a key that is there already is refused. *)
MutantNotThere(b) == b \notin Range(tree)

(* mbptree_append takes increasing keys only. *)
Monotonic(b) == IF tree = <<>> THEN TRUE ELSE b > Last(tree)

Indexed ==
  /\ pc = "opened" /\ Monotonic(cur)
  /\ tree' = Append(tree, cur)
  /\ indexed' = IF phase = "open" THEN indexed \cup {cur} ELSE indexed
  /\ pc' = "idle"
  /\ UNCHANGED <<files, held, handles, phase, todo, opens, blind, failed, cur, rc, causes>>

NotIndexed ==
  /\ pc = "opened"
  /\ ~ Monotonic(cur) \/ MayFail("append")
  /\ segment_close({cur})
  /\ Fails(ELIDXOP) \/ (MayFail("append") /\ Fails(ELIDXPC))
  /\ UNCHANGED <<files, log, cur>>

-----------------------------------------------------------------------------
(* mqlog_write where it needs a new segment: the first one, or the one     *)
(* behind the last of the index, which has ended.                          *)
create_segment ==
  /\ phase = "open" /\ pc = "idle"
  /\ tree # <<>> => Last(tree) # Last(Bases)
  /\ cur' = IF tree = <<>> THEN 0 ELSE Min({b \in Base : b > Last(tree)})
  /\ pc' = "open_index"
  /\ UNCHANGED <<files, held, handles, log, rc, causes>>

(* A payload that is larger than the new segment, or a segment that is     *)
(* not new: its files were there, unknown to the index, and it has ended.  *)
NoCapacity ==
  /\ phase = "open" /\ pc = "opened" /\ MayFail("write")
  /\ segment_close({cur})
  /\ Fails(ELNOWCP)
  /\ UNCHANGED <<files, log, cur>>

-----------------------------------------------------------------------------
(* mqlog_close, called by the user or by mqlog_open when it fails.  The    *)
(* iteration begins at the floor of 0, so it closes nothing when no        *)
(* segment has base 0.  A user whose mqlog_close could not iterate still   *)
(* has the log; nobody has the one that mqlog_open gave up.                *)

(* Mutant of Iterated: the iteration stops one segment early. *)
MutantSkipsLast == IF tree # <<>> /\ tree[1] = 0 THEN Range(Front(tree)) ELSE {}

Iterated == IF tree # <<>> /\ tree[1] = 0 THEN Range(tree) ELSE {}

Gone(code) ==
  /\ tree' = <<>> /\ phase' = "closed" /\ pc' = "idle" /\ todo' = <<>>
  /\ failed' = IF phase = "loading" THEN failed + 1 ELSE failed
  /\ rc' = IF phase = "loading" THEN rc ELSE code

mqlog_close ==
  /\ (phase = "open" /\ pc = "idle") \/ pc = "close"
  /\ \/ /\ tree # <<>> => tree[1] = 0
        /\ segment_close(Iterated)
        /\ Gone(IF \A b \in Iterated : handles'[b] < handles[b] THEN 0 ELSE ELLGCLS)
     \/ /\ tree # <<>> /\ tree[1] # 0
        /\ causes' = causes \cup {"first"}
        /\ Gone(0)
        /\ UNCHANGED <<held, handles>>
     \/ /\ MayFail("floor") /\ phase = "loading"
        /\ causes' = causes \cup {"floor"}
        /\ Gone(0)
        /\ UNCHANGED <<held, handles>>
     \/ /\ MayFail("floor") /\ phase = "open"
        /\ rc' = ELALLC
        /\ UNCHANGED <<held, handles, tree, phase, pc, todo, failed, causes>>
  /\ UNCHANGED <<files, opens, blind, indexed, cur>>

Next ==
  \/ mqlog_open \/ LoadNext \/ LoadDone \/ Indexed \/ NotIndexed
  \/ segment_open \/ create_segment \/ NoCapacity \/ mqlog_close

Spec == Init /\ [][Next]_vars

-----------------------------------------------------------------------------
(* Properties *)

Labels == {"idle", "open_index", "size_index", "map_index", "open_data", "size_data",
           "map_data", "find", "opened", "close"}

(* Every variable has its type; the index is in order, and a segment in it *)
(* is open.                                                                *)
TypeOK ==
  /\ files \in [Base -> [Kind -> {"none", "empty", "sized"}]]
  /\ held \in [fd : 0 .. MaxFds, map : Nat, dir : Nat]
  /\ handles \in [Base -> Nat]
  /\ tree \in Seq(Base) /\ \A i \in 2 .. Len(tree) : tree[i - 1] < tree[i]
  /\ \A b \in Range(tree) : handles[b] > 0
  /\ phase \in {"closed", "loading", "open"} /\ pc \in Labels
  /\ cur \in Base /\ todo \in Seq(Base) /\ rc \in Int
  /\ opens \in 0 .. MaxOpens /\ failed \in 0 .. MaxOpens
  /\ blind \in BOOLEAN /\ indexed \subseteq Base /\ causes \subseteq {"msync", "first", "floor"}

(* The segment_t that have not been freed. *)
Handles == UNION {{b} \X (1 .. handles[b]) : b \in Base}
Live    == Cardinality(Handles)

(* Whatever call fails, on whichever path, segment_open gives back what it *)
(* took: between calls the descriptors and maps are those of the segments  *)
(* that were not freed and of the directory streams, and of nothing else.  *)
HeldAccountedFor ==
  pc = "idle" => held = [fd |-> 2 * Live + held.dir, map |-> 2 * Live, dir |-> held.dir]

(* A log that is closed, or whose mqlog_open failed, holds nothing any     *)
(* more, except: one directory stream for each time load_segments failed,  *)
(* and the segments that could not be synced, or that mqlog_close did not  *)
(* reach because the iterator could not be made or no segment has base 0.  *)
ClosedHoldsNothing ==
  phase = "closed" /\ pc = "idle" =>
    held.dir = failed /\ (causes = {} => Live = 0)

(* After an mqlog_open that could read the directory and succeeded, every  *)
(* segment that writes were acknowledged in is in the index, except one    *)
(* whose file name append_file_to_dir cut short.                           *)
FoundAgain ==
  phase = "open" /\ pc = "idle" /\ ~ blind => \A b \in indexed : b \in Range(tree) \/ NameCut(b)
=============================================================================
