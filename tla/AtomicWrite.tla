---------------------------- MODULE AtomicWrite ----------------------------
(***************************************************************************)
(* _atomic_write (kaos_agents/memory/store.py) on a disk-backed VFS: the   *)
(* thread body _do_write opens {path}.tmp with "wb", writes and fsyncs it, *)
(* and os.replace-s it onto path.  Every writer of one path uses the same  *)
(* {path}.tmp.  asyncio.to_thread runs each save in its own thread, so     *)
(* the steps of two saves of one session interleave.                       *)
(*                                                                         *)
(* Files are what POSIX makes of them: open("wb") truncates the file the   *)
(* name refers to, a rename moves a name and leaves open descriptors on    *)
(* the file they were opened on.  A descriptor therefore refers to the     *)
(* file now named {path}.tmp, to the one now named path, or to a file that *)
(* has no name any more.                                                   *)
(***************************************************************************)
EXTENDS Naturals

CONSTANTS
  Writers,      \* the threads that may be inside _do_write for this path
  MaxSaves,     \* bound on the save calls of a behaviour
  NoFile,       \* the name does not exist
  Empty,        \* the file exists and holds no bytes
  Torn          \* the file holds the bytes of one save over the tail of another's

ASSUME AtomicWriteAssumption ==
  /\ MaxSaves \in Nat
  /\ {NoFile, Empty, Torn} \cap Nat = {}
  /\ NoFile # Empty /\ NoFile # Torn /\ Empty # Torn

VARIABLES
  pc,           \* pc[w]: the next statement of writer w
  payload,      \* payload[w]: the save whose bytes w holds
  fd,           \* fd[w]: the file w's descriptor refers to
  tmp,          \* what {path}.tmp holds
  disk,         \* what path holds
  saves,        \* save calls begun; the n-th has payload n
  acked,        \* the latest save that returned to its caller without an error
  overlapped    \* whether two saves of the path were ever in progress at once

vars == <<pc, payload, fd, tmp, disk, saves, acked, overlapped>>

Contents == {NoFile, Empty, Torn} \cup (1..saves)

TypeOK ==
  /\ pc \in [Writers -> {"idle", "open", "write", "replace"}]
  /\ payload \in [Writers -> 0..saves]
  /\ fd \in [Writers -> {"none", "tmp", "disk", "unnamed"}]
  /\ tmp \in Contents
  /\ disk \in Contents
  /\ saves \in Nat
  /\ acked \in 0..saves
  /\ overlapped \in BOOLEAN

Init ==
  /\ pc = [w \in Writers |-> "idle"]
  /\ payload = [w \in Writers |-> 0]
  /\ fd = [w \in Writers |-> "none"]
  /\ tmp = NoFile
  /\ disk = NoFile
  /\ saves = 0
  /\ acked = 0
  /\ overlapped = FALSE

\* save() renders the bytes (to_dict, json.dumps) and awaits asyncio.to_thread.
Begin(w) ==
  /\ pc[w] = "idle"
  /\ saves < MaxSaves
  /\ overlapped' = (overlapped \/ \E v \in Writers : pc[v] # "idle")
  /\ saves' = saves + 1
  /\ payload' = [payload EXCEPT ![w] = saves + 1]
  /\ pc' = [pc EXCEPT ![w] = "open"]
  /\ UNCHANGED <<fd, tmp, disk, acked>>

OpenAs(w, ref, newTmp, newDisk) ==
  /\ pc[w] = "open"
  /\ tmp' = newTmp
  /\ disk' = newDisk
  /\ fd' = [fd EXCEPT ![w] = ref]
  /\ pc' = [pc EXCEPT ![w] = "write"]
  /\ UNCHANGED <<payload, saves, acked, overlapped>>

\* A mutant of Open: path is written in place.
MutOpenInPlace(w) == OpenAs(w, "disk", tmp, Empty)

\* tmp_path.open("wb"): create {path}.tmp, or truncate the one that is there.
Open(w) == OpenAs(w, "tmp", Empty, disk)

\* Bytes written from offset 0 over what a file holds: over older bytes the
\* result is whole only when they are not longer.
Overwritten(old, new) == IF old = Empty THEN {new} ELSE {new, Torn}

\* fp.write(data); fp.flush(); os.fsync: into the file the descriptor refers to.
Write(w) ==
  /\ pc[w] = "write"
  /\ pc' = [pc EXCEPT ![w] = "replace"]
  /\ fd' = [fd EXCEPT ![w] = "none"]
  /\ \/ fd[w] = "tmp" /\ tmp' \in Overwritten(tmp, payload[w]) /\ UNCHANGED disk
     \/ fd[w] = "disk" /\ disk' \in Overwritten(disk, payload[w]) /\ UNCHANGED tmp
     \/ fd[w] = "unnamed" /\ UNCHANGED <<tmp, disk>>
  /\ UNCHANGED <<payload, saves, acked, overlapped>>

\* What a descriptor refers to once {path}.tmp has been renamed onto path.
Renamed(ref) ==
  CASE ref = "tmp" -> "disk" [] ref = "disk" -> "unnamed" [] OTHER -> ref

\* os.replace(tmp_path, disk_path), the fsync of the directory, and the return.
Replace(w) ==
  /\ pc[w] = "replace"
  /\ tmp # NoFile
  /\ disk' = tmp
  /\ tmp' = NoFile
  /\ fd' = [v \in Writers |-> Renamed(fd[v])]
  /\ pc' = [pc EXCEPT ![w] = "idle"]
  /\ acked' = IF payload[w] > acked THEN payload[w] ELSE acked
  /\ UNCHANGED <<payload, saves, overlapped>>

RaiseLeaving(w, newDisk) ==
  /\ pc[w] = "replace"
  /\ tmp = NoFile
  /\ disk' = newDisk
  /\ pc' = [pc EXCEPT ![w] = "idle"]
  /\ UNCHANGED <<payload, fd, tmp, saves, acked, overlapped>>

\* A mutant of ReplaceFails: the error is cleaned up after by removing path as well.
MutReplaceFails(w) == RaiseLeaving(w, NoFile)

\* os.replace raises FileNotFoundError: another writer renamed the file away.
ReplaceFails(w) == RaiseLeaving(w, disk)

\* The process dies (SIGTERM, OOM kill) and starts again; both files survive.
Crash ==
  /\ \E w \in Writers : pc[w] # "idle"
  /\ pc' = [w \in Writers |-> "idle"]
  /\ fd' = [w \in Writers |-> "none"]
  /\ UNCHANGED <<payload, tmp, disk, saves, acked, overlapped>>

Step(w) == Begin(w) \/ Open(w) \/ Write(w) \/ Replace(w) \/ ReplaceFails(w)

Next == (\E w \in Writers : Step(w)) \/ Crash

Spec == Init /\ [][Next]_vars

-----------------------------------------------------------------------------
\* What the docstring of _atomic_write says of every load(): the complete bytes of
\* one save, or no file.  (False of saves that overlap.)
NeverTorn == disk = NoFile \/ disk \in 1..saves

\* As long as no two saves overlap, a load() between any two steps, or after any
\* crash, reads the complete bytes of one save: never an empty file, never a mix.
NeverPartial == ~overlapped => NeverTorn

\* Then a save that returned is on disk until a later save replaces it, whatever
\* crash or leftover {path}.tmp comes in between.
AckedOnDisk == ~overlapped /\ acked > 0 => (disk \in Nat /\ disk >= acked)

\* As long as saves do not overlap, {path} holds the complete bytes of one save, and
\* of none older than the last that returned (_atomic_write).
SavedWhole == NeverPartial /\ AckedOnDisk

\* Even when saves of one session overlap, and whatever dies half way, a path
\* that has been written stays: exists() cannot turn FALSE and make
\* load_or_create start the session afresh.
NeverMissing == [][disk # NoFile => disk' # NoFile]_vars

\* A saved file is whole and the latest as long as saves do not overlap, and it stays there
\* even when they do.
SavesSound == []SavedWhole /\ NeverMissing

AF == INSTANCE AtomicFile WITH contended <- overlapped
\* Seen from load(), the steps inside a save are one replacement, in the order of
\* the saves, until two saves overlap.
IsAtomicFile == AF!Spec
=============================================================================
