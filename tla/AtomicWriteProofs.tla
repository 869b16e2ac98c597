------------------------- MODULE AtomicWriteProofs -------------------------
(***************************************************************************)
(* Proofs about AtomicWrite for any number of writers and saves.  What the *)
(* file holds is proved for behaviours in which no two saves have          *)
(* overlapped yet (TLC refutes it beyond), the rest for all of them.  Then *)
(* about the chat command: its loads over the cache of parsed files, and   *)
(* the account its loop keeps of a session.                                *)
(***************************************************************************)
EXTENDS AtomicWrite, CorpusLoad, ChatRepl, TLAPS

\* At most one thread is inside _do_write, and it holds the latest payload.
OneWriter ==
  /\ \A v, w \in Writers : pc[v] # "idle" /\ pc[w] # "idle" => v = w
  /\ \A w \in Writers : pc[w] # "idle" => payload[w] = saves /\ saves > 0

\* That thread's bytes are what {path}.tmp is about to hold, or holds.
TmpFollows ==
  /\ \A w \in Writers : pc[w] = "write" => fd[w] = "tmp" /\ tmp = Empty
  /\ \A w \in Writers : pc[w] = "replace" => tmp = payload[w]

\* While a save is in progress the path holds older bytes.
DiskBehind == (\E w \in Writers : pc[w] # "idle") /\ disk # NoFile => disk < saves

\* What is true of every writer even when saves overlap.
PayloadBegun == \A w \in Writers : pc[w] # "idle" => payload[w] > 0

\* The inductive invariant.
IInv ==
  /\ TypeOK
  /\ PayloadBegun
  /\ ~overlapped => NeverTorn /\ AckedOnDisk /\ OneWriter /\ TmpFollows /\ DiskBehind

\* The marks of a path are not payloads.
LEMMA NatIsNoMark == NoFile \notin Nat /\ Empty \notin Nat /\ Torn \notin Nat
  BY AtomicWriteAssumption

\* A writer's descriptor and files stay well-formed, whether the writers overlap or not.
LEMMA TypedStep == TypeOK /\ PayloadBegun /\ [Next]_vars => TypeOK' /\ PayloadBegun'
<1> SUFFICES ASSUME TypeOK, PayloadBegun, [Next]_vars PROVE TypeOK' /\ PayloadBegun'
  OBVIOUS
<1> USE NatIsNoMark, AtomicWriteAssumption
<1> USE DEF TypeOK, Contents, PayloadBegun
<1>1. ASSUME NEW w \in Writers, Begin(w) PROVE TypeOK' /\ PayloadBegun'
  <2>1. overlapped' \in BOOLEAN
    BY <1>1 DEF Begin
  <2>2. QED
    BY <1>1, <2>1 DEF Begin
<1>2. ASSUME NEW w \in Writers, Open(w) PROVE TypeOK' /\ PayloadBegun'
  BY <1>2 DEF Open, OpenAs
<1>3. ASSUME NEW w \in Writers, Write(w) PROVE TypeOK' /\ PayloadBegun'
  <2>1. payload[w] \in 1..saves
    BY <1>3 DEF Write
  <2>2. tmp' \in Contents /\ disk' \in Contents
    BY <1>3, <2>1 DEF Write, Overwritten
  <2>3. QED
    BY <1>3, <2>2 DEF Write
<1>4. ASSUME NEW w \in Writers, Replace(w) PROVE TypeOK' /\ PayloadBegun'
  BY <1>4 DEF Replace, Renamed
<1>5. ASSUME NEW w \in Writers, ReplaceFails(w) PROVE TypeOK' /\ PayloadBegun'
  BY <1>5 DEF ReplaceFails, RaiseLeaving
<1>6. CASE Crash
  BY <1>6 DEF Crash
<1>7. CASE UNCHANGED vars
  BY <1>7 DEF vars
<1>8. QED
  BY <1>1, <1>2, <1>3, <1>4, <1>5, <1>6, <1>7 DEF Next, Step

\* The invariant holds of the initial state.
LEMMA IInvInit == Init => IInv
<1> SUFFICES ASSUME Init PROVE IInv
  OBVIOUS
<1>1. TypeOK
  <2>1. overlapped \in BOOLEAN
    BY Zenon DEF Init
  <2>2. QED
    BY <2>1, AtomicWriteAssumption DEF Init, TypeOK, Contents
<1>2. NeverTorn /\ OneWriter /\ TmpFollows /\ DiskBehind /\ PayloadBegun
  BY DEF Init, NeverTorn, OneWriter, TmpFollows, DiskBehind, PayloadBegun
<1>3. AckedOnDisk
  BY DEF Init, AckedOnDisk
<1>4. QED
  BY <1>1, <1>2, <1>3, Zenon DEF IInv

\* What a step of writers that have not overlapped keeps.
Alone == NeverTorn /\ AckedOnDisk /\ OneWriter /\ TmpFollows /\ DiskBehind

\* Writers that take turns keep the file whole.
LEMMA AloneStep ==
  ASSUME TypeOK, TypeOK', Alone, ~overlapped, ~overlapped', [Next]_vars
  PROVE  Alone'
<1> USE NatIsNoMark, AtomicWriteAssumption
<1> USE DEF Alone, TypeOK, Contents, NeverTorn, AckedOnDisk, OneWriter, TmpFollows,
            DiskBehind
<1>1. ASSUME NEW w \in Writers, Begin(w) PROVE Alone'
  <2>1. \A v \in Writers : pc[v] = "idle"
    BY <1>1 DEF Begin
  <2>2. QED
    BY <1>1, <2>1 DEF Begin
<1>2. ASSUME NEW w \in Writers, Open(w) PROVE Alone'
  BY <1>2 DEF Open, OpenAs
<1>3. ASSUME NEW w \in Writers, Write(w) PROVE Alone'
  <2>1. fd[w] = "tmp" /\ tmp = Empty
    BY <1>3 DEF Write
  <2>2. tmp' = payload[w] /\ disk' = disk
    BY <1>3, <2>1 DEF Write, Overwritten
  <2>3. /\ pc' = [pc EXCEPT ![w] = "replace"]
        /\ fd' = [fd EXCEPT ![w] = "none"]
        /\ payload' = payload /\ saves' = saves /\ acked' = acked
    BY <1>3 DEF Write
  <2>4. payload[w] = saves /\ saves > 0 /\ \A v \in Writers : pc[v] # "idle" => v = w
    BY <1>3 DEF Write
  <2>5. NeverTorn' /\ AckedOnDisk'
    BY <2>2, <2>3, <2>4
  <2>6. OneWriter' /\ TmpFollows'
    BY <2>2, <2>3, <2>4
  <2>7. DiskBehind'
    BY <1>3, <2>2, <2>3 DEF Write
  <2>8. QED
    BY <2>5, <2>6, <2>7
<1>4. ASSUME NEW w \in Writers, Replace(w) PROVE Alone'
  <2>1. /\ disk' = saves /\ saves \in 1..saves
        /\ acked' \in 0..saves
        /\ saves' = saves
    BY <1>4 DEF Replace
  <2>2. \A v \in Writers : pc'[v] = "idle"
    BY <1>4 DEF Replace
  <2>3. QED
    BY <2>1, <2>2
<1>5. ASSUME NEW w \in Writers, ReplaceFails(w) PROVE Alone'
  BY <1>5 DEF ReplaceFails, RaiseLeaving
<1>6. CASE Crash
  BY <1>6 DEF Crash
<1>7. CASE UNCHANGED vars
  BY <1>7 DEF vars
<1>8. QED
  BY <1>1, <1>2, <1>3, <1>4, <1>5, <1>6, <1>7 DEF Next, Step

\* Saves that have overlapped are never taken back.
LEMMA OverlapLasts == TypeOK /\ overlapped /\ [Next]_vars => overlapped'
  BY DEF TypeOK, Next, Step, Begin, Open, OpenAs, Write, Replace, ReplaceFails,
         RaiseLeaving, Crash, vars

\* So the invariant holds of every behaviour.
LEMMA IInvAlways == Spec => []IInv
<1>1. IInv /\ [Next]_vars => IInv'
  BY TypedStep, AloneStep, OverlapLasts DEF IInv, Alone
<1>2. QED
  BY IInvInit, <1>1, PTL DEF Spec

\* Type correctness, of saves that overlap too.
THEOREM TypeCorrect == Spec => []TypeOK
<1>1. IInv => TypeOK
  BY DEF IInv
<1>2. QED
  BY <1>1, IInvAlways, PTL

\* A load() never sees partial bytes, however many saves and crashes there are.
THEOREM NeverPartialHolds == Spec => []NeverPartial
<1>1. IInv => NeverPartial
  BY DEF IInv, NeverPartial
<1>2. QED
  BY <1>1, IInvAlways, PTL

\* A save that returned stays on disk until a later one replaces it.
THEOREM AckedOnDiskHolds == Spec => []AckedOnDisk
<1>1. IInv => AckedOnDisk
  BY DEF IInv, AckedOnDisk
<1>2. QED
  BY <1>1, IInvAlways, PTL

\* A save begins, alone or beside another.
LEMMA BeginMaps == ASSUME TypeOK, NEW w \in Writers, Begin(w) PROVE AF!Begin
<1>1. overlapped' = overlapped \/ overlapped' = TRUE
  BY DEF Begin, TypeOK
<1>2. saves' = saves + 1 /\ UNCHANGED disk
  BY DEF Begin
<1>3. QED
  BY <1>1, <1>2, Zenon DEF AF!Begin

\* A step inside _do_write is a step of the atomic file, or changes nothing it shows,
\* as long as the saves take turns.
LEMMA AloneMaps ==
  ASSUME IInv, ~overlapped, [Next]_vars
  PROVE  [AF!Next]_<<disk, saves, overlapped>>
<1> USE NatIsNoMark, AtomicWriteAssumption
<1>1. ASSUME NEW w \in Writers, Begin(w) PROVE AF!Begin
  BY <1>1, BeginMaps DEF IInv
<1>2. ASSUME NEW w \in Writers, Write(w) PROVE UNCHANGED <<disk, saves, overlapped>>
  BY <1>2 DEF Write, IInv, TypeOK, TmpFollows
<1>3. ASSUME NEW w \in Writers, Replace(w) PROVE AF!Publish
  <2>1. disk' = saves /\ saves \in 1..saves /\ saves' = saves /\ overlapped' = overlapped
    BY <1>3 DEF Replace, IInv, TypeOK, OneWriter, TmpFollows
  <2>2. disk = NoFile \/ disk < saves
    BY <1>3 DEF Replace, IInv, DiskBehind
  <2>3. QED
    BY <2>1, <2>2 DEF AF!Publish
<1>4. ASSUME NEW w \in Writers, Open(w) \/ ReplaceFails(w)
      PROVE  UNCHANGED <<disk, saves, overlapped>>
  BY <1>4 DEF Open, OpenAs, ReplaceFails, RaiseLeaving
<1>5. CASE Crash \/ UNCHANGED vars
  BY <1>5 DEF Crash, vars
<1>6. QED
  BY <1>1, <1>2, <1>3, <1>4, <1>5 DEF Next, Step, AF!Next

\* Writers that contend leave some bytes.
LEMMA OverlappedMaps ==
  ASSUME IInv, overlapped, [Next]_vars
  PROVE  [AF!Next]_<<disk, saves, overlapped>>
<1> USE NatIsNoMark, AtomicWriteAssumption
<1>1. ASSUME NEW w \in Writers, Begin(w) PROVE AF!Begin
  BY <1>1, BeginMaps DEF IInv
<1>2. ASSUME NEW w \in Writers, Write(w) PROVE AF!Garble \/ UNCHANGED <<disk, saves, overlapped>>
  <2>1. payload[w] \in Nat
    BY <1>2 DEF IInv, TypeOK
  <2>2. disk' = disk \/ disk' \in Overwritten(disk, payload[w])
    BY <1>2 DEF Write
  <2>3. disk' = disk \/ disk' # NoFile
    BY <2>1, <2>2 DEF Overwritten
  <2>4. QED
    BY <1>2, <2>3 DEF Write, AF!Garble
<1>3. ASSUME NEW w \in Writers, Replace(w) PROVE AF!Garble
  BY <1>3 DEF Replace, AF!Garble
<1>4. ASSUME NEW w \in Writers, Open(w) \/ ReplaceFails(w)
      PROVE  UNCHANGED <<disk, saves, overlapped>>
  BY <1>4 DEF Open, OpenAs, ReplaceFails, RaiseLeaving
<1>5. CASE Crash \/ UNCHANGED vars
  BY <1>5 DEF Crash, vars
<1>6. QED
  BY <1>1, <1>2, <1>3, <1>4, <1>5 DEF Next, Step, AF!Next

\* The temp, fsync and rename of _atomic_write implement one atomic file for saves
\* that take turns, and a file that stays for saves that do not.
THEOREM ImplementsAtomicFile == Spec => IsAtomicFile
<1>1. Init => AF!Init
  BY DEF Init, AF!Init
<1>2. IInv /\ [Next]_vars => [AF!Next]_<<disk, saves, overlapped>>
  BY AloneMaps, OverlappedMaps DEF IInv, TypeOK
<1>3. QED
  BY <1>1, <1>2, IInvAlways, PTL DEF Spec, AF!Spec, IsAtomicFile

\* A written path stays, even when saves overlap: no step ever removes it.
THEOREM NeverMissingHolds == Spec => NeverMissing
<1>1. IInv /\ [Next]_vars => (disk # NoFile => disk' # NoFile)
  BY NatIsNoMark, AtomicWriteAssumption
  DEF IInv, TypeOK, Contents, Next, Step, Begin, Open, OpenAs, Write, Overwritten, Replace,
      ReplaceFails, RaiseLeaving, Crash, vars
<1>2. QED
  BY <1>1, IInvAlways, PTL DEF Spec, NeverMissing

\* As long as saves do not overlap, {path} holds one save, and none older than the last
\* that returned, for any number of writers, saves and crashes.
THEOREM SavedWholeHolds == Spec => []SavedWhole
BY NeverPartialHolds, AckedOnDiskHolds, PTL DEF SavedWhole

\* What a saved file is, whole, the latest and there, for any number of writers and crashes
\* (atomic_io.py, _atomic_write).
THEOREM SavesSoundHolds == Spec => SavesSound
BY SavedWholeHolds, NeverMissingHolds, PTL DEF SavesSound

-----------------------------------------------------------------------------
(* CorpusLoad *)

\* Chunk sizes, what files may be cut into, entries of the cache and slots of workers.
Sizes == {l.size : l \in Loads}
AllPieces == {NoChunks} \cup {Pieces(k[1], k[2]) : k \in Keys} \cup {Pieces(t, s) : t \in Texts, s \in Sizes}
Blobs == [mark : {"none", "torn", "whole"}, chunks : AllPieces]
Slots ==
  [at : {"queued", "probe", "parse", "open", "write", "replace", "index", "done"},
   key : (Texts \cup {Missing}) \X (Sizes \cup {0}), fd : {"none", "tmp", "blob", "gone"},
   out : AllPieces, failed : BOOLEAN, seen : SUBSET (Texts \cup {Missing})]

LoadTypeOK ==
  /\ holds \in [Files -> Texts \cup {Missing}]
  /\ blob \in [Keys -> Blobs] /\ blobTmp \in [Keys -> Blobs] /\ indexed \subseteq Keys
  /\ load \in Loads /\ DOMAIN slot \subseteq DOMAIN load.paths
  /\ slot \in [DOMAIN slot -> Slots] /\ poisoned \subseteq Keys

\* Nothing but the pieces of the text of its key is under a key that is not poisoned.
Honest(k, b) ==
  k \notin poisoned /\ b.mark = "whole" => b.chunks = Pieces(k[1], k[2]) /\ k[1] \notin Unreadable

\* The cache and what is about to replace its entries.
CacheHonest ==
  /\ \A k \in Keys : Honest(k, blob[k]) /\ Honest(k, blobTmp[k])
  /\ \A k \in indexed : blob[k] # NoBlob

\* What parsers make of a file that held the texts seen.
FreshOf(seen) == {Pieces(t, load.size) : t \in seen \ ({Missing} \cup Unreadable)}

\* A worker that has slot s of path p: its key is of a text it saw; what it stores are the
\* pieces of that text, unless the file was changed in between; what it ends with is fresh.
SlotSound(s, p) ==
  /\ holds[p] \in s.seen
  /\ s.at \notin {"queued", "done"} =>
       /\ s.key \in Keys /\ s.key[1] \in s.seen /\ s.key[2] = load.size /\ ~s.failed
  /\ s.at \in {"open", "write", "replace", "index"} /\ s.key \notin poisoned =>
       s.out = Pieces(s.key[1], s.key[2]) /\ s.key[1] \notin Unreadable
  /\ s.at = "index" => blob[s.key] # NoBlob
  /\ s.at = "queued" => ~s.failed
  /\ s.at = "done" =>
       IF s.failed THEN s.seen \cap ({Missing} \cup Unreadable) # {}
       ELSE s.out \in FreshOf(s.seen) \/ s.key \in poisoned

SlotsSound == \A i \in DOMAIN slot : SlotSound(slot[i], load.paths[i])

\* A result is of workers that have ended.
ResultLast == result.done => \A i \in DOMAIN slot : slot[i].at = "done"

LoadInv == LoadTypeOK /\ CacheHonest /\ SlotsSound /\ ResultLast

\* The keys of a load, and its paths.
LEMMA KeysOfLoad ==
  ASSUME load \in Loads
  PROVE  /\ load.size \in Sizes /\ load.paths \in Seq(Files)
         /\ \A t \in Texts : <<t, load.size>> \in Keys
         /\ \A i \in DOMAIN load.paths : load.paths[i] \in Files
         /\ \A t \in Texts : Pieces(t, load.size) \in AllPieces
         /\ \A k \in Keys : Pieces(k[1], k[2]) \in AllPieces /\ k[1] \in Texts /\ k[1] # Missing
<1>1. load.size \in Sizes /\ load.paths \in Seq(Files)
  BY LoadAssumption DEF Sizes
<1>2. \A t \in Texts : <<t, load.size>> \in Keys
  BY <1>1 DEF Keys, Sizes
<1>3. \A i \in DOMAIN load.paths : load.paths[i] \in Files
  BY <1>1
<1>4. \A t \in Texts : Pieces(t, load.size) \in AllPieces
  BY <1>1 DEF AllPieces
<1>5. \A k \in Keys : Pieces(k[1], k[2]) \in AllPieces
  BY DEF AllPieces
<1>6. \A k \in Keys : k[1] \in Texts /\ k[1] # Missing
  BY LoadAssumption DEF Keys
<1> QED  BY <1>1, <1>2, <1>3, <1>4, <1>5, <1>6

LEMMA LoadInvInit == LoadInit => LoadInv
<1> SUFFICES ASSUME LoadInit PROVE LoadInv
  OBVIOUS
<1> USE DEF LoadInit
<1>1. NoBlob \in Blobs
  BY DEF Blobs, NoBlob, AllPieces
<1>2. DOMAIN slot = {}
  BY Zenon
<1>2a. slot \in [DOMAIN slot -> Slots]
  BY <1>2
<1>3. LoadTypeOK
  BY <1>1, <1>2, <1>2a DEF LoadTypeOK
<1>4. CacheHonest
  BY DEF CacheHonest, Honest, NoBlob
<1>5. SlotsSound /\ ResultLast
  BY <1>2 DEF SlotsSound, ResultLast
<1> QED  BY <1>3, <1>4, <1>5 DEF LoadInv

\* A slot stays sound while the cache keeps its entries.
LEMMA SlotStays ==
  ASSUME NEW s, NEW p, SlotSound(s, p), holds' = holds, load' = load, poisoned \subseteq poisoned',
         s.at = "index" => (blob[s.key] # NoBlob => blob'[s.key] # NoBlob)
  PROVE  SlotSound(s, p)'
  BY DEF SlotSound, FreshOf

\* A step of one worker: the others' slots stay, this one's is sound, and the cache is.
LEMMA WorkerKeeps ==
  ASSUME LoadInv, NEW i \in DOMAIN slot, NEW new \in Slots, slot' = [slot EXCEPT ![i] = new],
         UNCHANGED <<holds, load, result>>, slot[i].at # "done",
         indexed' \subseteq Keys, poisoned \subseteq poisoned', poisoned' \subseteq Keys,
         blob' \in [Keys -> Blobs], blobTmp' \in [Keys -> Blobs], CacheHonest',
         \A k \in Keys : blob[k] # NoBlob => blob'[k] # NoBlob,
         SlotSound(new, load.paths[i])'
  PROVE  LoadInv'
<1>1. DOMAIN slot' = DOMAIN slot /\ slot'[i] = new /\ slot' \in [DOMAIN slot' -> Slots]
  BY DEF LoadInv, LoadTypeOK
<1>2. \A j \in DOMAIN slot : j # i => slot'[j] = slot[j]
  OBVIOUS
<1>3. LoadTypeOK'
  BY <1>1 DEF LoadInv, LoadTypeOK
<1>4. SlotsSound'
  <2> SUFFICES ASSUME NEW j \in DOMAIN slot PROVE SlotSound(slot[j], load.paths[j])'
    BY <1>1 DEF SlotsSound
  <2>1. CASE j = i
    BY <1>1, <2>1
  <2>2. CASE j # i
    <3>1. PICK s : s = slot[j]
      OBVIOUS
    <3>2. PICK p : p = load.paths[j]
      OBVIOUS
    <3>3. SlotSound(s, p)
      BY <3>1, <3>2 DEF LoadInv, SlotsSound
    <3>4. s.at = "index" => s.key \in Keys
      BY <3>3 DEF SlotSound
    <3>5. SlotSound(s, p)'
      BY <3>3, <3>4, SlotStays
    <3> QED  BY <1>2, <2>2, <3>1, <3>2, <3>5
  <2> QED  BY <2>1, <2>2
<1>5. ResultLast'
  BY <1>1 DEF LoadInv, ResultLast
<1> QED  BY <1>3, <1>4, <1>5 DEF LoadInv

\* A worker takes a path.
LEMMA TakeKeeps == ASSUME LoadInv, NEW i \in DOMAIN slot, Take(i) PROVE LoadInv'
<1>a. PICK s \in Slots : s = slot[i]
  BY DEF LoadInv, LoadTypeOK
<1>b. PICK text : text = holds[load.paths[i]]
  OBVIOUS
<1>c. PICK new : new = IF text = Missing THEN [s EXCEPT !.at = "done", !.failed = TRUE]
                  ELSE [s EXCEPT !.at = IF load.cached THEN "probe" ELSE "parse",
                                 !.key = <<text, load.size>>]
  OBVIOUS
<1>1. /\ slot' = [slot EXCEPT ![i] = new] /\ s.at = "queued"
      /\ UNCHANGED <<holds, blob, blobTmp, indexed, load, result, poisoned>>
  BY <1>a, <1>b, <1>c DEF Take, Fail
<1>2. /\ s \in Slots /\ load \in Loads /\ i \in DOMAIN load.paths
      /\ blob \in [Keys -> Blobs] /\ blobTmp \in [Keys -> Blobs] /\ indexed \subseteq Keys
      /\ poisoned \subseteq Keys
  BY DEF LoadInv, LoadTypeOK
<1>3. text \in Texts \cup {Missing} /\ text \in s.seen
  BY <1>a, <1>b, <1>2, KeysOfLoad DEF LoadInv, LoadTypeOK, SlotsSound, SlotSound
<1>4. ~s.failed
  BY <1>a, <1>1 DEF LoadInv, SlotsSound, SlotSound
<1>5. CacheHonest'
  BY <1>1 DEF LoadInv, CacheHonest, Honest
<1>6. new \in Slots /\ SlotSound(new, load.paths[i])'
  <2>1. CASE text = Missing
    <3>1. new = [s EXCEPT !.at = "done", !.failed = TRUE]
      BY <1>c, <2>1
    <3>2. new \in Slots /\ new.at = "done" /\ new.failed = TRUE /\ new.seen = s.seen
      BY <1>2, <3>1 DEF Slots
    <3> QED  BY <1>b, <1>1, <1>3, <2>1, <3>2 DEF SlotSound
  <2>2. CASE text # Missing
    <3>1. PICK stage \in {"probe", "parse"} : stage = IF load.cached THEN "probe" ELSE "parse"
      OBVIOUS
    <3>2. new = [s EXCEPT !.at = stage, !.key = <<text, load.size>>]
      BY <1>c, <2>2, <3>1
    <3>3. /\ <<text, load.size>> \in Keys /\ load.size \in Sizes /\ text \in Texts
      BY <1>2, <1>3, <2>2, KeysOfLoad
    <3>4. /\ new \in Slots /\ new.at = stage /\ new.key = <<text, load.size>> /\ new.seen = s.seen
          /\ new.failed = s.failed
      BY <1>2, <3>1, <3>2, <3>3 DEF Slots
    <3> QED  BY <1>b, <1>1, <1>3, <1>4, <3>1, <3>3, <3>4 DEF SlotSound
  <2> QED  BY <2>1, <2>2
<1>7. slot[i].at # "done"
  BY <1>a, <1>1
<1> QED  BY <1>1, <1>2, <1>5, <1>6, <1>7, WorkerKeeps

LEMMA DoneSlot ==
  ASSUME NEW s \in Slots, NEW chunks \in AllPieces
  PROVE  LET new == [s EXCEPT !.at = "done", !.out = chunks, !.fd = "none"] IN
         /\ new \in Slots /\ new.at = "done" /\ new.out = chunks /\ new.key = s.key
         /\ new.seen = s.seen /\ new.failed = s.failed
  BY DEF Slots

\* What a slot that is busy knows.
LEMMA BusySlot ==
  ASSUME LoadInv, NEW i \in DOMAIN slot, slot[i].at \notin {"queued", "done"}
  PROVE  /\ slot[i] \in Slots /\ load \in Loads /\ i \in DOMAIN load.paths
         /\ SlotSound(slot[i], load.paths[i])
         /\ slot[i].key \in Keys /\ slot[i].key[1] \in slot[i].seen
         /\ slot[i].key[1] \in Texts /\ slot[i].key[1] # Missing
         /\ slot[i].key[2] = load.size /\ ~slot[i].failed
         /\ holds[load.paths[i]] \in Texts \cup {Missing} /\ holds[load.paths[i]] \in slot[i].seen
         /\ blob \in [Keys -> Blobs] /\ blobTmp \in [Keys -> Blobs] /\ indexed \subseteq Keys
         /\ poisoned \subseteq Keys
<1>1. /\ slot[i] \in Slots /\ load \in Loads /\ i \in DOMAIN load.paths
      /\ blob \in [Keys -> Blobs] /\ blobTmp \in [Keys -> Blobs] /\ indexed \subseteq Keys
      /\ poisoned \subseteq Keys /\ holds \in [Files -> Texts \cup {Missing}]
  BY DEF LoadInv, LoadTypeOK
<1>2. SlotSound(slot[i], load.paths[i])
  BY DEF LoadInv, SlotsSound
<1>3. /\ slot[i].key \in Keys /\ slot[i].key[1] \in slot[i].seen
      /\ slot[i].key[2] = load.size /\ ~slot[i].failed /\ holds[load.paths[i]] \in slot[i].seen
  BY <1>2 DEF SlotSound
<1>4. slot[i].key[1] \in Texts /\ slot[i].key[1] # Missing
  BY <1>1, <1>3, KeysOfLoad
<1>5. holds[load.paths[i]] \in Texts \cup {Missing}
  BY <1>1, KeysOfLoad
<1> QED  BY <1>1, <1>2, <1>3, <1>4, <1>5

\* The cache is probed.
LEMMA ProbeKeeps == ASSUME LoadInv, NEW i \in DOMAIN slot, Probe(i) PROVE LoadInv'
<1>1. PICK s \in Slots : s = slot[i]
  BY DEF LoadInv, LoadTypeOK
<1>2. PICK b \in Blobs : b = blob[s.key]
  BY <1>1, BusySlot DEF Probe
<1>3. /\ s.at = "probe"
      /\ UNCHANGED <<holds, blob, blobTmp, indexed, load, result, poisoned>>
      /\ IF Hit(b)
         THEN slot' = [slot EXCEPT ![i] = [s EXCEPT !.at = "done", !.out = b.chunks, !.fd = "none"]]
         ELSE slot' = [slot EXCEPT ![i] = [s EXCEPT !.at = "parse"]]
  BY <1>1, <1>2 DEF Probe, Done
<1>4. /\ load \in Loads /\ SlotSound(s, load.paths[i])
      /\ s.key \in Keys /\ s.key[1] \in s.seen /\ s.key[1] # Missing
      /\ s.key[2] = load.size /\ ~s.failed /\ holds[load.paths[i]] \in s.seen
      /\ blob \in [Keys -> Blobs] /\ blobTmp \in [Keys -> Blobs] /\ indexed \subseteq Keys
      /\ poisoned \subseteq Keys
  BY <1>1, <1>3, BusySlot
<1>5. CacheHonest'
  BY <1>3 DEF LoadInv, CacheHonest, Honest
<1>6. Honest(s.key, b) /\ b.chunks \in AllPieces
  BY <1>2, <1>4 DEF LoadInv, CacheHonest, Blobs
<1>7. CASE Hit(b)
  <2>1. PICK new : new = [s EXCEPT !.at = "done", !.out = b.chunks, !.fd = "none"]
    OBVIOUS
  <2>2. /\ new \in Slots /\ new.at = "done" /\ new.out = b.chunks /\ new.key = s.key
        /\ new.seen = s.seen /\ new.failed = s.failed
    BY <1>6, <2>1, DoneSlot
  <2>3. b.chunks \in FreshOf(s.seen) \/ s.key \in poisoned
    BY <1>4, <1>6, <1>7 DEF Honest, Hit, FreshOf
  <2>4. SlotSound(new, load.paths[i])'
    BY <1>3, <1>4, <2>2, <2>3 DEF SlotSound, FreshOf
  <2>5. slot' = [slot EXCEPT ![i] = new]
    BY <1>3, <1>7, <2>1
  <2> QED  BY <1>1, <1>3, <1>4, <1>5, <2>2, <2>4, <2>5, WorkerKeeps
<1>8. CASE ~Hit(b)
  <2>1. PICK new : new = [s EXCEPT !.at = "parse"]
    OBVIOUS
  <2>2. /\ new \in Slots /\ new.at = "parse" /\ new.key = s.key
        /\ new.seen = s.seen /\ new.failed = s.failed
    BY <2>1 DEF Slots
  <2>4. SlotSound(new, load.paths[i])'
    BY <1>3, <1>4, <2>2 DEF SlotSound
  <2>5. slot' = [slot EXCEPT ![i] = new]
    BY <1>3, <1>8, <2>1
  <2> QED  BY <1>1, <1>3, <1>4, <1>5, <2>2, <2>4, <2>5, WorkerKeeps
<1> QED  BY <1>7, <1>8

\* The file is parsed; what it holds may no longer be what was hashed.
LEMMA ParseKeeps == ASSUME LoadInv, NEW i \in DOMAIN slot, Parse(i) PROVE LoadInv'
<1>1. PICK s \in Slots : s = slot[i]
  BY DEF LoadInv, LoadTypeOK
<1>2. PICK text : text = holds[load.paths[i]]
  OBVIOUS
<1>3. PICK chunks : chunks = Pieces(text, load.size)
  OBVIOUS
<1>4. /\ s.at = "parse"
      /\ UNCHANGED <<holds, blob, blobTmp, indexed, load, result>>
      /\ IF text = Missing \/ text \in Unreadable
         THEN slot' = [slot EXCEPT ![i] = [s EXCEPT !.at = "done", !.failed = TRUE]] /\ UNCHANGED poisoned
         ELSE /\ slot' = [slot EXCEPT ![i] = IF load.cached /\ chunks # NoChunks
                    THEN [s EXCEPT !.at = "open", !.out = chunks]
                    ELSE [s EXCEPT !.at = "done", !.out = chunks, !.fd = "none"]]
              /\ poisoned' = IF text = s.key[1] THEN poisoned ELSE poisoned \cup {s.key}
  BY <1>1, <1>2, <1>3 DEF Parse, Done, Fail
<1>5. /\ load \in Loads /\ text \in Texts \cup {Missing} /\ text \in s.seen
      /\ s.key \in Keys /\ s.key[1] \in s.seen /\ s.key[1] # Missing
      /\ s.key[2] = load.size /\ ~s.failed
      /\ blob \in [Keys -> Blobs] /\ blobTmp \in [Keys -> Blobs] /\ indexed \subseteq Keys
      /\ poisoned \subseteq Keys
  BY <1>1, <1>2, <1>4, BusySlot
<1>6. poisoned \subseteq poisoned' /\ poisoned' \subseteq Keys
  BY <1>4, <1>5
<1>7. CacheHonest'
  BY <1>4, <1>6 DEF LoadInv, CacheHonest, Honest
<1>8. CASE text = Missing \/ text \in Unreadable
  <2>1. PICK new : new = [s EXCEPT !.at = "done", !.failed = TRUE]
    OBVIOUS
  <2>2. new \in Slots /\ new.at = "done" /\ new.failed = TRUE /\ new.seen = s.seen
    BY <2>1 DEF Slots
  <2>3. SlotSound(new, load.paths[i])'
    BY <1>2, <1>4, <1>5, <1>8, <2>2 DEF SlotSound
  <2>4. slot' = [slot EXCEPT ![i] = new]
    BY <1>4, <1>8, <2>1
  <2> QED  BY <1>1, <1>4, <1>5, <1>6, <1>7, <2>2, <2>3, <2>4, WorkerKeeps
<1>9. CASE ~(text = Missing \/ text \in Unreadable)
  <2>1. /\ chunks \in AllPieces /\ chunks \in FreshOf(s.seen)
        /\ text # s.key[1] => s.key \in poisoned'
        /\ text = s.key[1] => chunks = Pieces(s.key[1], s.key[2]) /\ s.key[1] \notin Unreadable
    BY <1>3, <1>4, <1>5, <1>9, KeysOfLoad DEF FreshOf
  <2>2. CASE load.cached /\ chunks # NoChunks
    <3>1. PICK new : new = [s EXCEPT !.at = "open", !.out = chunks]
      OBVIOUS
    <3>2. /\ new \in Slots /\ new.at = "open" /\ new.out = chunks /\ new.key = s.key
          /\ new.seen = s.seen /\ new.failed = s.failed
      BY <2>1, <3>1 DEF Slots
    <3>3. SlotSound(new, load.paths[i])'
      BY <1>2, <1>4, <1>5, <2>1, <3>2 DEF SlotSound
    <3>4. slot' = [slot EXCEPT ![i] = new]
      BY <1>4, <1>9, <2>2, <3>1
    <3> QED  BY <1>1, <1>4, <1>5, <1>6, <1>7, <3>2, <3>3, <3>4, WorkerKeeps
  <2>3. CASE ~(load.cached /\ chunks # NoChunks)
    <3>1. PICK new : new = [s EXCEPT !.at = "done", !.out = chunks, !.fd = "none"]
      OBVIOUS
    <3>2. /\ new \in Slots /\ new.at = "done" /\ new.out = chunks /\ new.key = s.key
          /\ new.seen = s.seen /\ new.failed = s.failed
      BY <2>1, <3>1, DoneSlot
    <3>3. SlotSound(new, load.paths[i])'
      BY <1>2, <1>4, <1>5, <2>1, <3>2 DEF SlotSound, FreshOf
    <3>4. slot' = [slot EXCEPT ![i] = new]
      BY <1>4, <1>9, <2>3, <3>1
    <3> QED  BY <1>1, <1>4, <1>5, <1>6, <1>7, <3>2, <3>3, <3>4, WorkerKeeps
  <2> QED  BY <2>2, <2>3
<1> QED  BY <1>8, <1>9

\* The temporary file of the key is emptied.
LEMMA OpenTmpKeeps == ASSUME LoadInv, NEW i \in DOMAIN slot, OpenTmp(i) PROVE LoadInv'
<1>1. PICK s \in Slots : s = slot[i]
  BY DEF LoadInv, LoadTypeOK
<1>2. PICK new : new = [s EXCEPT !.at = "write", !.fd = "tmp"]
  OBVIOUS
<1>3. /\ s.at = "open" /\ slot' = [slot EXCEPT ![i] = new]
      /\ blobTmp' = [blobTmp EXCEPT ![s.key] = TornBlob]
      /\ UNCHANGED <<holds, blob, indexed, load, result, poisoned>>
  BY <1>1, <1>2 DEF OpenTmp
<1>4. /\ load \in Loads /\ SlotSound(s, load.paths[i]) /\ s.key \in Keys
      /\ blob \in [Keys -> Blobs] /\ blobTmp \in [Keys -> Blobs] /\ indexed \subseteq Keys
      /\ poisoned \subseteq Keys
  BY <1>1, <1>3, BusySlot
<1>5. TornBlob \in Blobs /\ TornBlob.mark = "torn"
  BY DEF Blobs, TornBlob, AllPieces
<1>6. blobTmp' \in [Keys -> Blobs] /\ CacheHonest'
  BY <1>3, <1>4, <1>5 DEF LoadInv, CacheHonest, Honest
<1>7. /\ new \in Slots /\ new.at = "write" /\ new.out = s.out /\ new.key = s.key
      /\ new.seen = s.seen /\ new.failed = s.failed
  BY <1>2 DEF Slots
<1>8. SlotSound(new, load.paths[i])'
  BY <1>3, <1>4, <1>7 DEF SlotSound
<1> QED  BY <1>1, <1>3, <1>4, <1>6, <1>7, <1>8, WorkerKeeps

\* The bytes of one slot are all that its descriptor's file may come to hold whole.
LEMMA WriteTmpKeeps == ASSUME LoadInv, NEW i \in DOMAIN slot, WriteTmp(i) PROVE LoadInv'
<1>1. PICK s \in Slots : s = slot[i]
  BY DEF LoadInv, LoadTypeOK
<1>2. PICK new : new = [s EXCEPT !.at = "replace", !.fd = "none"]
  OBVIOUS
<1>3. /\ s.at = "write" /\ slot' = [slot EXCEPT ![i] = new]
      /\ UNCHANGED <<holds, indexed, load, result, poisoned>>
      /\ \/ \E b \in Over(blobTmp[s.key], WholeBlob(s.out)) : blobTmp' = [blobTmp EXCEPT ![s.key] = b]
            /\ UNCHANGED blob
         \/ \E b \in Over(blob[s.key], WholeBlob(s.out)) : blob' = [blob EXCEPT ![s.key] = b]
            /\ UNCHANGED blobTmp
         \/ UNCHANGED <<blob, blobTmp>>
  BY <1>1, <1>2 DEF WriteTmp
<1>4. /\ load \in Loads /\ SlotSound(s, load.paths[i]) /\ s.key \in Keys
      /\ blob \in [Keys -> Blobs] /\ blobTmp \in [Keys -> Blobs] /\ indexed \subseteq Keys
      /\ poisoned \subseteq Keys
  BY <1>1, <1>3, BusySlot
<1>5. \A old : \A b \in Over(old, WholeBlob(s.out)) : b \in Blobs /\ b # NoBlob /\ Honest(s.key, b)
  <2>1. s.out \in AllPieces /\ (s.key \notin poisoned =>
           s.out = Pieces(s.key[1], s.key[2]) /\ s.key[1] \notin Unreadable)
    BY <1>3, <1>4 DEF SlotSound, Slots
  <2>2. /\ WholeBlob(s.out) \in Blobs /\ WholeBlob(s.out).mark = "whole"
        /\ WholeBlob(s.out).chunks = s.out
    BY <2>1 DEF Blobs, WholeBlob
  <2>3. TornBlob \in Blobs /\ TornBlob.mark = "torn" /\ NoBlob.mark = "none"
    BY DEF Blobs, TornBlob, NoBlob, AllPieces
  <2>4. Honest(s.key, WholeBlob(s.out)) /\ Honest(s.key, TornBlob)
    BY <2>1, <2>2, <2>3 DEF Honest
  <2>5. WholeBlob(s.out) # NoBlob /\ TornBlob # NoBlob
    BY <2>2, <2>3
  <2>6. \A old : \A b \in Over(old, WholeBlob(s.out)) : b = WholeBlob(s.out) \/ b = TornBlob
    BY DEF Over
  <2> QED  BY <2>2, <2>3, <2>4, <2>5, <2>6
<1>6. /\ blob' \in [Keys -> Blobs] /\ blobTmp' \in [Keys -> Blobs] /\ CacheHonest'
      /\ \A k \in Keys : blob[k] # NoBlob => blob'[k] # NoBlob
  <2>1. ASSUME NEW b \in Over(blobTmp[s.key], WholeBlob(s.out)),
               blobTmp' = [blobTmp EXCEPT ![s.key] = b], UNCHANGED blob
        PROVE  /\ blob' \in [Keys -> Blobs] /\ blobTmp' \in [Keys -> Blobs] /\ CacheHonest'
               /\ \A k \in Keys : blob[k] # NoBlob => blob'[k] # NoBlob
    BY <1>3, <1>4, <1>5, <2>1 DEF LoadInv, CacheHonest, Honest
  <2>2. ASSUME NEW b \in Over(blob[s.key], WholeBlob(s.out)),
               blob' = [blob EXCEPT ![s.key] = b], UNCHANGED blobTmp
        PROVE  /\ blob' \in [Keys -> Blobs] /\ blobTmp' \in [Keys -> Blobs] /\ CacheHonest'
               /\ \A k \in Keys : blob[k] # NoBlob => blob'[k] # NoBlob
    BY <1>3, <1>4, <1>5, <2>2 DEF LoadInv, CacheHonest, Honest
  <2>3. CASE UNCHANGED <<blob, blobTmp>>
    BY <1>3, <1>4, <2>3 DEF LoadInv, CacheHonest, Honest
  <2> QED  BY <1>3, <2>1, <2>2, <2>3
<1>7. /\ new \in Slots /\ new.at = "replace" /\ new.out = s.out /\ new.key = s.key
      /\ new.seen = s.seen /\ new.failed = s.failed
  BY <1>2 DEF Slots
<1>8. SlotSound(new, load.paths[i])'
  BY <1>3, <1>4, <1>7 DEF SlotSound
<1> QED  BY <1>1, <1>3, <1>4, <1>6, <1>7, <1>8, WorkerKeeps

\* The temporary file becomes the entry; descriptors follow the file, not the name.
LEMMA ReplaceBlobKeeps == ASSUME LoadInv, NEW i \in DOMAIN slot, ReplaceBlob(i) PROVE LoadInv'
<1>1. PICK key : key = slot[i].key
  OBVIOUS
<1>2. /\ slot[i].at = "replace" /\ blobTmp[key] # NoBlob
      /\ blob' = [blob EXCEPT ![key] = blobTmp[key]]
      /\ blobTmp' = [blobTmp EXCEPT ![key] = NoBlob]
      /\ UNCHANGED <<holds, indexed, load, result, poisoned>>
      /\ slot' = [j \in DOMAIN slot |->
                     IF j = i THEN [slot[j] EXCEPT !.at = "index"]
                     ELSE IF slot[j].key = key /\ slot[j].fd # "none"
                          THEN [slot[j] EXCEPT !.fd = IF @ = "tmp" THEN "blob" ELSE "gone"]
                          ELSE slot[j]]
  BY <1>1 DEF ReplaceBlob
<1>3. /\ load \in Loads /\ SlotSound(slot[i], load.paths[i]) /\ key \in Keys
      /\ blob \in [Keys -> Blobs] /\ blobTmp \in [Keys -> Blobs] /\ indexed \subseteq Keys
      /\ poisoned \subseteq Keys /\ slot \in [DOMAIN slot -> Slots]
      /\ DOMAIN slot \subseteq DOMAIN load.paths
  BY <1>1, <1>2, BusySlot DEF LoadInv, LoadTypeOK
<1>4. NoBlob \in Blobs /\ NoBlob.mark = "none"
  BY DEF Blobs, NoBlob, AllPieces
<1>5. /\ blob' \in [Keys -> Blobs] /\ blobTmp' \in [Keys -> Blobs]
      /\ \A k \in Keys : blob[k] # NoBlob => blob'[k] # NoBlob
      /\ blob'[key] # NoBlob
  BY <1>2, <1>3, <1>4
<1>6. CacheHonest'
  <2>1. \A k \in Keys : Honest(k, blob[k]) /\ Honest(k, blobTmp[k])
    BY DEF LoadInv, CacheHonest
  <2>2. \A k \in indexed : blob'[k] # NoBlob
    BY <1>3, <1>5 DEF LoadInv, CacheHonest
  <2>3. \A k \in Keys : Honest(k, blob'[k]) /\ Honest(k, blobTmp'[k])
    BY <1>2, <1>3, <1>4, <2>1 DEF Honest
  <2> QED  BY <1>2, <2>2, <2>3 DEF CacheHonest, Honest
<1>7. DOMAIN slot' = DOMAIN slot
  BY <1>2
<1>8. ASSUME NEW j \in DOMAIN slot
      PROVE  slot'[j] \in Slots /\ SlotSound(slot[j], load.paths[j])'
             /\ (slot[j].at = "done" => slot'[j].at = "done")
  <2>1. PICK s \in Slots : s = slot[j]
    BY <1>3
  <2>2. SlotSound(s, load.paths[j])
    BY <2>1 DEF LoadInv, SlotsSound
  <2>3. PICK new : new = slot'[j]
    OBVIOUS
  <2>4. CASE j = i
    <3>1. new = [s EXCEPT !.at = "index"] /\ s.at = "replace" /\ s.key = key
      BY <1>1, <1>2, <2>1, <2>3, <2>4
    <3>2. /\ new \in Slots /\ new.at = "index" /\ new.out = s.out /\ new.key = s.key
          /\ new.seen = s.seen /\ new.failed = s.failed
      BY <3>1 DEF Slots
    <3>3. SlotSound(new, load.paths[j])'
      BY <1>2, <1>5, <2>2, <3>1, <3>2 DEF SlotSound
    <3> QED  BY <1>2, <2>1, <2>3, <2>4, <3>2, <3>3
  <2>5. CASE j # i
    <3>1. PICK ref \in {"none", "tmp", "blob", "gone"} : new = [s EXCEPT !.fd = ref]
      <4>1. s = [s EXCEPT !.fd = s.fd] /\ s.fd \in {"none", "tmp", "blob", "gone"}
        BY DEF Slots
      <4>2. CASE s.key = key /\ s.fd # "none"
        BY <1>2, <2>1, <2>3, <2>5, <4>2
      <4>3. CASE ~(s.key = key /\ s.fd # "none")
        BY <1>2, <2>1, <2>3, <2>5, <4>1, <4>3
      <4> QED  BY <4>2, <4>3
    <3>2. /\ new \in Slots /\ new.at = s.at /\ new.out = s.out /\ new.key = s.key
          /\ new.seen = s.seen /\ new.failed = s.failed
      BY <3>1 DEF Slots
    <3>3. s.at = "index" => blob'[s.key] # NoBlob
      BY <1>5, <2>2 DEF SlotSound
    <3>4. SlotSound(new, load.paths[j])'
      BY <1>2, <2>2, <3>2, <3>3 DEF SlotSound, FreshOf
    <3> QED  BY <2>1, <2>3, <3>2, <3>4
  <2> QED  BY <2>4, <2>5
<1>9. slot' \in [DOMAIN slot' -> Slots]
  BY <1>2, <1>7, <1>8
<1>10. LoadTypeOK'
  BY <1>2, <1>3, <1>5, <1>7, <1>9 DEF LoadInv, LoadTypeOK
<1>11. SlotsSound' /\ ResultLast'
  BY <1>2, <1>7, <1>8 DEF LoadInv, SlotsSound, ResultLast
<1> QED  BY <1>6, <1>10, <1>11 DEF LoadInv

\* The entry is listed, and what was parsed is what the worker ends with.
LEMMA EndKeeps ==
  ASSUME LoadInv, NEW i \in DOMAIN slot, Done(i, slot[i].out),
         slot[i].at \in {"open", "write", "replace", "index"},
         UNCHANGED <<holds, blob, blobTmp, load, result, poisoned>>,
         indexed' = indexed \/ (slot[i].at = "index" /\ indexed' = indexed \cup {slot[i].key})
  PROVE  LoadInv'
<1>1. PICK s \in Slots : s = slot[i]
  BY DEF LoadInv, LoadTypeOK
<1>2. PICK new : new = [s EXCEPT !.at = "done", !.out = s.out, !.fd = "none"]
  OBVIOUS
<1>3. slot' = [slot EXCEPT ![i] = new]
  BY <1>1, <1>2 DEF Done
<1>4. /\ load \in Loads /\ SlotSound(s, load.paths[i]) /\ s.key \in Keys /\ s.key[1] # Missing
      /\ blob \in [Keys -> Blobs] /\ blobTmp \in [Keys -> Blobs] /\ indexed \subseteq Keys
      /\ poisoned \subseteq Keys /\ s.key[2] = load.size /\ s.key[1] \in s.seen /\ ~s.failed
      /\ s.out \in AllPieces
  BY <1>1, BusySlot DEF Slots
<1>5. indexed' \subseteq Keys /\ \A k \in indexed' : blob[k] # NoBlob
  BY <1>1, <1>4 DEF LoadInv, CacheHonest, SlotSound
<1>6. CacheHonest'
  BY <1>5 DEF LoadInv, CacheHonest, Honest
<1>7. /\ new \in Slots /\ new.at = "done" /\ new.out = s.out /\ new.key = s.key
      /\ new.seen = s.seen /\ new.failed = s.failed
  BY <1>2, <1>4, DoneSlot
<1>8. s.out \in FreshOf(s.seen) \/ s.key \in poisoned
  BY <1>1, <1>4 DEF SlotSound, FreshOf
<1>9. SlotSound(new, load.paths[i])'
  BY <1>4, <1>7, <1>8 DEF SlotSound, FreshOf
<1> QED  BY <1>1, <1>3, <1>4, <1>5, <1>6, <1>7, <1>9, WorkerKeeps

\* A load begins with a slot for each of its paths.
LEMMA StartKeeps == ASSUME LoadInv, Start PROVE LoadInv'
<1>1. PICK l \in Loads : load' = l /\ slot' = [i \in DOMAIN l.paths |-> Queued(l.paths[i])]
  BY DEF Start
<1>2. /\ UNCHANGED <<holds, blob, blobTmp, indexed, poisoned>> /\ result'.done = FALSE
  BY DEF Start, NoLoad
<1>3. l.paths \in Seq(Files) /\ \A i \in DOMAIN l.paths : l.paths[i] \in Files
  BY LoadAssumption
<1>4. ASSUME NEW f \in Files
      PROVE  Queued(f) \in Slots /\ Queued(f).at = "queued" /\ Queued(f).failed = FALSE
             /\ Queued(f).seen = {holds[f]}
  <2>1. holds[f] \in Texts \cup {Missing}
    BY DEF LoadInv, LoadTypeOK
  <2>2. NoChunks \in AllPieces /\ <<Missing, 0>> \in (Texts \cup {Missing}) \X (Sizes \cup {0})
    BY DEF AllPieces
  <2> QED  BY <2>1, <2>2 DEF Queued, Slots
<1>5. \A i \in DOMAIN slot' : slot'[i] = Queued(l.paths[i]) /\ l.paths[i] \in Files
  BY <1>1, <1>3
<1>6. DOMAIN slot' = DOMAIN l.paths /\ slot' \in [DOMAIN slot' -> Slots]
  BY <1>1, <1>3, <1>4
<1>7. LoadTypeOK'
  BY <1>1, <1>2, <1>6 DEF LoadInv, LoadTypeOK
<1>8. SlotsSound'
  <2> SUFFICES ASSUME NEW i \in DOMAIN slot' PROVE SlotSound(slot[i], load.paths[i])'
    BY <1>1 DEF SlotsSound
  <2>1. PICK p \in Files : p = l.paths[i]
    BY <1>5
  <2>2. PICK s : s = Queued(p)
    OBVIOUS
  <2>3. s.at = "queued" /\ s.failed = FALSE /\ s.seen = {holds[p]}
    BY <1>4, <2>2
  <2>4. SlotSound(s, p)'
    BY <1>2, <2>3 DEF SlotSound
  <2> QED  BY <1>1, <1>5, <2>1, <2>2, <2>4
<1>9. CacheHonest' /\ ResultLast'
  BY <1>2 DEF LoadInv, CacheHonest, Honest, ResultLast
<1> QED  BY <1>7, <1>8, <1>9 DEF LoadInv

\* A file changes under a load.
LEMMA EditKeeps == ASSUME LoadInv, Edit PROVE LoadInv'
<1>1. PICK f \in Files, t \in Texts \cup {Missing} :
        /\ holds' = [holds EXCEPT ![f] = t]
        /\ slot' = [i \in DOMAIN slot |->
                     IF load.paths[i] = f THEN [slot[i] EXCEPT !.seen = @ \cup {t}] ELSE slot[i]]
  BY DEF Edit
<1>2. UNCHANGED <<blob, blobTmp, indexed, load, result, poisoned>>
  BY DEF Edit
<1>3. /\ load \in Loads /\ slot \in [DOMAIN slot -> Slots] /\ DOMAIN slot \subseteq DOMAIN load.paths
      /\ holds \in [Files -> Texts \cup {Missing}]
  BY DEF LoadInv, LoadTypeOK
<1>4. DOMAIN slot' = DOMAIN slot
  BY <1>1
<1>5. ASSUME NEW i \in DOMAIN slot
      PROVE  slot'[i] \in Slots /\ SlotSound(slot[i], load.paths[i])' /\ slot'[i].at = slot[i].at
  <2>1. PICK s \in Slots : s = slot[i]
    BY <1>3
  <2>2. PICK p \in Files : p = load.paths[i]
    BY <1>3, KeysOfLoad
  <2>3. SlotSound(s, p)
    BY <2>1, <2>2 DEF LoadInv, SlotsSound
  <2>4. PICK seen \in SUBSET (Texts \cup {Missing}) :
          /\ slot'[i] = [s EXCEPT !.seen = seen] /\ s.seen \subseteq seen /\ holds'[p] \in seen
    <3>1. s = [s EXCEPT !.seen = s.seen] /\ s.seen \in SUBSET (Texts \cup {Missing})
      BY DEF Slots
    <3>2. CASE p = f
      <4>1. slot'[i] = [s EXCEPT !.seen = s.seen \cup {t}] /\ holds'[p] = t
        BY <1>1, <1>3, <2>1, <2>2, <3>2
      <4>2. s.seen \cup {t} \in SUBSET (Texts \cup {Missing})
        BY <3>1
      <4> QED  BY <4>1, <4>2
    <3>3. CASE p # f
      <4>1. holds'[p] = holds[p] /\ slot'[i] = s
        BY <1>1, <1>3, <2>1, <2>2, <3>3
      <4> QED  BY <2>3, <3>1, <4>1 DEF SlotSound
    <3> QED  BY <3>2, <3>3
  <2>5. PICK new : new = slot'[i]
    OBVIOUS
  <2>6. /\ new \in Slots /\ new.at = s.at /\ new.out = s.out /\ new.key = s.key
        /\ new.seen = seen /\ new.failed = s.failed
    BY <2>4, <2>5 DEF Slots
  <2>7. FreshOf(s.seen) \subseteq FreshOf(seen)
    BY <2>4 DEF FreshOf
  <2>8. FreshOf(seen)' = FreshOf(seen)
    BY <1>2 DEF FreshOf
  <2>9. SlotSound(new, p)'
    BY <1>2, <2>3, <2>4, <2>6, <2>7, <2>8 DEF SlotSound
  <2> QED  BY <1>2, <2>1, <2>2, <2>5, <2>6, <2>9
<1>6. slot' \in [DOMAIN slot' -> Slots]
  BY <1>1, <1>4, <1>5
<1>7. LoadTypeOK'
  BY <1>1, <1>2, <1>3, <1>4, <1>6 DEF LoadInv, LoadTypeOK
<1>8. SlotsSound' /\ ResultLast'
  BY <1>2, <1>4, <1>5 DEF LoadInv, SlotsSound, ResultLast
<1>9. CacheHonest'
  BY <1>2 DEF LoadInv, CacheHonest, Honest
<1> QED  BY <1>7, <1>8, <1>9 DEF LoadInv

LEMMA LoadInvStep == LoadInv /\ [LoadNext]_loadVars => LoadInv'
<1> SUFFICES ASSUME LoadInv, [LoadNext]_loadVars PROVE LoadInv'
  OBVIOUS
<1>1. CASE Start
  BY <1>1, StartKeeps
<1>2. ASSUME NEW i \in DOMAIN slot, WorkerStep(i) PROVE LoadInv'
  <2>1. CASE Take(i)
    BY <2>1, TakeKeeps
  <2>2. CASE Probe(i)
    BY <2>2, ProbeKeeps
  <2>3. CASE Parse(i)
    BY <2>3, ParseKeeps
  <2>4. CASE OpenTmp(i)
    BY <2>4, OpenTmpKeeps
  <2>5. CASE WriteTmp(i)
    BY <2>5, WriteTmpKeeps
  <2>6. CASE ReplaceBlob(i)
    BY <2>6, ReplaceBlobKeeps
  <2>7. CASE Index(i)
    <3>1. indexed' = indexed \/ indexed' = indexed \cup {slot[i].key}
      BY <2>7 DEF Index
    <3> QED  BY <2>7, <3>1, EndKeeps DEF Index
  <2>8. CASE StoreFails(i)
    BY <2>8, EndKeeps DEF StoreFails
  <2> QED  BY <1>2, <2>1, <2>2, <2>3, <2>4, <2>5, <2>6, <2>7, <2>8 DEF WorkerStep
<1>3. CASE Collect
  BY <1>3 DEF Collect, LoadInv, LoadTypeOK, CacheHonest, Honest, SlotsSound, SlotSound, FreshOf, ResultLast
<1>4. CASE Edit
  BY <1>4, EditKeeps
<1>5. CASE Kill
  <2>1. DOMAIN slot' = {}
    BY <1>5, Zenon DEF Kill
  <2>2. slot' \in [DOMAIN slot' -> Slots]
    BY <1>5, <2>1 DEF Kill
  <2>3. UNCHANGED <<holds, blob, blobTmp, indexed, load, poisoned>>
    BY <1>5 DEF Kill
  <2> QED  BY <2>1, <2>2, <2>3 DEF LoadInv, LoadTypeOK, CacheHonest, Honest, SlotsSound, ResultLast
<1>6. CASE UNCHANGED loadVars
  BY <1>6 DEF loadVars, LoadInv, LoadTypeOK, CacheHonest, Honest, SlotsSound, SlotSound, FreshOf, ResultLast
<1> QED  BY <1>1, <1>2, <1>3, <1>4, <1>5, <1>6 DEF LoadNext

LEMMA LoadInvSound == LoadInv => CorpusSound
<1> SUFFICES ASSUME LoadInv PROVE CorpusSound
  OBVIOUS
<1>1. \A k \in Keys \ poisoned : blob[k].mark = "whole" => blob[k].chunks = Pieces(k[1], k[2])
  BY DEF LoadInv, CacheHonest, Honest
<1>2. indexed \subseteq {k \in Keys : blob[k] # NoBlob}
  BY DEF LoadInv, LoadTypeOK, CacheHonest
<1>3. result.done => \A i \in DOMAIN slot :
            IF slot[i].failed THEN slot[i].seen \cap ({Missing} \cup Unreadable) # {}
            ELSE slot[i].out \in Fresh(i) \/ slot[i].key \in poisoned
  <2> SUFFICES ASSUME result.done, NEW i \in DOMAIN slot
        PROVE  IF slot[i].failed THEN slot[i].seen \cap ({Missing} \cup Unreadable) # {}
               ELSE slot[i].out \in Fresh(i) \/ slot[i].key \in poisoned
    OBVIOUS
  <2>1. slot[i].at = "done" /\ SlotSound(slot[i], load.paths[i])
    BY DEF LoadInv, ResultLast, SlotsSound
  <2> QED  BY <2>1 DEF SlotSound, FreshOf, Fresh
<1> QED  BY <1>1, <1>2, <1>3 DEF CorpusSound

\* A load returns what its files held while it ran, whatever the cache holds, whoever
\* writes it at the same time, and whenever the process was killed before.
THEOREM CorpusSoundHolds == LoadSpec => []CorpusSound
<1>1. LoadInit => LoadInv
  BY LoadInvInit
<1>2. LoadInv /\ [LoadNext]_loadVars => LoadInv'
  BY LoadInvStep
<1>3. LoadInv => CorpusSound
  BY LoadInvSound
<1> QED
  BY <1>1, <1>2, <1>3, PTL DEF LoadSpec

-----------------------------------------------------------------------------
(* ChatRepl *)

\* The types of the explain records, the totals and the turn in progress.
Records == [asked : Nat, index : Nat, calls : Seq(Nat), cost : Nat, before : Nat,
            spent : Nat, summaries : Nat]
States == [cost : Nat, turns : Nat, alerted : BOOLEAN, explain : Seq(Records)]
TurnRecords ==
  [asked : Nat, outer : Nat, events : Nat, appended : BOOLEAN, index : Nat, calls : Seq(Nat),
   cost : Nat, before : Nat, spent : Nat, summaries : Nat]

ReplTypeOK ==
  /\ at \in {"start", "prompt", "turn", "leaving", "ended", "dead"} /\ args \in Options
  /\ session \in Nat /\ commands \in Nat /\ corpus \in Nat
  /\ state \in States /\ turn \in TurnRecords /\ turn.asked = asked /\ turn.index > 0
  /\ printed \in [alerts : Nat, budgets : Nat] /\ logged \in [events : Nat, budgets : Nat]
  /\ exit \in {Running, 0, 1, 2}

\* The turn in progress hears its own run only, and its record is of it; the records before
\* are of earlier turns in order, each with calls and a cost of its own.
OwnCalls ==
  /\ at = "turn" => turn.asked > 0
  /\ turn.outer = 0 \/ turn.outer = OuterRun(turn.asked)
  /\ \A c \in Range(turn.calls) : c = OuterRun(turn.asked)
  /\ turn.appended <=> turn.summaries > 0
  /\ turn.cost <= turn.spent /\ (turn.summaries <= 1 => turn.cost = turn.spent)
  /\ \A i \in DOMAIN state.explain : OwnRecord(state.explain[i]) /\ state.explain[i].asked < turn.asked
  /\ \A i, j \in DOMAIN state.explain : i < j => state.explain[i].asked < state.explain[j].asked

\* The records of earlier turns add up to what the session had come to before this one, and
\* the totals go on from there by what this turn has added.
RecordsCounted ==
  /\ AddUp(state.explain, turn.before, turn.index - 1)
  /\ state.cost = turn.before + turn.spent /\ state.turns + 1 = turn.index + turn.summaries
  /\ turn.summaries = 0 => turn.spent = 0

\* What the corpus does to the pattern.
PatternKept == pattern = IF args.pattern = "chat" /\ corpus # 0 THEN "research" ELSE args.pattern

\* The total and what was said of it.
TotalSaid ==
  /\ printed.alerts = IF state.alerted THEN 1 ELSE 0
  /\ args.alert > 0 => (state.alerted <=> state.cost >= args.alert)
  /\ args.log => printed.budgets = logged.budgets
  /\ PatternKept

\* No turn starts over the cap, and the budget line is said by what leaves over it.
CapKept ==
  /\ at = "start" => state.cost = 0
  /\ at \in {"start", "prompt"} => ~BudgetExceeded(state)
  /\ at \in {"start", "prompt", "turn"} => printed.budgets = 0
  /\ at = "leaving" => printed.budgets = IF BudgetExceeded(state) THEN 1 ELSE 0
  /\ at \notin {"ended", "dead"} => exit = Running
  /\ at = "dead" => exit = 1
  /\ exit \in {0, 2} => (exit = 2 <=> printed.budgets = 1)

ReplInv == ReplTypeOK /\ OwnCalls /\ RecordsCounted /\ TotalSaid /\ CapKept

\* The limits of a command line.
LEMMA Limits ==
  ASSUME args \in Options
  PROVE  /\ args.cap \in Nat /\ args.alert \in Nat
         /\ \A s : BudgetExceeded(s) <=> args.cap > 0 /\ s.cost >= args.cap
         /\ \A s : AlertDue(s) <=> args.alert > 0 /\ ~s.alerted /\ s.cost >= args.alert
  BY ReplAssumption DEF BudgetExceeded, AlertDue, Limit

LEMMA ReplInvInit == ReplInit => ReplInv
<1> SUFFICES ASSUME ReplInit PROVE ReplInv
  OBVIOUS
<1>1. /\ at = "start" /\ args \in Options /\ session = 0 /\ corpus = 0 /\ pattern = args.pattern
      /\ state = [cost |-> 0, turns |-> 0, alerted |-> FALSE, explain |-> <<>>]
      /\ turn = [asked |-> 0, outer |-> 0, events |-> 0, appended |-> FALSE, index |-> 1,
                 calls |-> <<>>, cost |-> 0, before |-> 0, spent |-> 0, summaries |-> 0]
      /\ asked = 0 /\ commands = 0 /\ printed = [alerts |-> 0, budgets |-> 0]
      /\ logged = [events |-> 0, budgets |-> 0] /\ exit = Running
  BY DEF ReplInit, NewTurn
<1>2. args.cap \in Nat /\ args.alert \in Nat /\ ~BudgetExceeded(state)
  BY <1>1, Limits
<1>3. ReplTypeOK
  BY <1>1 DEF ReplTypeOK, States, TurnRecords
<1>4. OwnCalls /\ RecordsCounted /\ TotalSaid
  BY <1>1, <1>2 DEF OwnCalls, RecordsCounted, TotalSaid, PatternKept, AddUp, Range
<1>5. CapKept
  BY <1>1, <1>2 DEF CapKept, Running
<1> QED  BY <1>3, <1>4, <1>5 DEF ReplInv

\* What a step that leaves the session's totals and its turn alone keeps.
LEMMA AsideKeeps ==
  ASSUME ReplInv, UNCHANGED <<args, state, turn, asked, printed, logged>>,
         at' \in {"start", "prompt", "turn", "leaving", "ended", "dead"},
         session' \in Nat, commands' \in Nat, corpus' \in Nat, exit' \in {Running, 0, 1, 2},
         PatternKept',
         at' = "turn" => at = "turn",
         CapKept'
  PROVE  ReplInv'
<1>1. ReplTypeOK'
  BY DEF ReplInv, ReplTypeOK
<1>2. OwnCalls'
  BY DEF ReplInv, OwnCalls, OwnRecord
<1>3. RecordsCounted' /\ TotalSaid'
  BY DEF ReplInv, RecordsCounted, AddUp, TotalSaid
<1> QED  BY <1>1, <1>2, <1>3 DEF ReplInv

\* The steps at the prompt, and the ends.
LEMMA PromptKeeps ==
  ASSUME ReplInv,
         Launch \/ Leave \/ Clear \/ LoadCommand \/ ExplainCommand \/ CommandRaises
           \/ Interrupted \/ Exit
  PROVE  ReplInv'
<1> USE DEF Command, Loaded
<1>1. /\ args \in Options /\ session \in Nat /\ commands \in Nat /\ corpus \in Nat
      /\ exit \in {Running, 0, 1, 2} /\ PatternKept /\ CapKept
      /\ args.pattern \in {"chat", "plan", "research"}
  BY ReplAssumption DEF ReplInv, ReplTypeOK, TotalSaid
<1>2. UNCHANGED <<args, state, turn, asked, printed, logged>>
  BY DEF Launch, Leave, Clear, LoadCommand, ExplainCommand, CommandRaises, Interrupted, Exit
<1>3. BudgetExceeded(state)' = BudgetExceeded(state)
  BY <1>2 DEF BudgetExceeded, Limit
<1>4. CASE Launch
  <2>1. at' = "prompt" /\ UNCHANGED <<session, exit, commands>> /\ at = "start"
    BY <1>4 DEF Launch
  <2>2. corpus' \in Nat /\ PatternKept'
    BY <1>1, <1>4 DEF Launch, PatternKept
  <2>3. CapKept'
    BY <1>1, <1>2, <1>3, <2>1 DEF CapKept, Running
  <2> QED  BY <1>1, <1>2, <2>1, <2>2, <2>3, AsideKeeps
<1>5. CASE Leave
  <2>1. at' = "leaving" /\ UNCHANGED <<session, exit, commands, corpus, pattern>> /\ at = "prompt"
    BY <1>5 DEF Leave
  <2>2. CapKept'
    BY <1>1, <1>2, <1>3, <2>1 DEF CapKept, Running
  <2>3. PatternKept'
    BY <1>1, <1>2, <2>1 DEF PatternKept
  <2> QED  BY <1>1, <1>2, <2>1, <2>2, <2>3, AsideKeeps
<1>6. CASE Clear \/ LoadCommand \/ ExplainCommand
  <2>1. UNCHANGED <<at, exit>> /\ at = "prompt" /\ commands' = commands + 1 /\ session' \in Nat
    BY <1>1, <1>6 DEF Clear, LoadCommand, ExplainCommand
  <2>2. corpus' \in Nat /\ PatternKept'
    BY <1>1, <1>2, <1>6 DEF Clear, LoadCommand, ExplainCommand, PatternKept
  <2>3. CapKept'
    BY <1>1, <1>2, <1>3, <2>1 DEF CapKept
  <2> QED  BY <1>1, <1>2, <2>1, <2>2, <2>3, AsideKeeps
<1>7. CASE CommandRaises \/ Interrupted
  <2>1. /\ at' = "dead" /\ exit' = 1 /\ UNCHANGED <<session, corpus, pattern>>
        /\ commands' \in Nat
    BY <1>1, <1>7 DEF CommandRaises, Interrupted
  <2>2. CapKept'
    BY <1>1, <1>2, <1>3, <2>1 DEF CapKept, Running
  <2>3. PatternKept'
    BY <1>1, <1>2, <2>1 DEF PatternKept
  <2> QED  BY <1>1, <1>2, <2>1, <2>2, <2>3, AsideKeeps
<1>8. CASE Exit
  <2>1. /\ at = "leaving" /\ at' = "ended" /\ UNCHANGED <<session, corpus, pattern, commands>>
        /\ exit' = IF BudgetExceeded(state) THEN 2 ELSE 0
    BY <1>8 DEF Exit
  <2>2. CapKept'
    BY <1>1, <1>2, <1>3, <2>1 DEF CapKept, Running
  <2>3. PatternKept'
    BY <1>1, <1>2, <2>1 DEF PatternKept
  <2> QED  BY <1>1, <1>2, <2>1, <2>2, <2>3, AsideKeeps
<1> QED  BY <1>4, <1>5, <1>6, <1>7, <1>8

\* A record behind the others: the sums go on.
LEMMA AddUpGoesOn ==
  ASSUME NEW rs \in Seq(Records), NEW total \in Nat, NEW turns \in Nat, AddUp(rs, total, turns),
         NEW r \in Records, r.before = total, r.index = turns + 1
  PROVE  AddUp(Append(rs, r), total + r.spent, turns + r.summaries)
<1>a. Append(rs, r) \in Seq(Records)
  OBVIOUS
<1>1. PICK as \in Seq(Records) : as = Append(rs, r)
  BY <1>a, Zenon
<1>2. /\ Len(as) = Len(rs) + 1 /\ as[Len(rs) + 1] = r /\ \A i \in DOMAIN rs : as[i] = rs[i]
      /\ DOMAIN rs = 1..Len(rs) /\ DOMAIN as = 1..(Len(rs) + 1) /\ Len(rs) \in Nat
  BY <1>1
<1>3. as # <<>>
  <2>1. Len(as) # 0 /\ Len(<<>>) = 0
    BY <1>2
  <2> QED  BY <2>1, Zenon
<1>4. ASSUME NEW i \in DOMAIN as
      PROVE  /\ i = 1 => as[i].before = 0 /\ as[i].index = 1
             /\ as[i].before + as[i].spent = IF i = Len(as) THEN total + r.spent ELSE as[i + 1].before
             /\ as[i].index + as[i].summaries =
                  IF i = Len(as) THEN turns + r.summaries + 1 ELSE as[i + 1].index
  <2>1. CASE i = Len(rs) + 1
    <3>1. as[i] = r /\ i = Len(as)
      BY <1>2, <2>1
    <3>2. i = 1 => rs = <<>>
      <4>1. i = 1 => Len(rs) = 0
        BY <1>2, <2>1
      <4>2. Len(rs) = 0 => rs = <<>>
        OBVIOUS
      <4> QED  BY <4>1, <4>2
    <3>3. r.index \in Nat /\ r.summaries \in Nat
      BY DEF Records
    <3>4. rs = <<>> => total = 0 /\ turns = 0
      BY DEF AddUp
    <3>5. r.before + r.spent = total + r.spent /\ r.index + r.summaries = turns + r.summaries + 1
      BY <3>3
    <3>6. i = 1 => r.before = 0 /\ r.index = 1
      BY <3>2, <3>4
    <3> QED  BY <3>1, <3>5, <3>6
  <2>2. CASE i # Len(rs) + 1
    <3>1. i \in DOMAIN rs /\ as[i] = rs[i] /\ i # Len(as)
      <4>1. i \in 1..(Len(rs) + 1) /\ i # Len(rs) + 1
        BY <1>2, <2>2
      <4>2. i \in 1..Len(rs)
        BY <1>2, <4>1
      <4> QED  BY <1>2, <2>2, <4>2
    <3>2. CASE i = Len(rs)
      <4>1. /\ as[i + 1] = r /\ rs[i].before + rs[i].spent = total
            /\ rs[i].index + rs[i].summaries = turns + 1
            /\ i = 1 => rs[i].before = 0 /\ rs[i].index = 1
        BY <1>2, <3>1, <3>2 DEF AddUp
      <4> QED  BY <3>1, <4>1
    <3>3. CASE i # Len(rs)
      <4>1. i + 1 \in DOMAIN rs
        BY <1>2, <3>1, <3>3
      <4>2. as[i + 1] = rs[i + 1]
        BY <1>2, <4>1
      <4>3. /\ rs[i].before + rs[i].spent = rs[i + 1].before
            /\ rs[i].index + rs[i].summaries = rs[i + 1].index
            /\ i = 1 => rs[i].before = 0 /\ rs[i].index = 1
        BY <3>1, <3>3 DEF AddUp
      <4> QED  BY <3>1, <4>2, <4>3
    <3> QED  BY <3>2, <3>3
  <2> QED  BY <2>1, <2>2
<1> QED  BY <1>1, <1>3, <1>4 DEF AddUp

LEMMA Renumbered ==
  ASSUME NEW i \in Nat, NEW m \in Nat, NEW t \in Nat, t + 1 = i + m
  PROVE  (i - 1) + m = t /\ (t + 1) + 1 = i + (m + 1) /\ m + 1 # 0
  OBVIOUS

\* The records, that of the turn in progress among them.
LEMMA ExplainIs ==
  ASSUME ReplInv
  PROVE  /\ ExplainTurns \in Seq(Records) /\ AddUp(ExplainTurns, state.cost, state.turns)
         /\ \A i \in DOMAIN ExplainTurns :
              OwnRecord(ExplainTurns[i]) /\ ExplainTurns[i].asked <= turn.asked
         /\ \A i, j \in DOMAIN ExplainTurns : i < j => ExplainTurns[i].asked < ExplainTurns[j].asked
<1>1. /\ state.explain \in Seq(Records) /\ turn \in TurnRecords /\ state.cost \in Nat
      /\ state.turns \in Nat
  BY DEF ReplInv, ReplTypeOK, States
<1>2. /\ turn.asked \in Nat /\ turn.index \in Nat /\ turn.calls \in Seq(Nat) /\ turn.cost \in Nat
      /\ turn.before \in Nat /\ turn.spent \in Nat /\ turn.summaries \in Nat
      /\ turn.appended \in BOOLEAN
  BY <1>1 DEF TurnRecords
<1>3. /\ AddUp(state.explain, turn.before, turn.index - 1)
      /\ state.cost = turn.before + turn.spent /\ state.turns + 1 = turn.index + turn.summaries
      /\ turn.summaries = 0 => turn.spent = 0
  BY DEF ReplInv, RecordsCounted
<1>4. /\ \A i \in DOMAIN state.explain :
           OwnRecord(state.explain[i]) /\ state.explain[i].asked < turn.asked
      /\ \A i, j \in DOMAIN state.explain : i < j => state.explain[i].asked < state.explain[j].asked
      /\ turn.appended <=> turn.summaries > 0
  BY DEF ReplInv, OwnCalls
<1>a. \A i \in DOMAIN state.explain : state.explain[i].asked \in Nat
  <2>1. \A i \in DOMAIN state.explain : state.explain[i] \in Records
    BY <1>1
  <2> QED  BY <2>1 DEF Records
<1>5. CASE ~turn.appended
  <2>1. ExplainTurns = state.explain
    BY <1>5 DEF ExplainTurns
  <2>2. state.cost = turn.before /\ state.turns = turn.index - 1
    BY <1>1, <1>2, <1>3, <1>4, <1>5
  <2> QED  BY <1>1, <1>2, <1>3, <1>4, <1>a, <2>1, <2>2
<1>6. CASE turn.appended
  <2>1. PICK r : r = RecordOf(turn)
    OBVIOUS
  <2>2. /\ r \in Records /\ r.asked = turn.asked /\ r.index = turn.index /\ r.calls = turn.calls
        /\ r.cost = turn.cost /\ r.before = turn.before /\ r.spent = turn.spent
        /\ r.summaries = turn.summaries
    BY <1>2, <2>1 DEF RecordOf, Records
  <2>3. ExplainTurns = Append(state.explain, r)
    BY <1>6, <2>1 DEF ExplainTurns
  <2>4. OwnRecord(r)
    BY <1>4, <1>6, <2>2 DEF OwnRecord, ReplInv, OwnCalls
  <2>5. turn.index - 1 \in Nat /\ r.index = (turn.index - 1) + 1
    <3>1. turn.index > 0
      BY DEF ReplInv, ReplTypeOK
    <3> QED  BY <1>2, <2>2, <3>1
  <2>6. AddUp(ExplainTurns, turn.before + r.spent, (turn.index - 1) + r.summaries)
    BY <1>1, <1>2, <1>3, <2>2, <2>3, <2>5, AddUpGoesOn
  <2>7. turn.before + r.spent = state.cost /\ (turn.index - 1) + r.summaries = state.turns
    <3>1. r.spent = turn.spent /\ r.summaries = turn.summaries
      BY <2>2
    <3>2. state.cost = turn.before + turn.spent /\ state.turns + 1 = turn.index + turn.summaries
      BY <1>3
    <3>3. (turn.index - 1) + turn.summaries = state.turns
      <4>1. state.turns \in Nat /\ turn.index \in Nat /\ turn.summaries \in Nat
        BY <1>1, <1>2
      <4>2. state.turns + 1 = turn.index + turn.summaries
        BY <1>3
      <4>3. PICK t \in Nat, i \in Nat, m \in Nat : t = state.turns /\ i = turn.index /\ m = turn.summaries
        BY <4>1
      <4>4. t + 1 = i + m
        BY <4>2, <4>3
      <4> QED  BY <4>3, <4>4, Renumbered
    <3> QED  BY <3>1, <3>2, <3>3
  <2>8. AddUp(ExplainTurns, state.cost, state.turns)
    BY <2>6, <2>7
  <2>9. /\ ExplainTurns \in Seq(Records)
        /\ DOMAIN ExplainTurns = 1..(Len(state.explain) + 1) /\ DOMAIN state.explain = 1..Len(state.explain)
        /\ ExplainTurns[Len(state.explain) + 1] = r /\ Len(state.explain) \in Nat
        /\ \A i \in DOMAIN state.explain : ExplainTurns[i] = state.explain[i]
    BY <1>1, <2>2, <2>3
  <2>10. \A i \in DOMAIN ExplainTurns : i \in DOMAIN state.explain \/ i = Len(state.explain) + 1
    BY <2>9
  <2>11. \A i \in DOMAIN ExplainTurns :
           OwnRecord(ExplainTurns[i]) /\ ExplainTurns[i].asked <= turn.asked
    <3> SUFFICES ASSUME NEW i \in DOMAIN ExplainTurns
                 PROVE  OwnRecord(ExplainTurns[i]) /\ ExplainTurns[i].asked <= turn.asked
      OBVIOUS
    <3>1. CASE i \in DOMAIN state.explain
      <4>1. /\ OwnRecord(state.explain[i]) /\ state.explain[i].asked < turn.asked
            /\ state.explain[i].asked \in Nat /\ ExplainTurns[i] = state.explain[i]
        BY <1>4, <1>a, <2>9, <3>1
      <4> QED  BY <1>2, <4>1
    <3>2. CASE i = Len(state.explain) + 1
      BY <1>2, <2>2, <2>4, <2>9, <3>2
    <3> QED  BY <2>10, <3>1, <3>2
  <2>12. \A i, j \in DOMAIN ExplainTurns : i < j => ExplainTurns[i].asked < ExplainTurns[j].asked
    <3> SUFFICES ASSUME NEW i \in DOMAIN ExplainTurns, NEW j \in DOMAIN ExplainTurns, i < j
                 PROVE  ExplainTurns[i].asked < ExplainTurns[j].asked
      OBVIOUS
    <3>1. i \in DOMAIN state.explain
      BY <2>9
    <3>2. CASE j \in DOMAIN state.explain
      BY <1>4, <2>9, <3>1, <3>2
    <3>3. CASE j = Len(state.explain) + 1
      BY <1>4, <2>2, <2>9, <3>1, <3>3
    <3> QED  BY <2>10, <3>2, <3>3
  <2> QED  BY <2>8, <2>9, <2>11, <2>12
<1> QED  BY <1>2, <1>5, <1>6

\* A message: the record of the turn before stays, and the new turn goes on from the totals.
LEMMA SendKeeps == ASSUME ReplInv, Send PROVE ReplInv'
<1>1. /\ at = "prompt" /\ at' = "turn" /\ asked' = asked + 1
      /\ turn' = [asked |-> asked + 1, outer |-> 0, events |-> 0, appended |-> FALSE,
                  index |-> state.turns + 1, calls |-> <<>>, cost |-> 0, before |-> state.cost,
                  spent |-> 0, summaries |-> 0]
      /\ state' = [state EXCEPT !.explain = ExplainTurns]
      /\ UNCHANGED <<args, session, corpus, pattern, commands, printed, logged, exit>>
  BY DEF Send, MayAsk, NewTurn
<1>2. /\ asked \in Nat /\ turn.asked = asked /\ state \in States /\ state.turns \in Nat
      /\ state.cost \in Nat
  BY DEF ReplInv, ReplTypeOK, TurnRecords, States
<1>3. /\ turn' \in TurnRecords /\ turn'.asked = asked + 1 /\ turn'.outer = 0 /\ turn'.calls = <<>>
      /\ turn'.appended = FALSE /\ turn'.summaries = 0 /\ turn'.spent = 0 /\ turn'.cost = 0
      /\ turn'.before = state.cost /\ turn'.index = state.turns + 1
  BY <1>1, <1>2 DEF TurnRecords
<1>4. PICK kept \in Seq(Records) : kept = ExplainTurns
  BY ExplainIs
<1>5. /\ state' \in States /\ state'.cost = state.cost /\ state'.turns = state.turns
      /\ state'.alerted = state.alerted /\ state'.explain = kept
  BY <1>1, <1>2, <1>4 DEF States
<1>6. ReplTypeOK'
  BY <1>1, <1>2, <1>3, <1>5 DEF ReplInv, ReplTypeOK
<1>7. \A i \in DOMAIN kept : OwnRecord(kept[i]) /\ kept[i].asked < asked + 1
  <2>1. \A i \in DOMAIN kept : kept[i] \in Records /\ OwnRecord(kept[i]) /\ kept[i].asked <= asked
    BY <1>2, <1>4, ExplainIs
  <2> QED  BY <1>2, <2>1 DEF Records
<1>8. OwnCalls'
  <2>1. \A i, j \in DOMAIN kept : i < j => kept[i].asked < kept[j].asked
    BY <1>4, ExplainIs
  <2>2. Range(turn'.calls) = {}
    BY <1>3 DEF Range
  <2> QED  BY <1>1, <1>2, <1>3, <1>5, <1>7, <2>1, <2>2 DEF OwnCalls, OwnRecord
<1>9. RecordsCounted'
  <2>1. AddUp(kept, state.cost, state.turns)
    BY <1>4, ExplainIs
  <2>2. state.turns = turn'.index - 1
    BY <1>2, <1>3
  <2>3. AddUp(kept, turn'.before, turn'.index - 1)
    BY <1>3, <2>1, <2>2
  <2> QED  BY <1>2, <1>3, <1>5, <2>3 DEF RecordsCounted, AddUp
<1>10. TotalSaid'
  BY <1>1, <1>5 DEF ReplInv, TotalSaid, PatternKept
<1>11. CapKept'
  BY <1>1 DEF ReplInv, CapKept
<1> QED  BY <1>6, <1>8, <1>9, <1>10, <1>11 DEF ReplInv

\* What an event leaves of the turn whatever it is of.
SameRecord(t, u) ==
  /\ u.asked = t.asked /\ u.index = t.index /\ u.cost = t.cost /\ u.before = t.before
  /\ u.spent = t.spent /\ u.summaries = t.summaries /\ u.appended = t.appended

\* What the next event leaves of the turn; and who is heard of it.
LEMMA HeardTurn ==
  ASSUME ReplInv, at = "turn"
  PROVE  /\ Heard \in TurnRecords /\ SameRecord(turn, Heard)
         /\ Heard.outer = OuterRun(turn.asked) /\ Heard.calls = turn.calls
<1>1. turn \in TurnRecords /\ turn.asked \in Nat /\ turn.asked > 0
  BY DEF ReplInv, ReplTypeOK, TurnRecords, OwnCalls
<1>2. turn.outer = 0 \/ turn.outer = OuterRun(turn.asked)
  BY DEF ReplInv, OwnCalls
<1>3. PICK own \in Nat : own = OuterRun(turn.asked) /\ own # 0
  BY <1>1 DEF OuterRun
<1>4. Heard = [turn EXCEPT !.outer = own, !.events = turn.events + 1]
  <2>1. CASE turn.outer = 0
    BY <1>3, <2>1 DEF Heard
  <2>2. CASE turn.outer # 0
    BY <1>2, <1>3, <2>2 DEF Heard
  <2> QED  BY <2>1, <2>2
<1>5. PICK more \in Nat : more = turn.events + 1
  BY <1>1 DEF TurnRecords
<1>6. PICK h : h = [turn EXCEPT !.outer = own, !.events = more]
  OBVIOUS
<1>7. /\ h \in TurnRecords /\ SameRecord(turn, h) /\ h.outer = own /\ h.calls = turn.calls
  BY <1>1, <1>6 DEF TurnRecords, SameRecord
<1> QED  BY <1>3, <1>4, <1>5, <1>6, <1>7

LEMMA OuterIsOwn ==
  ASSUME ReplInv, NEW run, Log(run), Outer(run)
  PROVE  run = OuterRun(turn.asked)
  BY DEF ReplInv, OwnCalls, Log, Outer

\* An event that leaves the totals: what the log counts, and the calls of the turn.
LEMMA EventKeeps ==
  ASSUME ReplInv, at = "turn", UNCHANGED <<at, args, session, corpus, pattern, state, asked, commands,
                                           printed, exit>>,
         logged' \in [events : Nat, budgets : Nat], logged'.budgets = logged.budgets,
         turn' \in TurnRecords, SameRecord(turn, turn'), turn'.outer = OuterRun(turn.asked),
         \A c \in Range(turn'.calls) : c = OuterRun(turn.asked)
  PROVE  ReplInv'
<1>1. ReplTypeOK'
  BY DEF ReplInv, ReplTypeOK, SameRecord
<1>2. OwnCalls'
  BY DEF ReplInv, OwnCalls, OwnRecord, SameRecord
<1>3. RecordsCounted' /\ TotalSaid'
  BY DEF ReplInv, RecordsCounted, AddUp, TotalSaid, PatternKept, SameRecord
<1>4. CapKept'
  BY DEF ReplInv, CapKept
<1> QED  BY <1>1, <1>2, <1>3, <1>4 DEF ReplInv

\* The log counts an event and no budget line.
LEMMA LogKeeps ==
  ASSUME ReplInv, NEW run, Log(run)
  PROVE  logged' \in [events : Nat, budgets : Nat] /\ logged'.budgets = logged.budgets
<1>1. logged \in [events : Nat, budgets : Nat]
  BY DEF ReplInv, ReplTypeOK
<1>2. logged' = logged \/ logged' = [logged EXCEPT !.events = @ + 1]
  BY DEF Log
<1> QED  BY <1>1, <1>2

LEMMA ToolDoneKeeps == ASSUME ReplInv, NEW run, ToolDone(run) PROVE ReplInv'
<1>1. /\ at = "turn" /\ Log(run)
      /\ UNCHANGED <<at, args, session, corpus, pattern, state, asked, commands, printed, exit>>
  BY DEF ToolDone, Log
<1>2. PICK h \in TurnRecords : h = Heard
  BY <1>1, HeardTurn
<1>3. /\ SameRecord(turn, h) /\ h.outer = OuterRun(turn.asked)
      /\ h.calls = turn.calls /\ h.calls \in Seq(Nat)
      /\ \A c \in Range(h.calls) : c = OuterRun(turn.asked)
  BY <1>1, <1>2, HeardTurn DEF TurnRecords, ReplInv, OwnCalls
<1>4. CASE ~Outer(run)
  <2>1. turn' = h
    BY <1>2, <1>4 DEF ToolDone
  <2> QED  BY <1>1, <1>3, <2>1, LogKeeps, EventKeeps
<1>5. CASE Outer(run)
  <2>1. run = OuterRun(turn.asked) /\ run \in Nat
    <3>1. run = OuterRun(turn.asked)
      BY <1>1, <1>5, OuterIsOwn
    <3>2. turn.asked \in Nat
      BY DEF ReplInv, ReplTypeOK, TurnRecords
    <3> QED  BY <3>1, <3>2 DEF OuterRun
  <2>a. Append(h.calls, run) \in Seq(Nat)
    BY <1>3, <2>1
  <2>2. PICK calls \in Seq(Nat) : calls = Append(h.calls, run)
    BY <2>a, Zenon
  <2>3. \A c \in Range(calls) : c = OuterRun(turn.asked)
    <3>1. /\ Len(calls) = Len(h.calls) + 1 /\ calls[Len(calls)] = run
          /\ \A j \in DOMAIN h.calls : calls[j] = h.calls[j]
          /\ \A j \in DOMAIN calls : j \in DOMAIN h.calls \/ j = Len(calls)
      BY <1>3, <2>1, <2>2
    <3> QED  BY <1>3, <2>1, <3>1 DEF Range
  <2>4. turn' = [h EXCEPT !.calls = calls]
    BY <1>2, <1>5, <2>2 DEF ToolDone
  <2>5. /\ turn' \in TurnRecords /\ SameRecord(h, turn') /\ turn'.outer = h.outer
        /\ turn'.calls = calls
    BY <2>4 DEF TurnRecords, SameRecord
  <2>6. SameRecord(turn, turn')
    BY <1>3, <2>5 DEF SameRecord
  <2> QED  BY <1>1, <1>3, <2>3, <2>5, <2>6, LogKeeps, EventKeeps
<1> QED  BY <1>4, <1>5

LEMMA OtherEventKeeps == ASSUME ReplInv, NEW run, OtherEvent(run) PROVE ReplInv'
<1>1. /\ at = "turn" /\ Log(run) /\ turn' = Heard
      /\ UNCHANGED <<at, args, session, corpus, pattern, state, asked, commands, printed, exit>>
  BY DEF OtherEvent, Log
<1>2. \A c \in Range(turn.calls) : c = OuterRun(turn.asked)
  BY DEF ReplInv, OwnCalls
<1> QED  BY <1>1, <1>2, HeardTurn, LogKeeps, EventKeeps

\* A summary of the turn: the totals and its record take it, the alert is said when due.
LEMMA SummaryKeeps == ASSUME ReplInv, NEW run, NEW cost \in Costs, Summary(run, cost) PROVE ReplInv'
<1>1. /\ at = "turn" /\ Log(run)
      /\ UNCHANGED <<at, args, session, corpus, pattern, asked, commands, exit>>
  BY DEF Summary, Log
<1>2. PICK h \in TurnRecords : h = Heard
  BY <1>1, HeardTurn
<1>3. /\ SameRecord(turn, h) /\ h.outer = OuterRun(turn.asked)
      /\ h.calls = turn.calls /\ h.calls \in Seq(Nat)
      /\ \A c \in Range(h.calls) : c = OuterRun(turn.asked)
  BY <1>1, <1>2, HeardTurn DEF TurnRecords, ReplInv, OwnCalls
<1>4. CASE ~Outer(run)
  <2>1. turn' = h /\ UNCHANGED <<state, printed>>
    BY <1>2, <1>4 DEF Summary
  <2> QED  BY <1>1, <1>3, <2>1, LogKeeps, EventKeeps
<1>5. CASE Outer(run)
  <2>0. cost \in Nat
    BY ReplAssumption
  <2>2. /\ state \in States /\ state.cost \in Nat /\ state.turns \in Nat /\ state.alerted \in BOOLEAN
        /\ state.explain \in Seq(Records) /\ args \in Options
        /\ printed \in [alerts : Nat, budgets : Nat]
        /\ h.spent \in Nat /\ h.summaries \in Nat /\ h.before \in Nat /\ h.index \in Nat
    BY DEF ReplInv, ReplTypeOK, States, TurnRecords
  <2>6. PICK total : total = [state EXCEPT !.cost = @ + cost, !.turns = @ + 1]
    OBVIOUS
  <2>7. /\ total \in States /\ total.cost = state.cost + cost /\ total.turns = state.turns + 1
        /\ total.alerted = state.alerted /\ total.explain = state.explain
    <3>1. PICK sum \in Nat : sum = state.cost + cost
      BY <2>0, <2>2
    <3>2. PICK more \in Nat : more = state.turns + 1
      BY <2>2
    <3>3. total = [state EXCEPT !.cost = sum, !.turns = more]
      BY <2>2, <2>6, <3>1, <3>2 DEF States
    <3> QED  BY <2>2, <3>1, <3>2, <3>3 DEF States
  <2>8. /\ state' = [total EXCEPT !.alerted = @ \/ AlertDue(total)]
        /\ printed' = [printed EXCEPT !.alerts = @ + IF AlertDue(total) THEN 1 ELSE 0]
        /\ turn' = [h EXCEPT !.appended = TRUE, !.cost = cost, !.spent = @ + cost, !.summaries = @ + 1]
    BY <1>2, <1>5, <2>6 DEF Summary, Absorb
  <2>9. PICK due \in BOOLEAN : due = AlertDue(total)
    BY DEF AlertDue
  <2>10. due <=> args.alert > 0 /\ ~state.alerted /\ total.cost >= args.alert
    BY <2>2, <2>7, <2>9, Limits
  <2>11. state' = [total EXCEPT !.alerted = (total.alerted \/ due)]
    BY <2>8, <2>9, Zenon
  <2>12. (total.alerted \/ due) \in BOOLEAN
    OBVIOUS
  <2>13. /\ state' \in States /\ state'.cost = total.cost /\ state'.turns = total.turns
         /\ state'.explain = state.explain
    BY <2>7, <2>11, <2>12 DEF States
  <2>14. state'.alerted <=> state.alerted \/ due
    BY <2>7, <2>11, Zenon DEF States
  <2>15. /\ printed' \in [alerts : Nat, budgets : Nat] /\ printed'.budgets = printed.budgets
         /\ printed'.alerts = printed.alerts + IF due THEN 1 ELSE 0
    BY <2>2, <2>8, <2>9
  <2>16. /\ turn' \in TurnRecords /\ turn'.asked = turn.asked /\ turn'.outer = OuterRun(turn.asked)
         /\ turn'.appended = TRUE /\ turn'.calls = turn.calls /\ turn'.cost = cost
         /\ turn'.before = turn.before /\ turn'.index = turn.index
         /\ turn'.spent = turn.spent + cost /\ turn'.summaries = turn.summaries + 1
    <3>1. PICK sum \in Nat : sum = h.spent + cost
      BY <2>0, <2>2
    <3>2. PICK more \in Nat : more = h.summaries + 1
      BY <2>2
    <3>3. turn' = [h EXCEPT !.appended = TRUE, !.cost = cost, !.spent = sum, !.summaries = more]
      BY <2>8, <3>1, <3>2 DEF TurnRecords
    <3> QED  BY <1>3, <2>0, <3>1, <3>2, <3>3 DEF TurnRecords, SameRecord
  <2>17. ReplTypeOK'
    BY <1>1, <2>13, <2>15, <2>16, LogKeeps DEF ReplInv, ReplTypeOK
  <2>18. turn.spent \in Nat /\ turn.summaries \in Nat /\ turn.cost \in Nat /\ turn.before \in Nat
         /\ turn.index \in Nat
    BY DEF ReplInv, ReplTypeOK, TurnRecords
  <2>19. OwnCalls'
    <3>1. turn.summaries = 0 => turn.spent = 0
      BY DEF ReplInv, RecordsCounted
    <3>2. /\ turn'.appended <=> turn'.summaries > 0
          /\ turn'.cost <= turn'.spent /\ (turn'.summaries <= 1 => turn'.cost = turn'.spent)
      BY <2>0, <2>16, <2>18, <3>1
    <3> QED  BY <1>1, <2>13, <2>16, <3>2 DEF ReplInv, OwnCalls, OwnRecord
  <2>20. RecordsCounted'
    <3>1. /\ AddUp(state.explain, turn.before, turn.index - 1)
          /\ state.cost = turn.before + turn.spent /\ state.turns + 1 = turn.index + turn.summaries
      BY DEF ReplInv, RecordsCounted
    <3>2. AddUp(state.explain, turn.before, turn.index - 1)'
      BY <2>13, <2>16, <3>1 DEF AddUp
    <3>3. /\ state'.cost = turn'.before + turn'.spent
          /\ state'.turns + 1 = turn'.index + turn'.summaries /\ turn'.summaries # 0
      <4>1. state'.cost = state.cost + cost /\ state'.turns = state.turns + 1
        BY <2>7, <2>13
      <4>2. state.cost + cost = turn.before + (turn.spent + cost)
        BY <2>0, <2>2, <2>18, <3>1
      <4>3. (state.turns + 1) + 1 = turn.index + (turn.summaries + 1) /\ turn.summaries + 1 # 0
        <5>1. state.turns \in Nat /\ turn.index \in Nat /\ turn.summaries \in Nat
          BY <2>2, <2>18
        <5>2. state.turns + 1 = turn.index + turn.summaries
          BY <3>1
        <5>3. PICK t \in Nat, i \in Nat, m \in Nat : t = state.turns /\ i = turn.index /\ m = turn.summaries
          BY <5>1
        <5>4. t + 1 = i + m
          BY <5>2, <5>3
        <5> QED  BY <5>3, <5>4, Renumbered
      <4> QED  BY <2>16, <4>1, <4>2, <4>3
    <3> QED  BY <3>2, <3>3 DEF RecordsCounted
  <2>21. TotalSaid'
    <3>1. /\ printed.alerts = IF state.alerted THEN 1 ELSE 0
          /\ args.alert > 0 => (state.alerted <=> state.cost >= args.alert)
          /\ args.log => printed.budgets = logged.budgets
          /\ PatternKept
      BY DEF ReplInv, TotalSaid
    <3>2. args.alert \in Nat
      BY <2>2, Limits
    <3>3. state.alerted => ~due
      BY <2>10
    <3>4. printed'.alerts = IF state'.alerted THEN 1 ELSE 0
      <4>1. CASE state.alerted
        BY <2>14, <2>15, <3>1, <3>3, <4>1
      <4>2. CASE ~state.alerted
        <5>1. CASE due
          BY <2>14, <2>15, <3>1, <4>2, <5>1
        <5>2. CASE ~due
          BY <2>14, <2>15, <3>1, <4>2, <5>2
        <5> QED  BY <5>1, <5>2
      <4> QED  BY <4>1, <4>2
    <3>5. args.alert > 0 => (state'.alerted <=> state'.cost >= args.alert)
      <4>1. state'.cost = state.cost + cost
        BY <2>7, <2>13
      <4>2. CASE state.alerted
        BY <2>0, <2>2, <2>14, <3>1, <3>2, <4>1, <4>2
      <4>3. CASE ~state.alerted
        <5>1. CASE due
          BY <2>7, <2>10, <2>13, <2>14, <5>1
        <5>2. CASE ~due
          BY <2>7, <2>10, <2>13, <2>14, <4>3, <5>2
        <5> QED  BY <5>1, <5>2
      <4> QED  BY <4>2, <4>3
    <3>6. PatternKept'
      BY <1>1, <3>1 DEF PatternKept
    <3> QED  BY <1>1, <2>15, <3>1, <3>4, <3>5, <3>6, LogKeeps DEF TotalSaid
  <2>22. CapKept'
    BY <1>1, <2>15 DEF ReplInv, CapKept
  <2> QED  BY <2>17, <2>19, <2>20, <2>21, <2>22 DEF ReplInv
<1> QED  BY <1>4, <1>5

\* The stream ends and the totals meet the cap.
LEMMA TurnOverKeeps == ASSUME ReplInv, TurnOver PROVE ReplInv'
<1>1. at = "turn" /\ UNCHANGED <<args, session, corpus, pattern, state, turn, asked, commands, exit>>
  BY DEF TurnOver
<1>2. BudgetExceeded(state)' = BudgetExceeded(state)
  BY <1>1 DEF BudgetExceeded, Limit
<1>3. /\ printed \in [alerts : Nat, budgets : Nat] /\ logged \in [events : Nat, budgets : Nat]
      /\ printed.budgets = 0 /\ exit = Running /\ (args.log => printed.budgets = logged.budgets)
  BY <1>1 DEF ReplInv, ReplTypeOK, CapKept, TotalSaid
<1>4. CASE ~BudgetExceeded(state)
  <2>1. at' = "prompt" /\ UNCHANGED <<printed, logged>>
    BY <1>4 DEF TurnOver
  <2>2. CapKept'
    BY <1>1, <1>2, <1>3, <1>4, <2>1 DEF CapKept, Running
  <2>3. PatternKept'
    BY <1>1 DEF ReplInv, TotalSaid, PatternKept
  <2> QED  BY <1>1, <2>1, <2>2, <2>3, AsideKeeps DEF ReplInv, ReplTypeOK
<1>5. CASE BudgetExceeded(state)
  <2>1. /\ at' = "leaving" /\ printed' = [printed EXCEPT !.budgets = @ + 1]
        /\ logged' = IF args.log THEN [logged EXCEPT !.budgets = @ + 1] ELSE logged
    BY <1>5 DEF TurnOver
  <2>2. /\ printed' \in [alerts : Nat, budgets : Nat] /\ printed'.alerts = printed.alerts
        /\ printed'.budgets = 1
    BY <1>3, <2>1
  <2>3. /\ logged' \in [events : Nat, budgets : Nat]
        /\ args.log => logged'.budgets = 1
    BY <1>3, <2>1
  <2>4. ReplTypeOK'
    BY <1>1, <2>1, <2>2, <2>3 DEF ReplInv, ReplTypeOK
  <2>5. OwnCalls' /\ RecordsCounted'
    BY <1>1, <2>1 DEF ReplInv, OwnCalls, OwnRecord, RecordsCounted, AddUp
  <2>6. TotalSaid'
    BY <1>1, <2>2, <2>3 DEF ReplInv, TotalSaid, PatternKept
  <2>7. CapKept'
    BY <1>1, <1>2, <1>3, <1>5, <2>1, <2>2 DEF CapKept, Running
  <2> QED  BY <2>4, <2>5, <2>6, <2>7 DEF ReplInv
<1> QED  BY <1>4, <1>5

LEMMA ReplInvStep == ReplInv /\ [ReplNext]_replVars => ReplInv'
<1> SUFFICES ASSUME ReplInv, [ReplNext]_replVars PROVE ReplInv'
  OBVIOUS
<1>1. CASE Launch \/ Leave \/ Clear \/ LoadCommand \/ ExplainCommand \/ CommandRaises
             \/ Interrupted \/ Exit
  BY <1>1, PromptKeeps
<1>2. CASE Send
  BY <1>2, SendKeeps
<1>3. ASSUME NEW run \in Runs, ToolDone(run) \/ OtherEvent(run) \/ \E cost \in Costs : Summary(run, cost)
      PROVE  ReplInv'
  BY <1>3, ToolDoneKeeps, OtherEventKeeps, SummaryKeeps
<1>4. CASE TurnOver
  BY <1>4, TurnOverKeeps
<1>5. CASE UNCHANGED replVars
  <2>1. ReplTypeOK' /\ OwnCalls'
    BY <1>5 DEF replVars, ReplInv, ReplTypeOK, OwnCalls, OwnRecord
  <2>2. RecordsCounted' /\ TotalSaid'
    BY <1>5 DEF replVars, ReplInv, RecordsCounted, AddUp, TotalSaid, PatternKept
  <2>3. CapKept'
    BY <1>5 DEF replVars, ReplInv, CapKept, BudgetExceeded, Limit
  <2> QED  BY <2>1, <2>2, <2>3 DEF ReplInv
<1> QED  BY <1>1, <1>2, <1>3, <1>4, <1>5 DEF ReplNext

LEMMA ReplInvAccounted == ReplInv => SessionAccounted
<1> SUFFICES ASSUME ReplInv PROVE SessionAccounted
  OBVIOUS
<1>1. /\ AddUp(ExplainTurns, state.cost, state.turns)
      /\ \A i \in DOMAIN ExplainTurns : OwnRecord(ExplainTurns[i])
      /\ \A i, j \in DOMAIN ExplainTurns : i < j => ExplainTurns[i].asked < ExplainTurns[j].asked
  BY ExplainIs
<1>2. /\ printed.alerts = IF state.alerted THEN 1 ELSE 0
      /\ state.turns > 0 /\ args.alert > 0 => (state.alerted <=> state.cost >= args.alert)
      /\ args.log => printed.budgets = logged.budgets
      /\ pattern = IF args.pattern = "chat" /\ corpus # 0 THEN "research" ELSE args.pattern
  BY DEF ReplInv, TotalSaid, PatternKept
<1>3. /\ at = "prompt" => ~BudgetExceeded(state)
      /\ exit \in {0, 2} => (exit = 2 <=> printed.budgets = 1)
  BY DEF ReplInv, CapKept
<1> QED  BY <1>1, <1>2, <1>3 DEF SessionAccounted

\* However runs nest and turns end, the session's totals are those of its records, no turn
\* starts over the cap, and the alert, the budget line and the exit code tell of them.
THEOREM SessionAccountedHolds == ReplSpec => []SessionAccounted
<1>1. ReplInit => ReplInv
  BY ReplInvInit
<1>2. ReplInv /\ [ReplNext]_replVars => ReplInv'
  BY ReplInvStep
<1>3. ReplInv => SessionAccounted
  BY ReplInvAccounted
<1> QED
  BY <1>1, <1>2, <1>3, PTL DEF ReplSpec
=============================================================================
