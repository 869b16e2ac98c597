----------------------------- MODULE CorpusLoad -----------------------------
(***************************************************************************)
(* Loading files into a corpus (kaos_agents/cli/chat.py): a pool of worker *)
(* threads hashes, parses and chunks one file each, over a cache of parsed *)
(* files that outlives the process and is keyed by the bytes of the file   *)
(* and the chunk size.  Files may be edited or deleted while they load,    *)
(* cache writes may fail, copies of one file share a cache entry and its   *)
(* temporary name, and the process may be killed between any two steps.    *)
(***************************************************************************)
EXTENDS Naturals, FiniteSets, SequencesExt

CONSTANTS
  Files,        \* the paths that may be given to a load
  Texts,        \* what a file may hold
  Missing,      \* no such file
  Unreadable,   \* the texts no parser takes
  Passages,     \* Passages[t]: the chunks the chunker cuts t into, 0 if t is blank
  Loads,        \* the loads tried: [paths, size, cached, sink]
  Workers,      \* threads of the pool
  MaxLoads, MaxEdits, MaxKills    \* bounds on a behaviour

ASSUME LoadAssumption == Missing \notin Texts /\ \A l \in Loads : l.paths \in Seq(Files)

VARIABLES
  holds,        \* holds[f]: the text of file f, or Missing
  blob,         \* blob[k]: <cache>/blobs/<k>.json
  blobTmp,      \* blobTmp[k]: <cache>/blobs/<k>.json.tmp
  indexed,      \* the keys INDEX.json lists
  load,         \* the load in progress, or the last one
  slot,         \* slot[i]: the worker state for the i-th path of the load
  result,       \* what the load returned
  loads, edits, kills,  \* bounded counters
  poisoned      \* history: keys whose file changed between its hash and its parse

loadVars == <<holds, blob, blobTmp, indexed, load, slot, result, loads, edits, kills, poisoned>>

\* A cache key: content hash and chunk size.
Keys == Texts \X {l.size : l \in Loads}

NoChunks == <<>>
NoBlob == [mark |-> "none", chunks |-> NoChunks]
TornBlob == [mark |-> "torn", chunks |-> NoChunks]
WholeBlob(chunks) == [mark |-> "whole", chunks |-> chunks]

\* _chunk_document: with chunking off the document is its only chunk.
Pieces(text, size) ==
  IF size = 0 THEN <<[text |-> text, part |-> 0]>>
  ELSE [j \in 1..Passages[text] |-> [text |-> text, part |-> j]]

\* A fresh slot; seen is a history of what its file held since the load began.
Queued(f) ==
  [at |-> "queued", key |-> <<Missing, 0>>, fd |-> "none", out |-> NoChunks,
   failed |-> FALSE, seen |-> {holds[f]}]

NoLoad == [done |-> FALSE, docs |-> NoChunks, uris |-> NoChunks, loaded |-> 0]

LoadInit ==
  /\ holds \in [Files -> Texts \cup {Missing}]
  /\ blob = [k \in Keys |-> NoBlob] /\ blobTmp = [k \in Keys |-> NoBlob] /\ indexed = {}
  /\ load \in Loads /\ slot = [i \in {} |-> Queued(i)] /\ result = NoLoad
  /\ loads = 0 /\ edits = 0 /\ kills = 0 /\ poisoned = {}

Busy == {i \in DOMAIN slot : slot[i].at \notin {"queued", "done"}}
InProgress == DOMAIN slot # {} /\ ~result.done

Done(i, chunks) ==
  slot' = [slot EXCEPT ![i] = [@ EXCEPT !.at = "done", !.out = chunks, !.fd = "none"]]
Fail(i) == slot' = [slot EXCEPT ![i] = [@ EXCEPT !.at = "done", !.failed = TRUE]]

\* A caller begins a load: every path gets a slot, in the order of the paths.
Start ==
  /\ ~InProgress /\ loads < MaxLoads
  /\ \E l \in Loads : load' = l /\ slot' = [i \in DOMAIN l.paths |-> Queued(l.paths[i])]
  /\ result' = NoLoad /\ loads' = loads + 1
  /\ UNCHANGED <<holds, blob, blobTmp, indexed, edits, kills, poisoned>>

\* A free worker takes the next path; the file must exist, and with a cache its
\* bytes are hashed first.
Take(i) ==
  /\ slot[i].at = "queued" /\ Cardinality(Busy) < Workers
  /\ \A j \in DOMAIN slot : j < i => slot[j].at # "queued"
  /\ LET text == holds[load.paths[i]] IN
       IF text = Missing THEN Fail(i)
       ELSE slot' = [slot EXCEPT ![i] = [@ EXCEPT !.at = IF load.cached THEN "probe" ELSE "parse",
                                                  !.key = <<text, load.size>>]]
  /\ UNCHANGED <<holds, blob, blobTmp, indexed, load, result, loads, edits, kills, poisoned>>

\* Mutant of Hit: a file that cannot be decoded is a hit that holds no chunks.
MutHit(b) == b.mark # "none"

\* _cache_load: a missing or corrupted entry is a miss.
Hit(b) == b.mark = "whole"

Probe(i) ==
  /\ slot[i].at = "probe"
  /\ LET b == blob[slot[i].key] IN
       IF Hit(b) THEN Done(i, b.chunks) ELSE slot' = [slot EXCEPT ![i].at = "parse"]
  /\ UNCHANGED <<holds, blob, blobTmp, indexed, load, result, loads, edits, kills, poisoned>>

\* The file is read again, by its parser, and chunked; chunks that are there to be
\* kept go to the cache.  Any error leaves the slot empty and the others alone.
Parse(i) ==
  /\ slot[i].at = "parse"
  /\ LET text == holds[load.paths[i]]  chunks == Pieces(text, load.size) IN
       IF text = Missing \/ text \in Unreadable THEN Fail(i) /\ UNCHANGED poisoned
       ELSE /\ IF load.cached /\ chunks # NoChunks
               THEN slot' = [slot EXCEPT ![i] = [@ EXCEPT !.at = "open", !.out = chunks]]
               ELSE Done(i, chunks)
            /\ poisoned' = IF text = slot[i].key[1] THEN poisoned ELSE poisoned \cup {slot[i].key}
  /\ UNCHANGED <<holds, blob, blobTmp, indexed, load, result, loads, edits, kills>>

\* _cache_store, first half: tmp_path.open("w") truncates a file that may be in use by
\* the worker of a copy of this one.
OpenTmp(i) ==
  /\ slot[i].at = "open"
  /\ blobTmp' = [blobTmp EXCEPT ![slot[i].key] = TornBlob]
  /\ slot' = [slot EXCEPT ![i] = [@ EXCEPT !.at = "write", !.fd = "tmp"]]
  /\ UNCHANGED <<holds, blob, indexed, load, result, loads, edits, kills, poisoned>>

\* Bytes written over what the descriptor's file holds: a mix unless it was empty.
Over(old, new) == IF old.chunks = NoChunks THEN {new} ELSE {new, TornBlob}

\* json.dump and close: into the file the descriptor refers to, wherever its name went.
WriteTmp(i) ==
  /\ slot[i].at = "write"
  /\ LET k == slot[i].key  new == WholeBlob(slot[i].out) IN
       \/ slot[i].fd = "tmp" /\ \E b \in Over(blobTmp[k], new) : blobTmp' = [blobTmp EXCEPT ![k] = b]
            /\ UNCHANGED blob
       \/ slot[i].fd = "blob" /\ \E b \in Over(blob[k], new) : blob' = [blob EXCEPT ![k] = b]
            /\ UNCHANGED blobTmp
       \/ slot[i].fd = "gone" /\ UNCHANGED <<blob, blobTmp>>
  /\ slot' = [slot EXCEPT ![i] = [@ EXCEPT !.at = "replace", !.fd = "none"]]
  /\ UNCHANGED <<holds, indexed, load, result, loads, edits, kills, poisoned>>

\* tmp_path.replace(blob_path); a descriptor open on the old name now writes the blob.
ReplaceBlob(i) ==
  /\ slot[i].at = "replace" /\ blobTmp[slot[i].key] # NoBlob
  /\ LET k == slot[i].key IN
       /\ blob' = [blob EXCEPT ![k] = blobTmp[k]]
       /\ blobTmp' = [blobTmp EXCEPT ![k] = NoBlob]
       /\ slot' = [j \in DOMAIN slot |->
                     IF j = i THEN [slot[j] EXCEPT !.at = "index"]
                     ELSE IF slot[j].key = k /\ slot[j].fd # "none"
                          THEN [slot[j] EXCEPT !.fd = IF @ = "tmp" THEN "blob" ELSE "gone"]
                          ELSE slot[j]]
  /\ UNCHANGED <<holds, indexed, load, result, loads, edits, kills, poisoned>>

\* The read, change and replacement of INDEX.json, under the lock of the process.
Index(i) ==
  /\ slot[i].at = "index"
  /\ indexed' \in {indexed, indexed \cup {slot[i].key}}
  /\ Done(i, slot[i].out)
  /\ UNCHANGED <<holds, blob, blobTmp, load, result, loads, edits, kills, poisoned>>

\* The cache write fails (disk full, read-only, {key}.json.tmp renamed away by the worker
\* of a copy) and is suppressed: the file counts as loaded.
StoreFails(i) ==
  /\ \/ slot[i].at \in {"open", "write"}
     \/ slot[i].at = "replace" /\ blobTmp[slot[i].key] = NoBlob
  /\ Done(i, slot[i].out)
  /\ UNCHANGED <<holds, blob, blobTmp, indexed, load, result, loads, edits, kills, poisoned>>

\* "file:<name>#chunk-<index>"; the directory of the file is not part of it.
Uri(i, chunk) == <<load.paths[i], chunk.part>>

\* DOCUMENTS takes no blank text.
Kept(chunks) ==
  IF load.sink = "memory" THEN SelectSeq(chunks, LAMBDA c : Passages[c.text] > 0) ELSE chunks

\* Documents and URIs follow the paths, whatever order their workers ended in.
Collect ==
  /\ InProgress /\ \A i \in DOMAIN slot : slot[i].at = "done"
  /\ result' =
       [done |-> TRUE,
        docs |-> FlattenSeq([i \in DOMAIN slot |-> Kept(slot[i].out)]),
        uris |-> FlattenSeq([i \in DOMAIN slot |->
                   [j \in DOMAIN Kept(slot[i].out) |-> Uri(i, Kept(slot[i].out)[j])]]),
        loaded |-> Cardinality({i \in DOMAIN slot : Kept(slot[i].out) # NoChunks})]
  /\ UNCHANGED <<holds, blob, blobTmp, indexed, load, slot, loads, edits, kills, poisoned>>

\* Somebody edits, deletes or creates a file.
Edit ==
  /\ edits < MaxEdits /\ edits' = edits + 1
  /\ \E f \in Files, t \in Texts \cup {Missing} :
       /\ t # holds[f] /\ holds' = [holds EXCEPT ![f] = t]
       /\ slot' = [i \in DOMAIN slot |->
                     IF load.paths[i] = f THEN [slot[i] EXCEPT !.seen = @ \cup {t}] ELSE slot[i]]
  /\ UNCHANGED <<blob, blobTmp, indexed, load, result, loads, kills, poisoned>>

\* The process is killed; the cache directory stays as it is.
Kill ==
  /\ InProgress /\ kills < MaxKills /\ kills' = kills + 1
  /\ slot' = [i \in {} |-> Queued(i)] /\ result' = NoLoad
  /\ UNCHANGED <<holds, blob, blobTmp, indexed, load, loads, edits, poisoned>>

WorkerStep(i) ==
  \/ Take(i) \/ Probe(i) \/ Parse(i) \/ OpenTmp(i) \/ WriteTmp(i) \/ ReplaceBlob(i)
  \/ Index(i) \/ StoreFails(i)

LoadNext == Start \/ (\E i \in DOMAIN slot : WorkerStep(i)) \/ Collect \/ Edit \/ Kill

LoadSpec == LoadInit /\ [][LoadNext]_loadVars

-----------------------------------------------------------------------------
\* What the parsers made of the file of slot i at some moment of this load.
Fresh(i) == {Pieces(t, load.size) : t \in slot[i].seen \ ({Missing} \cup Unreadable)}

\* A load returns the chunks of every file: what the file held at
\* some moment of the load, unless an earlier load stored another text under
\* its hash.  A file is left out only because it was missing or unreadable, never for
\* what the cache holds or cannot hold (_cache_load, the suppressed _cache_store).
CorpusSound ==
  /\ \A k \in Keys \ poisoned : blob[k].mark = "whole" => blob[k].chunks = Pieces(k[1], k[2])
  /\ indexed \subseteq {k \in Keys : blob[k] # NoBlob}
  /\ result.done => \A i \in DOMAIN slot :
            IF slot[i].failed THEN slot[i].seen \cap ({Missing} \cup Unreadable) # {}
            ELSE slot[i].out \in Fresh(i) \/ slot[i].key \in poisoned

\* What _cache_store's docstring says of an entry: no half-written one is ever published.
BlobsWhole == \A k \in Keys : blob[k].mark # "torn"

\* What _load_files_to_corpus says of the cache: it invalidates when contents change.
CacheFollowsFiles ==
  result.done => \A i \in DOMAIN slot : slot[i].failed \/ slot[i].out \in Fresh(i)
=============================================================================
