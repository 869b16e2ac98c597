---------------------------- MODULE SessionStore ----------------------------
(***************************************************************************)
(* One session and the requests that use it: BaseAgent.run, the HTTP       *)
(* handlers for create, append-turn and delete, and AuditHook, over        *)
(* SessionStore.load_or_create / save / delete.                            *)
(*                                                                         *)
(* The session is two files, memory.json (mem) and graph.ttl (graph).      *)
(* Each request hydrates its own SessionMemory from them, changes that     *)
(* copy across many awaits, and writes both files back, one after the      *)
(* other.  A file is replaced whole: that is AtomicWrite's theorem, for    *)
(* saves that do not overlap.                                              *)
(*                                                                         *)
(* Memory contents are reduced to whose they are: the user messages        *)
(* (MESSAGES), tool executions (ACTIONS) and triples of a request are the  *)
(* request itself.  Summaries and evictions, which replace items by text   *)
(* about them, are not represented.                                        *)
(***************************************************************************)
EXTENDS Naturals, FiniteSets

CONSTANTS
  Requests,     \* client requests, each sent at most once
  Matters,      \* the matter ids a create request may carry
  NoMatter,     \* matter_id None: the session is unscoped
  NoFile,       \* the file does not exist
  Serial,       \* TRUE: the clients of a session wait for each other
  Audit,        \* TRUE: an AuditHook is installed in the Runner
  Faults        \* what may go wrong in a run, a subset of AllFaults

AllFaults == {"crash",      \* the process dies and restarts
              "abandon",    \* the consumer closes the event stream, or the run pauses
              "classify",   \* _classify raises
              "hydrate",    \* load_rdf raises on graph.ttl
              "write",      \* _atomic_write raises
              "unlink"}     \* vfs.delete raises

Kinds == {"message", "iteration", "append", "create", "delete"}
Turns == {"message", "iteration"}       \* the kinds that run BaseAgent.run

AuditEvents == Requests \X {"early", "late"} \* emitted before, after the turn's own save

Memory == [turns : Nat,
           msgs : SUBSET Requests,
           acts : SUBSET Requests,
           audit : SUBSET AuditEvents,
           matter : Matters \cup {NoMatter}]

ASSUME SessionStoreAssumption ==
  /\ Serial \in BOOLEAN
  /\ Audit \in BOOLEAN
  /\ Audit => Serial
  /\ Faults \subseteq AllFaults
  /\ NoMatter \notin Matters
  /\ NoFile \notin Memory
  /\ NoFile \notin [turns : Nat, msgs : SUBSET Requests]
  /\ \A S \in SUBSET Requests : S # NoFile

VARIABLES
  mem,      \* memory.json
  graph,    \* graph.ttl: the requests whose triples it holds
  pc,       \* pc[r]: where request r is
  kind,     \* kind[r]: what r asks for
  held,     \* held[r]: r's SessionMemory
  kg,       \* kg[r]: its ._graph; {} is the lazy graph nobody touched
  acked,    \* turns with a user message whose save returned, none deleted since
  audited,  \* the events AuditHook saw, in sessions not deleted since
  erased,   \* the requests a DELETE that returned came after
  scope     \* the matter_id the last create response reported

disk == <<mem, graph>>
ghosts == <<acked, audited, erased, scope>>
vars == <<mem, graph, pc, kind, held, kg, acked, audited, erased, scope>>

Fresh(m) == [turns |-> 0, msgs |-> {}, acts |-> {}, audit |-> {}, matter |-> m]

Points == {"new", "exists", "load", "hydrate", "loaded", "classify", "dispatch",
           "save", "saveGraph", "saved", "unlinkMem", "unlinkGraph", "over"}

TypeOK ==
  /\ mem \in {NoFile} \cup Memory
  /\ graph \in {NoFile} \cup ((SUBSET Requests) \ {{}})
  /\ pc \in [Requests -> Points]
  /\ kind \in [Requests -> Kinds]
  /\ held \in [Requests -> Memory]
  /\ kg \in [Requests -> SUBSET Requests]
  /\ acked \subseteq Requests
  /\ audited \subseteq AuditEvents
  /\ erased \subseteq Requests
  /\ scope \in Matters \cup {NoMatter}

Init ==
  /\ mem = NoFile
  /\ graph = NoFile
  /\ pc = [r \in Requests |-> "new"]
  /\ kind = [r \in Requests |-> "message"]
  /\ held = [r \in Requests |-> Fresh(NoMatter)]
  /\ kg = [r \in Requests |-> {}]
  /\ acked = {}
  /\ audited = {}
  /\ erased = {}
  /\ scope = NoMatter

Started == {r \in Requests : pc[r] # "new"}
Active == {r \in Requests : pc[r] \notin {"new", "over"}}

Goto(r, point) == pc' = [pc EXCEPT ![r] = point]

Fault(f) == f \in Faults

\* A request arrives: its handler computes the session's paths.
Arrive(r, k) ==
  /\ pc[r] = "new"
  /\ Serial => Active = {}
  /\ kind' = [kind EXCEPT ![r] = k]
  /\ Goto(r, IF k = "delete" THEN "unlinkMem" ELSE "exists")
  /\ UNCHANGED <<disk, held, kg, ghosts>>

-----------------------------------------------------------------------------
(* load_or_create: exists, then load (its own exists, the read, the graph).  *)

\* Mutant of Found: load_or_create asks for the graph file.
MutFound == graph # NoFile

Found == mem # NoFile

\* load_or_create awaits exists(); a session not found is made afresh, with the
\* matter the caller gave (only create gives one), and without reading graph.ttl.
Exists(r) ==
  /\ pc[r] = "exists"
  /\ \/ Found /\ Goto(r, "load") /\ UNCHANGED <<held, kg>>
     \/ /\ ~Found
        /\ \E m \in IF kind[r] = "create" THEN Matters \cup {NoMatter} ELSE {NoMatter} :
              held' = [held EXCEPT ![r] = Fresh(m)]
        /\ kg' = [kg EXCEPT ![r] = {}]
        /\ Goto(r, "loaded")
  /\ UNCHANGED <<disk, kind, ghosts>>

\* load() reads and parses memory.json; it raises SessionNotFoundError when the
\* file went away after exists() saw it.
Load(r) ==
  /\ pc[r] = "load"
  /\ \/ mem # NoFile /\ held' = [held EXCEPT ![r] = mem] /\ Goto(r, "hydrate")
     \/ mem = NoFile /\ Goto(r, "over") /\ UNCHANGED held
  /\ UNCHANGED <<disk, kind, kg, ghosts>>

\* Mutant of Hydrated: graph.ttl is never read back.
MutHydrated == {}

Hydrated == IF graph = NoFile THEN {} ELSE graph

\* load() reads graph.ttl when there is one; a failure to parse it is logged and
\* leaves the lazy, empty graph.
Hydrate(r) ==
  /\ pc[r] = "hydrate"
  /\ \/ kg' = [kg EXCEPT ![r] = Hydrated]
     \/ Fault("hydrate") /\ graph # NoFile /\ kg' = [kg EXCEPT ![r] = {}]
  /\ Goto(r, "loaded")
  /\ UNCHANGED <<disk, kind, held, ghosts>>

-----------------------------------------------------------------------------
(* AuditHook._append: load_or_create, add to AUDIT, save; Runner.run awaits it *)
(* before it hands the event to the consumer.  The graph it hydrates is the    *)
(* one it writes back.                                                         *)

AuditAppend(e) ==
  IF ~Audit
  THEN UNCHANGED <<mem, audited>>
  ELSE /\ mem' = [IF mem = NoFile THEN Fresh(NoMatter) ELSE mem EXCEPT !.audit = @ \cup {e}]
       /\ audited' = audited \cup {e}

-----------------------------------------------------------------------------
(* BaseAgent._run_inner.                                                     *)

\* Steps 2-4: begin_turn, the TURN span is yielded, the user message is added
\* (not for an internal iteration), the context is assembled.
BeginTurn(r) ==
  /\ pc[r] = "loaded"
  /\ kind[r] \in Turns
  /\ AuditAppend(<<r, "early">>)
  /\ held' = [held EXCEPT ![r].msgs = IF kind[r] = "message" THEN @ \cup {r} ELSE @]
  /\ Goto(r, "classify")
  /\ UNCHANGED <<graph, kind, kg, acked, erased, scope>>

\* Step 5: the intent is classified; a failure yields RunError and the closing
\* frames and returns without a save.
Classify(r) ==
  /\ pc[r] = "classify"
  /\ \/ Goto(r, "dispatch") /\ UNCHANGED <<mem, audited>>
     \/ Fault("classify") /\ Goto(r, "over") /\ AuditAppend(<<r, "late">>)
  /\ UNCHANGED <<graph, kind, held, kg, acked, erased, scope>>

\* Steps 6-8 up to the save: the pattern's events, RDF triples for the tool calls
\* among them, ACTIONS for those that completed, end_turn.  A dispatch that raises
\* yields RunError and goes on here with the events it had.
Dispatch(r) ==
  /\ pc[r] = "dispatch"
  /\ \E triples, done \in BOOLEAN :
        /\ done => triples
        /\ kg' = IF triples THEN [kg EXCEPT ![r] = @ \cup {r}] ELSE kg
        /\ held' = [held EXCEPT ![r].acts = IF done THEN @ \cup {r} ELSE @,
                                ![r].turns = @ + 1]
  /\ Goto(r, "save")
  /\ UNCHANGED <<disk, kind, ghosts>>

\* The generator is closed at a yield: by a consumer that went away, or by
\* Runner.run when it pauses for approval.  It saves nothing more.
Abandon(r) ==
  /\ Fault("abandon")
  /\ kind[r] \in Turns
  /\ pc[r] \in {"classify", "dispatch", "saved"}
  /\ Goto(r, "over")
  /\ UNCHANGED <<disk, kind, held, kg, ghosts>>

-----------------------------------------------------------------------------
(* The handlers of POST .../memory/messages/turn and POST /v1/sessions.      *)

\* Mutant of Counted: the append does not call end_turn.
MutCounted(n) == n

Counted(n) == n + 1

\* append_memory_turn adds the pair, ends the turn and saves; with both texts
\* empty it returns at once.
AppendTurn(r) ==
  /\ pc[r] = "loaded"
  /\ kind[r] = "append"
  /\ \/ /\ held' = [held EXCEPT ![r].msgs = @ \cup {r}, ![r].turns = Counted(@)]
        /\ Goto(r, "save")
     \/ Goto(r, "over") /\ UNCHANGED held
  /\ UNCHANGED <<disk, kind, kg, ghosts>>

\* create_session answers from the memory it loaded or made.  It saves nothing.
Create(r) ==
  /\ pc[r] = "loaded"
  /\ kind[r] = "create"
  /\ scope' = held[r].matter
  /\ Goto(r, "over")
  /\ UNCHANGED <<disk, kind, held, kg, acked, audited, erased>>

-----------------------------------------------------------------------------
(* save() and delete().                                                      *)

\* save() goes on to graph.ttl only for a graph with edges.
AfterMem(r) == IF kg[r] = {} THEN "saved" ELSE "saveGraph"

\* The first _atomic_write of save().
SaveMem(r) ==
  /\ pc[r] = "save"
  /\ mem' = held[r]
  /\ Goto(r, AfterMem(r))
  /\ UNCHANGED <<graph, kind, held, kg, ghosts>>

\* The second.
SaveGraph(r) ==
  /\ pc[r] = "saveGraph"
  /\ graph' = kg[r]
  /\ Goto(r, "saved")
  /\ UNCHANGED <<mem, kind, held, kg, ghosts>>

\* Either write raises; the exception leaves save() and the run.
WriteFails(r) ==
  /\ Fault("write")
  /\ pc[r] \in {"save", "saveGraph"}
  /\ Goto(r, "over")
  /\ UNCHANGED <<disk, kind, held, kg, ghosts>>

\* save() returned; a run yields the closing TURN span and TurnSummary.
Finish(r) ==
  /\ pc[r] = "saved"
  /\ acked' = IF kind[r] \in {"message", "append"} THEN acked \cup {r} ELSE acked
  /\ IF kind[r] \in Turns THEN AuditAppend(<<r, "late">>) ELSE UNCHANGED <<mem, audited>>
  /\ Goto(r, "over")
  /\ UNCHANGED <<graph, kind, held, kg, erased, scope>>

\* delete(): memory.json first; a failure is logged and delete() goes on.
UnlinkMem(r) ==
  /\ pc[r] = "unlinkMem"
  /\ mem' \in {NoFile} \cup (IF Fault("unlink") THEN {mem} ELSE {})
  /\ acked' = {}
  /\ audited' = {}
  /\ scope' = NoMatter
  /\ Goto(r, "unlinkGraph")
  /\ UNCHANGED <<graph, kind, held, kg, erased>>

UnlinkGraphLeaving(r, left) ==
  /\ pc[r] = "unlinkGraph"
  /\ graph' \in left
  /\ erased' = Started
  /\ Goto(r, "over")
  /\ UNCHANGED <<mem, kind, held, kg, acked, audited, scope>>

\* Mutant of UnlinkGraph: only memory.json is removed.
MutUnlinkGraph(r) == UnlinkGraphLeaving(r, {graph})

\* Then graph.ttl; the endpoint answers "deleted" whatever delete() returned.
UnlinkGraph(r) ==
  UnlinkGraphLeaving(r, {NoFile} \cup (IF Fault("unlink") THEN {graph} ELSE {}))

\* The process dies with requests under way, and restarts.
Crash ==
  /\ Fault("crash")
  /\ Active # {}
  /\ pc' = [r \in Requests |-> IF r \in Active THEN "over" ELSE pc[r]]
  /\ UNCHANGED <<disk, kind, held, kg, ghosts>>

Step(r) ==
  \/ Exists(r) \/ Load(r) \/ Hydrate(r)
  \/ BeginTurn(r) \/ Classify(r) \/ Dispatch(r) \/ Abandon(r)
  \/ AppendTurn(r) \/ Create(r)
  \/ SaveMem(r) \/ SaveGraph(r) \/ WriteFails(r) \/ Finish(r)
  \/ UnlinkMem(r) \/ UnlinkGraph(r)

Next ==
  \/ \E r \in Requests : Step(r) \/ \E k \in Kinds : Arrive(r, k)
  \/ Crash

Spec == Init /\ [][Next]_vars

-----------------------------------------------------------------------------
\* A turn whose save returned is in the session from then on, whatever later
\* turns fail, are abandoned or crash: the load-modify-save of a turn keeps what
\* the turns before it wrote.
NoLostTurn == acked # {} => (mem # NoFile /\ acked \subseteq mem.msgs)

OwnersOf(m) == m.msgs \cup m.acts \cup {e[1] : e \in m.audit}

Owners == (IF mem = NoFile THEN {} ELSE OwnersOf(mem))
          \cup (IF graph = NoFile THEN {} ELSE graph)

\* After a DELETE returned, neither file holds anything of an earlier request, and
\* no later turn brings it back (a graph.ttl left behind would be read again).
Forgotten == erased \cap Owners = {}

\* After a DELETE returned and before the next request, exists() is FALSE.
DeletedStaysGone == (erased # {} /\ Started \subseteq erased) => mem = NoFile

\* Every tool execution in ACTIONS has its triples in graph.ttl whenever no
\* request is between the two writes of a save.
ActionsInGraph ==
  (mem # NoFile /\ \A r \in Requests : pc[r] # "saveGraph")
     => mem.acts \subseteq (IF graph = NoFile THEN {} ELSE graph)

NoDelete == \A r \in Requests : kind[r] # "delete"

\* The knowledge graph only grows: until a DELETE begins, no save drops the triples
\* of earlier turns from graph.ttl.
GraphGrows ==
  [][(NoDelete /\ graph # NoFile) => (graph' # NoFile /\ graph \subseteq graph')]_vars

\* The AUDIT section holds every event AuditHook was given.
AuditComplete == (mem # NoFile) => audited \subseteq mem.audit

\* A session that exists has the matter the last create response reported.
MatterKept == (mem # NoFile /\ scope # NoMatter) => mem.matter = scope

\* turn_count never falls behind the conversation: every stored user message was
\* counted by an end_turn, even when overlapping saves overwrite each other.
TurnsCounted == mem # NoFile => Cardinality(mem.msgs) <= mem.turns

SL == INSTANCE SessionLog WITH
  NoSession <- NoFile,
  log <- IF mem = NoFile THEN NoFile ELSE [turns |-> mem.turns, msgs |-> mem.msgs]
\* Requests that wait for each other see one atomic log of turns.
IsSessionLog == SL!Spec
=============================================================================
