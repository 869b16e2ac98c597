----------------------------- MODULE AgentTools -----------------------------
(***************************************************************************)
(* The MCP tools that run an agent or work on a session's memory           *)
(* (kaos_agents/tools/registry.py): kaos-agent-chat and kaos-agent-plan    *)
(* resolve a session, hydrate the artifacts a message names into its       *)
(* DOCUMENTS (runtime/artifact_hydration.py, chat only), run one turn and  *)
(* fold its events into a reply; memory-query, -search and -clear work on  *)
(* the caller's own session.  Calls interleave at every await.             *)
(***************************************************************************)
EXTENDS Naturals, FiniteSets, SequencesExt

CONSTANTS
  ToolCalls,    \* the calls of a behaviour
  Requests,     \* [tool, asked, ctx, refs, cap]: what a caller sends
  SessionIds,   \* the sessions callers name
  Nobody,       \* no session id: not asked for, or no calling context
  Owner,        \* Owner[a]: the session that made artifact a
  Size,         \* Size[a]: its size
  InlineMax,    \* INLINE_THRESHOLD
  SummaryMax,   \* SUMMARY_THRESHOLD, also the budget of a turn
  TurnCosts,    \* what a turn may cost
  NoCap         \* no max_cost_usd

\* Requests name sessions and artifacts; a message names an artifact once (the dict of
\* find_artifact_references).
ASSUME AgentToolsAssumption ==
  /\ Nobody \notin SessionIds /\ NoCap \notin Nat
  /\ Size \in [DOMAIN Owner -> Nat]
  /\ InlineMax \in Nat /\ SummaryMax \in Nat /\ TurnCosts \subseteq Nat
  /\ Requests \subseteq [tool : {"chat", "plan", "query", "search", "clear"},
                        asked : SessionIds \cup {Nobody}, ctx : SessionIds \cup {Nobody},
                        refs : Seq(DOMAIN Owner), cap : {NoCap} \cup Nat]
  /\ \A r \in Requests : \A i, j \in DOMAIN r.refs : r.refs[i] = r.refs[j] => i = j

VARIABLES
  sessions,        \* sessions[s]: the saved memory of session s
  call,         \* call[c]: the state of a call
  crossed       \* history: sessions two calls were at work on at once

toolVars == <<sessions, call, crossed>>

\* A memory: its hydrated documents, in order, and how many turns it counts.
NoMemory == [there |-> FALSE, docs |-> <<>>, turns |-> 0]
Fresh == [there |-> TRUE, docs |-> <<>>, turns |-> 0]

NoEvents == [paused |-> FALSE, budget |-> FALSE, error |-> "none", cost |-> 0, summed |-> FALSE]
NoReply == [kind |-> "none", of |-> Nobody, budget |-> FALSE, paused |-> FALSE, cost |-> 0, docs |-> <<>>]
NotCalled == [at |-> "idle", req |-> Nobody, sid |-> Nobody, scope |-> Nobody, memory |-> NoMemory,
              todo |-> <<>>, left |-> 0, new |-> <<>>, kept |-> TRUE, seen |-> <<>>,
              events |-> NoEvents, reply |-> NoReply]

ToolsInit ==
  /\ sessions = [s \in SessionIds |-> NoMemory] /\ call = [c \in ToolCalls |-> NotCalled] /\ crossed = {}

\* The reply is sent and the call's own data is gone; an error says nothing else.
Closed(k, events, reply) ==
  [NotCalled EXCEPT !.at = "done", !.req = k.req, !.sid = k.sid, !.scope = k.scope,
                    !.events = events, !.reply = reply]
Refusal == [NoReply EXCEPT !.kind = "error"]
Result(s) == [NoReply EXCEPT !.kind = "result", !.of = s]

Become(c, k) == call' = [call EXCEPT ![c] = k]
Refuse(c) == Become(c, Closed(call[c], call[c].events, Refusal))

RunsAgent(r) == r.tool \in {"chat", "plan"}

\* _resolve_invocation_session_id: an agent runs in the session that was asked for.
Invoked(r) == IF r.asked # Nobody THEN r.asked ELSE r.ctx

\* _resolve_caller_session_id: memory tools work on the caller's own session, and
\* refuse another; without a calling session they take the one asked for.
CallerOwn(r) ==
  IF r.ctx = Nobody THEN r.asked
  ELSE IF r.asked \in {Nobody, r.ctx} THEN r.ctx ELSE Nobody

Resolved(r) == IF RunsAgent(r) THEN Invoked(r) ELSE CallerOwn(r)

\* A call without a context has no runtime: a fresh in-memory VFS is all it sees.
Persistent(c) == call[c].req.ctx # Nobody
Stored(c) == IF Persistent(c) THEN sessions[call[c].sid] ELSE NoMemory
Save(c, memory) == sessions' = IF Persistent(c) THEN [sessions EXCEPT ![call[c].sid] = memory] ELSE sessions

Working(s) == {c \in ToolCalls : call[c].at \notin {"idle", "done"} /\ call[c].sid = s}

\* _build_invocation_context: what the turn, its tools and the guard of the artifacts
\* take for their session.
Scope(r) == Resolved(r)

FirstOf(r) == IF r.tool = "chat" THEN "hydrate" ELSE IF r.tool = "plan" THEN "turn" ELSE "memory"

\* A call arrives: arguments are checked before anything is read.
Arrive(c) ==
  /\ call[c].at = "idle"
  /\ \E r \in Requests :
       IF Resolved(r) = Nobody
       THEN Become(c, [NotCalled EXCEPT !.at = "done", !.req = r, !.reply = Refusal]) /\ UNCHANGED crossed
       ELSE /\ Become(c, [NotCalled EXCEPT !.at = FirstOf(r), !.req = r, !.sid = Resolved(r), !.scope = Scope(r)])
            /\ crossed' = IF Working(Resolved(r)) # {} THEN crossed \cup {Resolved(r)} ELSE crossed
  /\ UNCHANGED sessions

-----------------------------------------------------------------------------
\* Hydration of artifacts, before the turn loads the session.

Hydrated(memory) == {d.id : d \in Range(memory.docs)}

\* Mutant of FreshIds: artifacts of earlier turns are read again.
MutFreshIds(memory, refs) == refs

\* find_artifact_references without those already in DOCUMENTS.
FreshIds(memory, refs) ==
  LET fresh == {i \in DOMAIN refs : refs[i] \notin Hydrated(memory)}
      place(i) == 1 + Cardinality({j \in fresh : j < i})
  IN [k \in 1..Cardinality(fresh) |-> refs[CHOOSE i \in fresh : place(i) = k]]

\* load_or_create for the hydration, and the ids that are new to that memory.  Without a
\* runtime there is nothing to hydrate from.
BeginHydration(c) ==
  /\ call[c].at = "hydrate"
  /\ LET memory == IF Stored(c).there THEN Stored(c) ELSE Fresh
         ids == IF Persistent(c) THEN FreshIds(memory, call[c].req.refs) ELSE <<>>
     IN Become(c, [call[c] EXCEPT !.at = "reading", !.memory = memory, !.todo = ids, !.left = SummaryMax])
  /\ UNCHANGED <<sessions, crossed>>

\* Tiers of _read_text_or_handle.
Tier(a) ==
  IF Size[a] >= SummaryMax THEN "handle" ELSE IF Size[a] < InlineMax THEN "inline" ELSE "summary"

Least(m, n) == IF m < n THEN m ELSE n

Doc(a, tier, bytes) == [id |-> a, tier |-> tier, bytes |-> bytes]

\* The document made of artifact a: a handle when it is big or cannot be read now.
DocOf(a, left, readable) ==
  IF Tier(a) = "handle" \/ ~readable THEN Doc(a, "handle", 0)
  ELSE Doc(a, Tier(a), Least(Size[a], Least(left, InlineMax)))

\* The next artifact: unknown to this session, or added to DOCUMENTS, or not addable
\* (the section is full or refuses); the budget of the turn ends the loop.
ReadArtifact(c) ==
  /\ call[c].at = "reading" /\ call[c].todo # <<>> /\ call[c].left > 0
  /\ LET k == call[c]  a == Head(k.todo) IN
       \/ /\ Owner[a] = k.scope
          /\ \E readable \in BOOLEAN :
               LET d == DocOf(a, k.left, readable) IN
                 Become(c, [k EXCEPT !.todo = Tail(@), !.left = @ - d.bytes, !.new = Append(@, d),
                                     !.memory.docs = Append(@, d)])
       \/ Become(c, [k EXCEPT !.todo = Tail(@)])
  /\ UNCHANGED <<sessions, crossed>>

\* The hydrated memory is saved through the store, so that the turn loads it.
SaveHydration(c) ==
  /\ call[c].at = "reading" /\ (call[c].todo = <<>> \/ call[c].left = 0)
  /\ IF call[c].new # <<>> THEN Save(c, call[c].memory) ELSE UNCHANGED sessions
  /\ Become(c, [call[c] EXCEPT !.at = "turn", !.memory = NoMemory])
  /\ UNCHANGED crossed

\* Anything that raises on the way is logged and the turn goes on; when the save raises,
\* the artifacts are still reported.
HydrationFails(c) ==
  /\ \/ call[c].at = "hydrate" /\ Become(c, [call[c] EXCEPT !.at = "turn"])
     \/ call[c].at = "reading" /\ call[c].new # <<>> /\ (call[c].todo = <<>> \/ call[c].left = 0)
          /\ Become(c, [call[c] EXCEPT !.at = "turn", !.memory = NoMemory, !.kept = FALSE])
  /\ UNCHANGED <<sessions, crossed>>

-----------------------------------------------------------------------------
\* One turn of the runner, and the fold of its events.

\* The turn loads the session for itself.
BeginTurn(c) ==
  /\ call[c].at = "turn"
  /\ LET memory == IF Stored(c).there THEN Stored(c) ELSE Fresh IN
       Become(c, [call[c] EXCEPT !.at = "running", !.memory = memory, !.seen = memory.docs])
  /\ UNCHANGED <<sessions, crossed>>

\* The events a turn may leave: a pause ends it without a summary of its cost.
TurnEvents ==
  {e \in [paused : BOOLEAN, budget : BOOLEAN, error : {"none", "surfacing", "other"},
          cost : TurnCosts, summed : BOOLEAN] : e.paused => ~e.summed /\ e.error = "none"}

OverMaxCost(cap, cost) == cap # NoCap /\ cost > cap

\* _surfacing_error_from_status: credentials, limits and transport, not every RunError.
Surfacing(e) == e.error = "surfacing"

\* The turn saves the session, its events end, and the reply is built from what they said.
EndTurn(c) ==
  /\ call[c].at = "running"
  /\ \E e \in TurnEvents :
       LET k == call[c]
           cost == IF e.summed THEN e.cost ELSE 0
           told == [Result(k.sid) EXCEPT !.paused = e.paused, !.cost = cost, !.docs = k.new,
                                         !.budget = e.budget \/ OverMaxCost(k.req.cap, cost)]
       IN Become(c, Closed(k, e, IF Surfacing(e) THEN Refusal ELSE told))
  /\ Save(c, [call[c].memory EXCEPT !.turns = @ + 1])
  /\ UNCHANGED crossed

\* The runner raises: the tool answers with an error.
RunRaises(c) ==
  /\ call[c].at \in {"turn", "running"} /\ Refuse(c) /\ UNCHANGED <<sessions, crossed>>

-----------------------------------------------------------------------------
\* Memory tools.

\* kaos-agent-memory-query and -search: a session that cannot be loaded is an error.
ReadMemory(c) ==
  /\ call[c].at = "memory" /\ call[c].req.tool \in {"query", "search"}
  /\ IF Stored(c).there
     THEN Become(c, Closed(call[c], call[c].events, [Result(call[c].sid) EXCEPT !.docs = Stored(c).docs]))
     ELSE Refuse(c)
  /\ UNCHANGED <<sessions, crossed>>

\* kaos-agent-memory-clear: the session is deleted first, what the VFS holds for it after.
ClearMemory(c) ==
  /\ call[c].at = "memory" /\ call[c].req.tool = "clear"
  /\ Save(c, NoMemory)
  /\ Become(c, Closed(call[c], call[c].events, Result(call[c].sid))) \/ Refuse(c)
  /\ UNCHANGED crossed

ToolStep(c) ==
  \/ Arrive(c) \/ BeginHydration(c) \/ ReadArtifact(c) \/ SaveHydration(c) \/ HydrationFails(c)
  \/ BeginTurn(c) \/ EndTurn(c) \/ RunRaises(c) \/ ReadMemory(c) \/ ClearMemory(c)

ToolsNext == \E c \in ToolCalls : ToolStep(c)

ToolsSpec == ToolsInit /\ [][ToolsNext]_toolVars

-----------------------------------------------------------------------------
Bytes(docs) == FoldSeq(LAMBDA d, sum : d.bytes + sum, 0, docs)

Agrees(k) ==
  /\ k.scope = k.sid
  /\ k.req.tool \in {"query", "search", "clear"} /\ k.req.ctx # Nobody => k.reply.of \in {Nobody, k.req.ctx}

\* What the reply of a turn says of it: an error for a failure the caller can act on and
\* then only, a flag for a cap its summary went over, a pause as a pause.
Told(k) ==
  k.reply.kind = "result" /\ RunsAgent(k.req) =>
    /\ k.events.error # "surfacing" /\ k.reply.paused = k.events.paused
    /\ k.reply.budget <=> k.events.budget
                          \/ (k.req.cap # NoCap /\ k.events.summed /\ k.events.cost > k.req.cap)

\* Every call stays in one session from its arguments to its reply, and a memory tool in
\* its caller's own (_resolve_caller_session_id, _build_invocation_context); a session
\* holds each artifact once and only its own ones, at most a turn's budget of them is
\* read at once, and what was hydrated the turn finds when it loads the session, as long
\* as its save worked and no other call was at work there (hydrate_artifacts_from_message).
ToolsSound ==
  /\ \A c \in ToolCalls : LET k == call[c] IN
       k.at # "idle" /\ k.sid # Nobody =>
         /\ Agrees(k) /\ Told(k)
         /\ k.left <= SummaryMax
         /\ Bytes(k.new) <= SummaryMax
         /\ k.at = "running" /\ k.kept /\ k.sid \notin crossed => Range(k.new) \subseteq Range(k.seen)
  /\ \A s \in SessionIds : LET docs == sessions[s].docs IN
       /\ \A d \in Range(docs) : Owner[d.id] = s
       /\ Cardinality(Hydrated(sessions[s])) = Len(docs)

\* What a comment says of the reply's hydrated artifacts: they were picked up this turn.
RepliedIsSeen == \A c \in ToolCalls : call[c].sid \notin crossed /\ call[c].at = "running" =>
  Range(call[c].new) \subseteq Range(call[c].seen)

\* What _format_inline shows: the whole artifact.
InlineIsWhole == \A s \in SessionIds : \A d \in Range(sessions[s].docs) :
  d.tier = "inline" => d.bytes = Size[d.id]

\* What a comment says of the reply: spending over the cap is always flagged.
OverspendTold == \A c \in ToolCalls : LET k == call[c] IN
  k.at = "done" /\ k.req # Nobody /\ k.req.cap # NoCap /\ k.events.cost > k.req.cap => k.reply.budget
=============================================================================
