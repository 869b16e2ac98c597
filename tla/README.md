# A TLA+ verification of kaos-agents

kaos-agents is an agent runtime: a `Runner` drives one turn of an agent over a
`SessionMemory` kept in files, classifies the request, lets one of six patterns
(chat, research, retrieval, plan-execute, agentic loop, router) answer it with
tools and model calls, and streams the events. An HTTP API and an MCP surface
create, continue, approve and delete sessions. The process keeps no session
between requests: what a session *is* lives in files, and every request loads
it, changes a copy across many awaits, and writes it back.

This directory holds TLA+ modules for the parts of that runtime in which the
order of steps decides what is right, TLC configurations that check them on
small instances, and TLAPS proofs for every value of the constants. Every
definition is translated from the code under `kaos_agents/`; the comment on it
names the function. Line numbers below are of the same commit.

    tlc -workers 2 -config MCSessionStore.cfg MCSessionStore.tla    # check
    tlapm SessionStoreProofs.tla                                    # prove

## 1. The system

| Component | State it keeps | Operations | Interacts with |
|---|---|---|---|
| Atomic file replacement (`memory/store.py` `_atomic_write`) | `path`, `{path}.tmp` | one save: open, write + fsync, `os.replace` | each save in a thread of its own (`asyncio.to_thread`) |
| Session store (`memory/store.py`, `memory/session.py`) | `memory.json`, `graph.ttl` of each session | load_or_create, load, save, delete, exists | atomic files; called by agents, handlers, AuditHook |
| Turn (`runtime/agent.py`) | one in-memory `SessionMemory`, its RDF graph | begin, classify, dispatch to the pattern, record ACTIONS and triples, save | session store, pattern, events |
| HTTP handlers (`api/server.py`) | none | create, append turn, delete, message, approve | session store, Runner |
| Plan walk (`planning/compose.py`, `graph.py`, `route.py`, `evaluate.py`, `types/planning.py`) | `PlanGraph`, `PlanBudget` | waves: abort conditions, parallel acts, judge, charge, route | executor tools, judge |
| Strategies (`planning/strategies/`) | the shared budget, the attempt | direct, decompose, adaptive (rolling) | plan walk, expand |
| Permission and approval (`types/permissions.py`, `actions/tool_bridge.py`, `runtime/runner.py`, `runtime/interrupts.py`) | rules; `kaos-agents/runs/{run_id}` files | gate at the call, gate at the span, pause, resume, approve | tool executor, pattern, session store |
| Circuit breaker (`action/circuit.py`) | per tool: state, failures, time, probe flag | allow, record success and failure | hook dispatch, Actor |
| Memory sections and assembly (`memory/sections.py`, `memory/session.py`, `context/assemble.py`, `memory/summarize.py`) | items under token and item budgets, access tracking | add, evict, read, summarise, trim to a total, assemble | the turn, the model's context |
| Delegation and handoff (`runtime/delegation.py`, `runtime/runner.py`) | depth in a context variable | nested run on a child session or on the parent's | Runner, hooks, session store |
| A turn and its stream (`runtime/agent.py`, `patterns/chat.py`, `patterns/research/`) | span stack, tool queue, what is to be saved | classify, tool loop in a task, document query and retry, gates, fallbacks | session store, findings, plans |
| Plan turn (`patterns/plan_execute.py`, `synthesize.py`) | plan result, events told so far | execute, narrate, synthesise, note a failure | plan strategies, session memory |
| Agentic loop (`patterns/agentic_loop.py`) | iteration, allowed groups, verdict, note, caps | plan tools, elevate, work, check, criticise, refuse | turn policy, goal check, critics, citation gate |
| Reflexion and router (`patterns/reflexion.py`, `router.py`) | attempts and critiques | route, answer, score, try again | specialists, session |
| Findings (`patterns/findings.py`, `tools/findings.py`) | survivors, spending | enumerate, waves of filter calls, synthesise or refuse, narrow and widen | research dispatch, MCP tool |
| Agent loop v2 (`loop/`, `termination/`, `escalation/`, planners) | event collectors in a context variable, shared judge, stream queue | open, classify, plan, sub-turns, judge, escalate, stream | planners, judge, sinks |
| Action layer (`action/`, `planning/plan_execute_planner.py`) | token buckets per pattern | classify a plan, rate-limit, dispatch or hold | planner, permissions |
| Retrieval (`tools/retrieval.py`, `context/retrieval.py`) | process-wide index and embedding caches | search, rerank, expand, reflect, in rounds | corpora, session documents |
| MCP agent tools (`tools/registry.py`, `runtime/artifact_hydration.py`) | none of their own | chat, plan, memory query, search, clear | Runner, session store, artifacts |
| Command line (`cli/chat.py`) | corpus cache on disk, running totals | load files, commands, turns, explain records | runtime, corpus |
| Governance (`governance/`, `core/invocation.py`) | audit log file, overrides, snapshots | append, override, snapshot, charge | hooks, VFS |
| Knowledge and lessons (`memory/institutional.py`, `promotion.py`, `lessons.py`, `isolation.py`) | entries by matter, LESSONS section | promote, query, write, recall | session memory, guard |
| Refinement (`output/refine.py`, `critic.py`, `feedback.py`) | best iteration, patience | produce, score, feed back | plan turns, rubric judge |
| Perception (`perception/perceiver.py`) | none between queries | ask the sources in order until it is enough | knowledge base, memory, tools, RAG |
| Citations (`citations/verifier.py`) | lookups in flight | look up, fall back, judge, gather | CourtListener |
| Hooks (`hooks/`) | per hook; OTel spans by id | decisions folded over all hooks, observers | Runner, v2 loop |
| Everything else (prompts, parsing, rendering, definitions, triggers, replay, intent, benchmarks) | immutable configuration or none | text in, text out | — |

`PROJECT.json` lists every component with its files and its status.

**What is hard here.** No lock guards a session: requests of one session, the
turn's own AuditHook, a handoff and a DELETE all load, modify and save the same
two files (interleaving, stale state). A session is two files and a pause is
three, written one after the other (crashes, partial failure). A ReAct loop runs
in a task that outlives the stream that drains it, and the Runner sees a tool's
span after the tool was dispatched (ordering). A paused run can be approved at
any later time, twice, or under another policy (protocol sequence). Steps of a
plan wave return in any order while one budget is charged (limits, partial
failure), and the strategies around it retry (termination). Parallel calls share
a breaker and report in states other than the one that admitted them (stale
state), or never (liveness). `PROJECT.json` "hazards" names each at its line.

Caches outlive what they were computed from (a corpus object, a file, the
documents of a session). Loops around a turn stop for one of several reasons in
an order that matters (verdict, stuck, caps, patience). Context variables nest in
one task and fork in another.

**What makes each component correct.** Files: a reader sees one complete save,
an acknowledged save lasts. Session: acknowledged turns last, deleted ones are
gone, both files agree, the count covers the messages. Sections: within their
limits, nothing more valuable evicted than kept, nothing evicted needlessly. Walk:
dependencies first, nothing hidden by SUCCESS, nothing started after a failure,
everything charged. Strategies: one budget over all attempts, bounded retries, an
end. Approval: no asked-about tool runs before an approval, a pause can be
restored, a message is recorded once. Breaker: open exactly after enough
failures, one probe whose flag is taken back. Delegation: the counter is the
nesting, nothing that finished is missing from a session one turn at a time held.
Turns: nothing shown that a gate refused, what is shown is what is recorded, an
end. Outer loops: what ships was let pass or owned up to, within the caps, granted
tools only, an end. Findings: the union of the runs, all spending known, the true
reason of a refusal. Retrieval: rows are whole, distinct and of the right corpus,
the best score wins. Records (audit, traces, totals): nothing twice, nothing
invented, sums that agree.

## 2. The modules

| Module | Models | Extends / instantiates |
|---|---|---|
| `AtomicFile` | abstract: a file replaced whole, in order, until writers contend | — |
| `AtomicWrite` | `_atomic_write` at the level of POSIX calls | refines `AtomicFile` |
| `SessionLog` | abstract: one session as a log of turns | — |
| `SessionStore` | one session, the requests that use it, AuditHook | refines `SessionLog`; a write of a file is atomic, by `AtomicWrite` |
| `PlanCompose` | `compose()` over one graph | — |
| `PlanStrategy` | adaptive, decompose, direct | EXTENDS `PlanCompose` and composes with its actions |
| `Approval` | policy, gates, pause, resume, approve endpoint, over one session | its session save is atomic, by `SessionStore` |
| `CircuitBreaker` | one tool's circuit under parallel calls | — |
| `SessionMemory` | sections, view and summaries of one session's memory | — |
| `Delegation` | nested turns, hand-offs, hooks and policies | the save is atomic, by `SessionStore` |
| `AgentTurn` | the turn of a chat or research agent, as its stream shows it | — |
| `PlanTurn` | the plan pattern around a finished plan | a plan is what `PlanStrategy` returns |
| `RefineDeliverable` | refinement loop over plan turns | EXTENDS `PlanTurn` |
| `Reflexion` | reflexion over the router | — |
| `AgenticLoop` | outer critic loop | — |
| `Findings` | findings agent and its two callers | — |
| `AgentLoop` | v2 loop, nested and streamed | — |
| `ActionGate` | rate limits and Actor; the plan-execute planner that acts through it | — |
| `RetrievalTools`, `AdaptiveRetrieve` | the retrieval tools; retrieval in rounds | — |
| `AgentTools` | MCP tools over sessions and artifacts | — |
| `CorpusLoad`, `ChatRepl` | the chat command: loader and loop | a load is an outcome in `ChatRepl` |
| `Governance`, `Knowledge` | audit log, overrides, snapshots; knowledge base and lessons | — |
| `Perception`, `Citations` | the Perceiver; the citation check | — |
| `Tracing` | OTelHook and what feeds it | — |
| `*Proofs` | the theorems of the module they EXTEND | TLAPS |
| `MC*` | values of the constants, symmetry; a sum of parts where one run checks several | the modules they EXTEND |

### AtomicWrite
Each writer is a thread inside `_do_write`; `pc` is the statement it is at.
`Begin` is `save()` having rendered its bytes, `Open` the `open("wb")` (create
or truncate), `Write` write + flush + fsync, `Replace` / `ReplaceFails` the
`os.replace` that succeeds or finds the name gone, `Crash` the death of the
process with both files surviving. Descriptors follow the file, not the name:
after one writer's rename, another writer's descriptor refers to what is now
`path` itself (`Renamed`). Write over older bytes may leave a mix (`Torn`): the
new bytes may be shorter. `overlapped` is a history variable: whether two saves
of the path were ever in progress at once. A power failure between fsync and
rename is a `Crash`; a disk that loses fsynced data is outside the model.

### SessionStore
Each request has a `kind` (`message`, `iteration` — the internal pass of an
outer loop —, `append`, `create`, `delete`) and walks the statements of its
handler: `Exists`, `Load`, `Hydrate` (load_or_create), `BeginTurn`, `Classify`,
`Dispatch` (`BaseAgent._run_inner`), `SaveMem`, `SaveGraph` (save), `Finish`,
`UnlinkMem`, `UnlinkGraph` (delete). `held[r]` is its `SessionMemory`, `kg[r]`
its graph; contents are reduced to the request they stem from. AuditHook, which
the Runner awaits on every event, is part of the step that emits the event.
`Faults` lists what may fail; every fault in the code's error paths has its
action or disjunct. `Serial = TRUE` makes clients wait for each other: the
design note `docs/design/preflight-audit-arch-2026-05-13.md:33-46` names the
single writer as the assumption the store makes. `Serial = FALSE` lets requests
overlap at every await. The VFS is GLOBAL, the documented default.

### PlanCompose and PlanStrategy
A plan is whatever `expand` may return: `n` steps, each depending on earlier
ones or on itself, some with `abort_if`, some of these with `pivot_to`. `Launch`
/ `Pivot` evaluate the abort conditions of the ready set and start what is left,
`Act` lets one act of the wave return, `Process` judges the results in plan
order, marks, charges the budget and routes; `Complete` and `Stuck` leave the
loop. `Verdicts` is what `evaluate` can say of each kind of output. `Clock` lets
the wall-clock limit pass at any moment. `MaxCost` stands for the token limit as
well: both are checked with `>=` after the charge.
`PlanStrategy` adds the loop around it: `Assess`, `DirectAct`, `FallBack`,
`Expand`, `Return`, `Retry` of `execute_adaptive` / `execute_decompose` /
`execute_direct`; `ComposeStep` is a `Walk` action of `PlanCompose`.

### Approval
A stream answers one request: a new message (`Send`), a run approved through the
endpoint, which builds a Runner with the default policy (`Continue(s, p,
"safe")`), or `Runner.resume` (`"request"`), or one that is denied or answered
404 (`TurnDown`). `react` holds the streams whose ReAct loop still runs, whether
or not anybody drains it. `Call` is a tool call with the gate of `tool_bridge`;
`Pass` / `Pause` are the Runner handed the TOOL_CALL START span, immediately in
chat, after the walk and only for completed steps in plan-execute. A pause
writes snapshot, event log and RunState (`SaveMemory`, `SaveEvents`,
`SaveState`) and announces itself. `Restore` writes the snapshot over the
session. The session maps each message to how often it is recorded, so that a
double record is visible. `Evaluate` is `PermissionPolicy.evaluate` with its
order of checks. `degraded` is a history variable: a run went on without its
snapshot (a failed write or read, which the code logs and tolerates).

### CircuitBreaker
`Calls` are slots of calls in parallel. `AllowClosed`, `AllowProbe`, `Refuse`
are `allow()` with `state_for()`'s passage from OPEN to HALF_OPEN; `Succeed` and
`Fail` the COMPLETE span, `Lose` a call that ends without one (timeouts end in
the ERROR phase, cancelled turns in none). `Enforced = FALSE` is the Runner: its
SKIP drops the event of a call that was already dispatched, so a refused call
runs and reports as well. `Enforced = TRUE` is the Actor of the v2 loop. `lost`
records that a probe ended without a report.

### SessionMemory
`sec[t]` is one `Section`: items (number, size, priority), token count, access
tracking. `Add` is `SessionMemory.add` with the whole of `Section.add`: budget,
`EvictTokens` under the policy (`Victim`, the first of those with the least
`Worth`), summary on overflow, tracking; an add
that cannot be made room for raises after what it evicted is gone. `LoadExplicit`,
`BeginTurn`, `EndTurn` (summaries that are due), `Assemble` and `Recall` are the
operations a turn makes; `Restored` is what a reload keeps. `AssembleContext` is
the pure assembly: documents' handle, ranks, trimming to a total (what the sections
trimmed earlier hold is their `Share`). Which items the search ranks first is any
choice; those it found come in the order of the section (`Among`).

### Delegation
A run is one `Runner` turn. `Start` is the application's, `Delegate` a sub-agent
called as a tool (a session of its own), `Handoff` one on the caller's session,
each in the caller's task or in a task of its own, which inherits a copy of the
depth variable. `Enter`/`Leave` set and reset the token. `Use` is a tool call with
the rules of the run's policy and the hooks it has (`HookAction` folds their
answers; one that raises answers nothing). `Finish` saves over whatever is on
disk; `Unwind` is a cancellation or a pause below. `shared` is a history variable:
sessions two turns held at once.

### AgentTurn
`pc` is where the turn waits. `Classify`, `Begin`, `Reply`, `Documents`,
`QueryAnswers`, `RetryAnswers`, `Accept` are the statements of `BaseAgent.run`,
`ChatAgent` and `ResearchAgent`; the tool loop (`ToolStarts`, `ToolEnds`,
`LoopAnswers`, `LoopFails`) runs in a task of its own and `Drain` turns what it
queued into spans. A question to a bound corpus is known without the classifier;
any other message is put to it, so that `ClassifyFails` is open with and without a
corpus. A document query is a tool call to the stream, also one that found too little
(`TellInsufficient`). `Judge` and `Refused` are the gates (no evidence, grounding
floor, refusal policy, caps); the answer of the second query passes none of them. `Abandon` is a reader that leaves at any yield,
`SaveFails` a save that fails. `out` holds what was yielded with the collector's
span stack, `memory` what will be saved.

### PlanTurn and RefineDeliverable
`PlanTurn` starts where `PlanCompose` ends: `Composed` is a plan that returned and
the stream tells its result event by event, with the reader free to leave at each.
REFLECTION is the section the notes on failed plans go to: a full one forgets its
oldest notes (`Noted`), and the end of the turn may put a summary in their place or,
when that does not fit, leave nothing (`Summarized`).
`RefineDeliverable` puts produce, judge criterion by criterion, feedback and the
stop conditions around it; a producer is a plan turn of the session or any
function that reads the refinement's own memory. The best iteration is kept before
its feedback is written and recorded after, so that a write that raises
(`FeedbackRaises`) leaves the best without its record.

### Reflexion
Router and specialists inside attempts: the route (`Route`, with unknown or
unsure choices), the answer, the critique with its clamped score, the wrapped
message of the next attempt, and what is returned when no attempt was approved.

### AgenticLoop
`Plan` is `plan_turn_tool_policy` with elevation and soft ceiling, `Work` the
worker, what `Watched` counts of its tool calls, and the citation gate behind it,
`Check` stuck detection, the heading-only test and the goal check, `Criticise` the
critics. `judged` is what was said of the draft that would be shipped: a worker that
drafts nothing leaves the one before, with its verdict, to be shipped. `Clock`, `Cancel` and `WorkerRaises` may happen at every await.
`Terminate` and `EmitRefusal` choose between the preserved draft and a refusal.

### AgentLoop
Every root turn is a task; sub-turns run in the task of the hierarchical planner.
`active[t]` is the stack of event collectors of the context variable, so that an
event is put where `emit` would put it. `Opening`, `Classified`, `Planned`,
`Reacted`, `OpenSub`, `SubReturns`, `Aggregated`, `Raises` are the turn's steps;
`Settle` is the code from the planner's return to the summary: verdict of the
judge (`FailureIn`, `Repeats`, caps), loop detector (shared by all turns),
escalation, record and usage. The text a turn shows, and the judge weighs, is the
answer or, when that is empty, the repr of the planner's result (`PlanText`; all reprs
are one value, `ResultRepr`), while the loop detector is told the answer itself. So
`Empty` never reaches the judge as a text, and its verdict INCOMPLETE is in `Verdict`
as it is in `judge.py` but no turn of this loop ends with it. `Take` and `Closed` are the stream's consumer.

### Findings
`Tool` and `Dispatch` are the callers; `Enumerate`, `Wave`, calls that `Answer`
or `Raise` in any order, `Collect`, `SynthesizeAnswer`, refusals with their reason; the dispatch
narrows a large corpus and widens it again (`scope`, `first`). What a call costs
is known when it answers. `paid` is a history variable of all that was spent.

### ActionGate
The token buckets of `RateLimiter` (`PatternOf`: the first glob that matches),
`Actor.forward` with `classify_plan`, and the planner that acts through it
(`planning/plan_execute_planner.py`): a plan of steps that perceive, act or
respond, whose acts are put to the Actor with the reversibility the planner's
default gives them. A caller's own plan has any reversibility for any tool: the Actor
takes it as it is and never looks at a tool's annotations. `exec.prior` is what an
answer is told of earlier steps, `exec.records` what each step came to, a step that
raised excepted, and `exec.raised` (history) those that did.

### RetrievalTools and AdaptiveRetrieve
`RetrievalTools` has one action for each kind of await of the eight tools, over
the corpus of a context or the documents of a session; `Bind` gives a context
another corpus, at an address that may have been used before. `AdaptiveRetrieve`
has one action for each round of `adaptive_retrieve`, and the embedding cache
under its sampled key; documents change between retrievals.

### AgentTools
Two calls at a time of the MCP tools over one store: resolution of the session,
hydration of the artifacts a message names (tiers, budget, failures at each
await), the turn and its end, and the reply that is folded from its events.

### CorpusLoad and ChatRepl
`CorpusLoad` is the loader at the level of its file operations: workers that
hash, probe, parse, write and rename, over files that are edited and a process
that is killed. `ChatRepl` is the loop around it: prompt, commands, a turn's
events (nested runs among them), totals, cap, alert, log and exit. The agent starts
with any of the three patterns of `--pattern`, and a corpus changes only that of a chat
agent. Every summary of the turn's own run is absorbed into the totals, the record is
appended with the first and says what the last said: `before`, `spent` and `summaries`
are history of each record, so that the sums can be stated.

### Governance, Knowledge, Perception, Citations, Tracing
`Governance` is the read-and-write append of the audit log under overlap and
failure, with overrides and snapshots of a turn. `Knowledge` has the knowledge base
under a guard, promotion, and lessons. `Perception` asks one source at a time and
stops when it is confident. `Citations` has the lookups behind the semaphore, the
fall-back, `Judge` and the two ways gather ends early; what CourtListener answered is
kept beside the status (`lookup.case`, `NoAnswer` for an outage), so that a status can
be held against its answer. `Tracing` has the OTel
hook's dictionaries as functions from keys to spans, fed by the v1 Runner's
awaited dispatch or by the v2 adapter's scheduled ones.

## 3. The runs

Most runs check a *sum*: a host module EXTENDS several specifications and a
variable `part` says which of them moves in a behaviour; the others stay as they
began. A property of one part is checked on the behaviours of that part, exactly
as by a run of its own; nothing is claimed about the parts together except where
the modules themselves compose (`PlanStrategy` over `PlanCompose`,
`RefineDeliverable` over `PlanTurn`, the planner of `ActionGate` over its Actor).

| Run (host) | Parts and properties | Bounds and why they are enough | Distinct states |
|---|---|---|---|
| `atomic_write` (`MCAtomicWrite`) | AtomicWrite: `SavesSound`, refinement `IsAtomicFile`. CorpusLoad: `CorpusSound`. ChatRepl: `SessionAccounted` | 3 writers, 5 saves: two contend while a third renames, and saves follow a contention or a crash. 3 files of 4 texts (one unreadable, one blank), 2 workers so that the third file waits, copies and different files to begin with, 2 loads over one cache, 1 edit, 1 kill. 4 command lines with all three patterns, costs below and at the cap, 3 turns, 2 commands, 2 events per turn (two of them summaries) | 906,716 |
| `session` (`MCSessionStore`) | `NoLostTurn`, `Forgotten`, `GraphGrows`, refinement `IsSessionLog` | 3 requests: one leaves something, one fails or deletes, one reads the result; audit on; faults crash, abandon, classify, write | 98,823 |
| `session_overlap` (`MCSessionStore`) | `TurnsCounted` | 3 requests overlapping at every await, all six faults | 514,168 |
| `compose` (`MCPlanCompose`) | PlanCompose: `WalkSound`, `ChargedUnlessCut`. AgentTools: `ToolsSound`. AdaptiveRetrieve: `RetrieveSound` | every graph of up to 3 steps (chain, fan-in, fan-out, self-loop, width 3), 4 steps, 1 replan, costs that reach the limit inside a wave. 2 calls, 2 sessions, 3 artifacts of sizes below, at and above the limits, so that one is refused and one is cut. 3 ids, two texts that look alike to the sampled key, all round limits, 2 changes | 1,134,986 |
| `approval` (`MCApproval`) | `PauseSound`, `AskHolds`, `PlanStops` | 3 streams: one pauses, two more approve, deny, approve twice or send; 2 tool calls in all, two tools (one a delegation tool, one hooked), no rule / ask / overlapping rules, a plain and a destructive annotation, both patterns, all five faults | 646,436 |
| `turn` (`MCAgentTurn`) | AgentTurn: `TurnSound`, liveness `TurnEnds`. CircuitBreaker: `BreakerSound`, liveness `ProbeResolved`. Tracing: `TraceSound` | chat without tools, with ranked tools and with a cap; research over every kind of corpus, cap none / 0 / 3 around an estimate of 1 and costs 1 and 3, both switches, room for one or two items; 2 tool calls. 3 calls at a time (a probe, an older call, a refused one), threshold 2, failures capped at 6. 2 turns or 2 programs sharing 2 ids, 4 spans, 3 pending dispatches | 435,106 |
| `session_memory` (`MCSessionMemory`) | SessionMemory: `MemorySound`. RetrievalTools: `RetrievalSound`. Governance: `GovernanceSound`. ActionGate: `GateSound`, `PlanSound` | one learned section per policy and profile, items that fit once or never (1 and 3 of 3), 3 items, 2 reads. 2 corpora of 3 passages at 2 addresses, each limit below what is found. 2 runs over one log, 2 events and 2 operations. 4 tools (no rule, allowed, asked about, denied) over three buckets (2 with refill 1, 1 with 2, 1 with none), 3 calls at times 0..2; plans of every tier, waived or not. Plans of up to 4 steps of which 3 are executed, each of which may find nothing or raise | 428,765 |
| `delegation` (`MCDelegation`) | Delegation: `DelegationSound`. RefineDeliverable: `RefineSound`. Reflexion: `ReflexionSound`. Knowledge: `KnowledgeSound` | 4 turns of two agents that call and hand off to each other (one may call itself), limits 1, 2 and 3, 2 calls each: every limit is met. 3 rubrics (plain, a weight of zero, one id twice), 3 iterations with patience 1. 2 specialists, scores outside their range, 1 or 3 attempts. 2 matters, 4 candidates, a budget of 3 with lessons of 1, 2 and 4 | 342,581 |
| `agent_loop` (`MCAgentLoop`) | AgentLoop: `TurnsSound`, liveness `StreamEnds`. PlanStrategy: `StrategySound`, liveness `EndsEventually` | 2 turns of one loop, one streamed with up to 2 sub-turns (side by side and nested), a window of 3 that earlier turns may have filled, failures within and before the last 2 events. Plans of up to 2 steps, 2 replans: three attempts, with a limit of 3 steps that any of them may reach | 131,922 |
| `agentic_loop` (`MCAgenticLoop`) | AgenticLoop: `IterationsSound`, liveness `LoopEnds`. Citations: `CitationsSound`. Perception: `PerceptionSound` | 3 iterations, 4 groups (one of each tier), 5 texts that are empty, too short, substantive, alike or heading only, costs 0, 1, 3 against a cap of 4, 2 calls, 2 tools, a critic of each kind. 3 citations over a semaphore of 2, years on both sides of one apart. 2 tools under three hint patterns, yields whose mean is on, above and below the threshold | 641,783 |
| `findings` (`MCFindings`) | `FindingsSound`, liveness `Returns` | corpora of 0, 2, 3, 5, 7 and 8 sentences (empty, one wave, more than one, too many chunks, too many sentences), chunks of 2, waves of 3, 2 runs, caps none / 3 / 7 around what a wave may cost | 59,133 |
| `citation_note` (`MCAgenticLoop`) | violation of `CitationsReachWorker` | as `agentic_loop`, with the citation gate on | — |

What the properties say is in the comment on each. The larger ones are
conjunctions of named parts (`TurnsSound` of `RecordIsOwn`, `UsageOnce`,
`VerdictSound`; `SavesSound` of `NeverPartial`, `AckedOnDisk`, `NeverMissing`, and
so on); the parts that only say what type a variable has are conjuncts of these
and are not counted as properties.

CHECK_DEADLOCK is off where the modelled system ends: requests are sent once,
saves are bounded, plans, loops and strategies return. `findings` and `turn`
are checked for deadlock: their ends stutter explicitly.

**Symmetry** is used over writers, requests, streams and nested turns, in runs
without liveness properties (the action properties and refinements there treat
permuted values alike).

**Fairness.** What is awaited returns, because a tool call is under
`asyncio.wait_for`, a model call under a client timeout, and an exception becomes
a result or an end; and a task that can run does. So `PlanCompose` and
`PlanStrategy` assume weak fairness of the whole walk and the whole strategy,
`CircuitBreaker` that every call ends (`Report`, which includes ending without a
report), `AgentTurn` of the turn and, apart from it, of the tool loop's task, `AgentLoop`
that the event loop runs something as long as a task or a consumer can run,
`AgenticLoop` of the loop's own steps (`Cancel` and `WorkerRaises` are not among
them), `Findings` of the calls in flight and of the agent. Nothing is assumed of which result
comes first, of a judge, of time, of faults or of a reader. The other modules
state safety only and assume no fairness.

**Bounds in guards**: `MaxSaves` (AtomicWrite), `MaxCount` (CircuitBreaker),
`MaxCalls` (Approval, AgentTurn, Delegation, ActionGate), `MaxItems`, `MaxReads`
(SessionMemory), `MaxLoads`, `MaxEdits`, `MaxKills` (CorpusLoad), `MaxTurns`,
`MaxCommands`, `MaxEvents` (ChatRepl), `MaxChanges` (AdaptiveRetrieve),
`MaxEvents`, `MaxOps` (Governance), `MaxPlans`, `MaxClock` (ActionGate),
`MaxLength` (ActionGate's planner), `MaxEntries`, `MaxWrites` (Knowledge),
`MaxPlanTurns` (PlanTurn), `MaxSubs` (AgentLoop), `MaxSpans`, `MaxLLMCalls`,
`MaxPending` (Tracing). `MaxIterations`, `Patience`, `MaxSteps` and `MaxReplans`
are settings of the program. Each request of `SessionStore`, each stream of
`Approval` and each run of `Delegation` is used once.

## 4. What is proved

All theorems are checked by TLAPS to the last leaf, for any values of the
constants that satisfy the named assumption in the module.

* **AtomicWrite** (`AtomicWriteAssumption`: the three marks for contents are not
  numbers). `TypeCorrect`, `SavedWholeHolds`, `SavesSoundHolds`,
  `ImplementsAtomicFile`, for any number of writers. The
  properties are not inductive: a reader's view depends on where the one writer
  is. The invariant adds that payloads are begun, and that as long as no saves
  overlapped at most one writer is busy (`OneWriter`), `tmp` follows its pc
  (`TmpFollows`) and the disk is behind the save in progress (`DiskBehind`). The
  refinement holds without any restriction, because `AtomicFile` has the
  overlap as part of its state.
* **SessionStore**. `TypeCorrect` and `TurnsCountedHolds` for overlapping
  requests and all faults; `NoLostTurnHolds`, `ForgottenHolds` and
  `ImplementsSessionLog` for `Serial`, the second when removals do not fail, and
  `GraphGrowsHolds` for `Serial` when a stored graph can be read back.
  `CountInv` relates every copy, on disk and in hand, to its count, since any
  copy may be the next to be written. `LogInv` says that the one active request
  holds a copy at least as new as the disk; `Clean` that after a DELETE no copy
  and neither file names an earlier request; `GrowInv` that what is in hand between
  the load and the second write holds all that the graph on disk does.
* **PlanCompose**. `TypeCorrect`, `WalkInOrderHolds`, `SuccessMeansAllRanHolds`,
  `WalkSoundHolds` (both), `StepsWithinLimitHolds` and `ChargedUnlessCutHolds`, for
  plans of any size, limits and costs. `WalkInv` ties statuses, outputs, the wave and the phase
  together: what is running is the rest of the wave, what was skipped while
  walking descends from an aborted step, and the step limit has room whenever
  the walk goes on. `ChargeInv` says that what is charged at any moment is what has
  left its wave; that a sum over a set grows by the step that joins it, in whatever
  order the set is enumerated, is a section of lemmas of its own (`SumPlus`).
* **RefineDeliverable** and **PlanTurn** (`RefineAssumption`, `PlanTurnAssumption`:
  rubrics weigh in numbers, plan results are results, limits are numbers).
  `RefineSoundHolds`, for any rubrics, results, costs and bounds, and for any
  `min_gain_per_iter`, which nothing in `refine.py` bounds from above: a gain beyond the
  range of rates makes the first iteration idle too (`Gains`). `TurnInv` relates the stream of a plan turn to its plan:
  numbers grow, the books add up the usage that was told, what has been told is the
  steps up to the place the turn has come to (`ToldSoFar`), and the answer is of the
  outcome (`AnsweredSoFar`). `LoopSoFar` says of a refinement that goes on how many of
  the last iterations were idle, from which `early_stop` follows.
* **PlanStrategy**. `AttemptsWithinBudgetHolds` and `StrategySoundHolds`, from `StrategyInv` and the lemma `WalkBudget` on
  how a step of the walk moves the budget.
* **AgentTurn** (`BoundsAssumption`: the limits and prices are numbers;
  `SetupsAssumption`: setups are setups). `TurnSoundHolds`, for any agents and
  sessions, caps, prices and number of tool calls. `TurnInv` says for each place
  where the turn may wait (`Placed`, `Formed`) what the stream, its span stack and
  the session hold there; that what was billed is on the stream that will be shown,
  also while a redirected handler fills another one (`Waits`); and that a query is
  asked only with its estimate left in the cap (`Gated`). That each tool call is
  recorded once and with its outcome needs `Tooled`: what the task of the tool loop
  tells is a tape, start and end of call 1, of call 2 and so on, of which the turn
  has taken a part and the queue holds the rest, so that the position on the tape
  says which span is open. An attempt that is dropped and started again continues
  the tape.
* **CircuitBreaker**. `TypeCorrect`, `TrippedIffFailuresHolds`,
  `BreakerSoundHolds`, for any set of calls and any threshold, in both regimes.
* **Tracing** (`TraceAssumption`: turns are not programs, the mark for no id is
  none). `TraceSoundHolds`, for any turns, programs, ids and bounds. `HookInv` is
  about the dictionaries alone (what they hold is an open span of that key, and an
  id in use twice is what mixes spans up), so that `on_span_start` and
  `on_span_end` are lemmas; `InOrder` says which dispatches of a program are
  scheduled behind which, and `Carried` that none speaks of a call not yet made.
* **Delegation** (`DelegationAssumption`: the runs are finitely many, every agent has
  a limit, every policy a decision and every hook an answer for each tool).
  `DelegationSoundHolds`, for any turns, agents, tasks, limits and hooks. Lines of callers form an order (`LineIsOrder`) in which the running turns
  of one task are a chain (`TaskIsChain`); so the last turn of a task can be named,
  and the depth variable of the task is the length of its line (`DepthOfTask`).
  `SessionsRead` and `RootsRead` say what each running turn had read of its session
  when it began, `HooksKept` that turns on the application's session have its hooks.
* **Reflexion** (`ReflexionAssumption`: scores are integers, at least one attempt). `ReflexionSoundHolds`, for any number of iterations.
  `ToldAll` states the feedback of an attempt by what it must contain (every
  critique with a text, in order), since the text is built by a fold.
* **ActionGate** (`GateAssumption`: patterns are a sequence, each with a capacity and
  a refill, and the policy decides every tool; `PlanAssumption`: the length of a
  plan is a number). `GateSoundHolds`: the rate law for any rates, times and tools,
  from `BucketInv`: from every call on, what was granted and what is left in
  the bucket are within the capacity and the refill since, and from one call on
  exactly that; and what the Actor never dispatches, whatever tier and waiver the caller
  gives. `PlanSoundHolds` for plans of every size, with steps that raise, find nothing or
  are skipped anywhere among the others.
* **Governance** (`GovernanceAssumption`: costs are numbers, the mark for no line is
  none). `GovernanceSoundHolds`. `LogInv` holds of the file and of every copy an
  append has read of it (`Sound`), since any of them may be written next.
* **CorpusLoad** (`LoadAssumption`: loads are of files, a missing file is no text).
  `CorpusSoundHolds`, for any loads, files,
  workers, edits and kills. `SlotSound` relates a worker's stage to the text it
  hashed, what it parsed and the file its descriptor refers to (which a rename of
  another worker may have made the entry itself); `CacheHonest` says that a key
  that is not poisoned holds nothing but the pieces of its text.
* **ChatRepl** (`ReplAssumption`: costs and limits are numbers).
  `SessionAccountedHolds`, for any command lines, patterns, costs and number of summaries
  of a turn. `AddUp` states the sum of the records by their running totals (`before`,
  `spent`), which makes it a fact about neighbours instead of a fold.
* **Approval**. `TypeCorrect`, `StateNamesFilesHolds`, `MessageOnceHolds`,
  `PauseSoundHolds` (both), `AskIsKept`, `PlanStopsHolds`, for any streams, tools,
  rules, annotations, faults and number of calls. The types need `Order` (one
  stream at a time; nothing is told, answered, approved or on disk before its
  stream comes to it), and each theorem its own strengthening: `FilesInv` says of
  each moment of a pause which references are already good; `AskInv` that
  a Runner with the default policy exists only for a message that was approved;
  `ChatInv` that a refused call is one whose span the Runner has to pause on
  (`RefusedIsSeen`: the gate at the span is at least as strict as the one at the
  call) and that no span which passed was such a one; `OnceInv` with `Lineage`
  that a snapshot is the session as it was before the message it will be
  resumed with.

* **Citations** (`CitationsAssumption`: drafts are sequences of citations, the
  limit is a number, the marks for no case and no year are neither).
  `CitationsSoundHolds`, for drafts of any length, any cases and any limit. That a status
  is what the answer says (`Backed`) is a lemma on `Judge`, and `Agrees` is stated without
  its helper `Near`. `StagesSound` ties
  the stage of a lookup to what it has sent and to its status, `GatherSound` says
  what the caller can have been given; that a place is free again when a lookup
  ends needs the set of lookups in flight to be finite (`HoldingFinite`,
  `FewerLemma`).
* **AgenticLoop** (`BoundsAssumption`: groups, costs and limits are what they are in
  the settings, and one of the costs is the greatest). `IterationsSoundHolds`, for any
  groups, answers, critics, costs and limits. `IterationsInv` goes by the position in
  the iteration: what was granted and told (`IterationTyped`), what may have been spent
  (`SpentSoFar`) and how the draft that would be shipped was judged (`JudgedSoFar`). That the watch over the
  texts of the worker has one solution is a lemma on recursive functions
  (`RecursionExists`).
* **AdaptiveRetrieve** (`AdaptiveAssumption`: scores and round limits are numbers).
  `RetrieveSoundHolds`, for any documents, queries, sets of hits and round limits.
  `BestScores` says of the merge what every round keeps (no reported score is
  higher, and the one kept was reported), from which the maximum follows;
  `CallsSoFar` ties what the model was asked to the stage and the round, since only
  together do they bound it.
* **RetrievalTools** (`RetrievalAssumption`: a corpus and a memory are lists of
  distinct passages told by their text, limits are numbers, the mark for no corpus is
  neither a binding nor an index). `RetrievalSoundHolds`, for any contexts, addresses,
  corpora and calls. `IndexesSound` is about the cache alone: no two contexts share an
  address, and a cached index is that of the corpus at its address unless the address
  was given away; `RetrievalCallSound` holds of each call by its stage, so that what
  a call found before it waited for a model is still sound behind it.
* **Perception** (`PerceptionAssumption`: what a Perceiver is built with is what it
  may be, counts are numbers, a source answers with a list of scores).
  `PerceptionSoundHolds`, for any tools, kinds, scores and limits. `TurnedTo` says which
  place of the order the turn has come to and that all sources up to it that can be
  asked were, in their order (`SourcesPlaced`: every source has one place); `WentOn`
  that behind each of them there was not enough, told by the prefix of the items it
  was judged on, so that nothing has to be known about means.
* **Knowledge** (`KnowledgeAssumption`: confidences, scores, sizes and the budget are
  numbers, and the mark of an unbound guard is no matter). `KnowledgeSoundHolds`, for
  any matters, findings, sessions, sizes and budget. `KnowledgeInv` is the property
  with the types of what it speaks of and with suffixes told by places (`Newest`). That
  an answer is in order and leaves out nothing better is a lemma on places: in a
  strict order of a finite set every place from the first to the last is taken once
  (`Placing`). What a section weighs is a sum over its places (`TokensAre`), so that a
  write weighs what is left and the item (`TokensAppend`).
* **Findings** (`NumbersAssumption`: costs, scores and caps are numbers, a call has
  a greatest cost, chunk size, wave and runs are positive; `DataAssumption`: corpora
  are lists of sentences, an answer gives sentences scores). `FindingsSoundHolds`, for
  any corpora, caps, runs, answers and costs, and any order in which calls return or
  raise. `UnitsTold` says of every unit dispatched that it was heard, has answered in
  this wave or is in flight; `BestOfHeard` that a score is the best of what was heard,
  which the union of a wave keeps (`UnionKeeps`); `Counted` adds up what the wave under
  way has answered (`CostsPlus`); and `WithinCap` bounds, under a cap, what was spent
  together with the most that the calls in flight can still cost.
* **AgentTools** (`AgentToolsAssumption`: requests name sessions and artifacts, a message
  each artifact once; sizes and limits are numbers). `ToolsSoundHolds`, for any calls,
  requests, artifacts, owners, sizes and limits. `CallFine` is what holds of a call
  whatever the others do: its session is the one its arguments resolve to, its copy of
  the memory holds artifacts of that session, each once (`MemoryOf`), what it still has
  to read is not among them, and what was read and what is left are the budget
  (`Hydrating`). `FindsNew` ties a call to the saved session as long as no other was at
  work there, and the invariant says that two calls at work on one session are noted.
  What goes through a save is a lemma of its own (`CallSteps`): a call only replaces the
  memory of its session by one that is sound for it. The ids a message adds are stated by
  their places (`FreshIdsAre`), the bytes by sums (`BytesAppend`).
* **SessionMemory** (`SessionMemoryAssumption`: the configured order and the priority
  order name the section types, sizes, budgets, limits and totals are numbers, a
  profile is well formed). `MemorySoundHolds`, for any profile, sections, sizes,
  priorities, thresholds and totals: both the views and what an add evicts.
  `MemoryInv` says of every section that its count is that of its items, that its
  numbers increase (so that `fifo` and `lifo` are about ages), that it tracks only
  items it holds, at moments that have been, and that it is within its limits. What
  an eviction takes is a lemma on one item (`EvictOne`: the least worth, all else
  as it was), then on as many as are needed (`EvictTokens`), by a least counterexample
  on how many went. That a trimmed view fits goes by ranks: behind the section in
  which the excess ends nothing is given, and before it nothing is left
  (`TrimmedFits`); that a section gives up an item only when all less important ones
  are empty follows from their shares being nested (`SharesNest`).
* **AgentLoop** (`TurnsAssumption`: roots and sub-agents are apart, the sub-agents
  finitely many; `TurnBoundsAssumption`, `AnswersAssumption`: limits, costs and the
  window are numbers, results carry answers). `TurnsSoundHolds`, for any number of
  turns, sub-agents and sub-agents inside sub-agents, any answers, window, limits, stream
  mode and policy. `LoopInv` has four parts. `Control` is about the collectors open in
  a task (`NestedIs`): from the bottom up they are a turn's own and the scope around its
  sub-turn in turn, the turns below wait and the one on top runs, and the depth is the number of
  those that have sub-agents (`Doubled`); so an event goes to the turn that tells it. `Costs` says what a record
  holds at each place of its turn, and that `subUse` is the sum of the usage of the
  sub-agents that returned (`UsageSum`). `Sent` tells the events of a turn within its
  queue by their places (`SentIs`). `WindowIs` says that the window is the end of all
  answers given. Nesting goes by `Leads`: a run of stacks over a piece of a record, from
  one stack to another; such runs are joined as the pieces are (`LeadsConcat`), so that
  no step has to look at the whole record. The verdicts are a statement about a step:
  only the steps that settle a turn judge it (`Calm`), and of those the lemma
  `SettledEarned` shows what the judge had seen.

**Only model-checked.**

* Liveness (`EndsEventually`, `ProbeResolved`, `TurnEnds`, `StreamEnds`,
  `LoopEnds`, `Returns`) is beyond this prover.
* The run that ends in a violation.

`SelectSeq` is opaque to this prover, and the theorems of its library on it take an
operator as a parameter, so what is selected from a sequence is stated by its places.
Sums over sets and functions that recurse over numbers can be reasoned about: what an
induction would give follows from a least counterexample, by the well-foundedness of
the order on numbers. Where a theorem is about a value that a fold or a recursive definition builds, the
theorem and the invariant say what the value contains, which a step can be shown
to keep.

## 5. Where the code and its documents disagree

One disagreement has a run of its own (`PROJECT.json` "findings"):

* With the citation gate on, the directives for the citations that failed do not
  reach the worker of the next iteration (`citation_note`): `agentic_loop.py:498-502`
  says they are folded into the thinking note, and the assignments behind the
  critics write over it (`agentic_loop.py:525`).

### Further disagreements

These are stated in the modules, as what a document, a comment or a docstring
says, and refuted by TLC under the run configuration of the module's host or the
constants given, one at a time. They have no standing run.

| Property | Says | Refuted when |
|---|---|---|
| `SessionStore!ActionsInGraph` | `store.py:188-191`, `SECURITY.md:60-61`: the two files of a save agree | `Faults = {"crash"}`: between the two writes |
| `SessionStore!AuditComplete` | `hooks/builtin.py:195-203`: every event is appended to the session | no fault and no overlap: the turn's save overwrites what AuditHook appended while it ran |
| `PlanCompose!Accounted` | `settings.py:317-318`, `README.md:341`: the budget covers what ran | a STOP or REPLAN inside a parallel wave leaves the rest of the wave uncharged |
| `CircuitBreaker!FlagMeansProbe` | `circuit.py:94-95`: the flag is a probe under way | a probe times out: the circuit refuses for good |
| `Approval!RefusalPauses` | `tool_bridge.py:16-20`: a refused call pauses the run | a tool that needs approval in a plan ends the run without a pause |
| `AtomicWrite!NeverTorn` | `store.py:97-99`: a reader sees complete bytes | two saves of one session overlap |
| `SessionStore!DeletedStaysGone` | `SECURITY.md:221-222`: a deleted session is gone | `Faults = {"unlink"}`, or `Serial = FALSE` with no fault: a turn under way saves after the DELETE |
| `SessionStore!GraphGrows` | `types/memory.py:322-323`: the graph only grows | `Faults = {"hydrate"}`: a graph.ttl that does not parse is overwritten |
| `SessionStore!MatterKept` | `api/server.py:151-152`: the session is bound to the matter | `Faults = {}`: create saves nothing, the first turn makes the session again, unscoped |
| `PlanCompose!FussyJudgeKept` | `compose.py:226-232`: a succeeded step stays COMPLETED whatever the judge says | any judge that rejects with confidence |
| `PlanStrategy!KeepsPartialWork` | `decompose.py:101-106`: a round with a successful result is terminal | a wave is cut and its unprocessed successes are expanded again |
| `PlanStrategy!MaxReplansTried` | `decompose.py:122-124`: MAX_REPLANS means replanning was tried | `MaxReplans = 1` |
| `PlanStrategy!PivotReexpands` | `compose.py:159-160`: the strategy re-expands on the pivot goal | any `pivot_to` |
| `CircuitBreaker!OneProbe` | `circuit.py:12-14`: one probe in HALF_OPEN | `Enforced = TRUE`: a late report of an older call clears the flag |
| `CircuitBreaker!ProbeCloses` | `circuit.py:9,105-106`: a successful probe closes the circuit | an older call's success closes it too |
| `Approval!NoLostTurn` | `runner.py:609-611`: resume continues where the run paused | a turn was saved between the pause and the approval |
| `Approval!Forgotten` | `SECURITY.md:61`: a DELETE must delete | a snapshot restored after the DELETE |
| `Approval!ApprovedRuns` | `runner.py:611-612`: the approved tool runs on resume | no rule and a destructive annotation: it pauses again |
| `Approval!EachApproved` | `api/server.py:82-84`: each listed tool is approved | two tools are asked about and one is approved |
| `Approval!Approvable` | `interrupts.py:7-9`, `api/server.py:552-554`: a pause can be approved later | `Faults = {"state"}`, or `Isolated = TRUE` |
| `Approval!StopsAtPause` | `events/tools.py:54`: the run pauses after the event | chat: the ReAct task goes on |
| `Approval!AskedBeforeRun` | `hooks/base.py:98-100`: the hook decides whether the tool executes | a hooked tool that no rule asks about |
| `Approval!DenyWins` | `SECURITY.md:119-120`: DENY has precedence | an ALLOW rule before it |
| `SessionMemory!CorpusAlwaysReachable` | the handle of an attached corpus is always in the context | so many documents that they are searched, and none is a hit |
| `SessionMemory!RecallRecent` | `recall` returns the newest items of a section | the items of a section are more than its budget: it keeps the first that fit |
| `SessionMemory!SummaryReplaces` | a summary takes the place of what it summarises | a summary that does not fit |
| `Delegation!HandoffRecorded` | `runner.py:793-799`, `delegation.py:15-17`: a hand-off continues the session | the caller saves the memory it loaded before |
| `Delegation!RefusedNeverRuns` | `memory/isolation.py`: a refusal comes BEFORE the tool executes | the hook refuses by raising, which dispatch swallows |
| `Delegation!PauseReachesRoot` | a pause below pauses the application's turn | a sub-agent pauses: its caller goes on |
| `Delegation!PolicyReachesAll` | the application's policy binds every turn | a sub-agent runs under the default policy |
| `Delegation!RootCapIsGlobal` | `runner.py:897-900`: the root's limit bounds all nesting | a nested agent with a higher limit of its own |
| `AgentTurn!NothingUngated` | `patterns/research/agent.py`: a refused answer never ships | the answer of the second query passes neither switch |
| `AgentTurn!EverySpanCompletes` | `events/collector.py`: every span that starts completes | a reader that leaves, a save that fails |
| `AgentTurn!RefusalStops` | a budget refusal spends no more | a large bound corpus goes on to the tools |
| `AgentTurn!NoOrphans` | no tool starts once the reader has closed the stream | nobody cancels the task of the tool loop |
| `PlanTurn!JudgesSeenLive` | `plan_execute.py:234-240`: judges and routes are seen live | always: the stream yields after the plan has returned |
| `RefineDeliverable!FeedbackReaches` | `refine.py:18-22,31-38`: feedback reaches the next producer through the session | the producer is a turn: it loads a memory of its own |
| `RefineDeliverable!PerfectPassedAll` | `refine.py:107-110,172`: perfect means that every criterion passed | a criterion of weight 0, or one id twice |
| `RefineDeliverable!BestHasRecord` | `refine.py:99-102`: the history has a record of every iteration | the feedback is larger than its whole section: the write raises behind the choice of the best |
| `Reflexion!FinalIsZero` | `reflexion.py:160-162`: 0 when no iteration was approved | no attempt was approved: `final_iteration` is `max_iterations` |
| `Reflexion!OneMeansNoCritique` | `reflexion.py:286-289`: one iteration has no critique | one attempt: the critic is asked |
| `Reflexion!SessionEndsWithAnswer` | `reflexion.py:264-267`: the session ends with the answer given | an earlier attempt was the best |
| `AgenticLoop!RejectedNeverShips` | `agentic_loop.py:1019-1025`: a rejected draft is not shipped | a stuck turn, a cap after the next planner call, or a cap after a worker that drafted nothing |
| `AgenticLoop!AlwaysTerminated` | `agentic_loop.py:274`: exactly one LoopTerminated | the worker raises, the turn is cancelled |
| `Findings!OvershootIsOneWave` | `tools/findings.py`: at most one wave over the cap | the synthesis costs more than its estimate |
| `Findings!UsageIsSpending` | `runtime/agent.py`: the usage of a dispatch is what it spent | the wider run raises: the first cost counts twice |
| `AgentLoop!StreamIsRecord` | `agent_loop.py:639-655`: a stream is the turn's events | a sub-turn taps the same queue |
| `AgentLoop!FailureIsSeen` | a turn with a failed tool is not COMPLETE | the failure is behind the last events the judge reads |
| `AgentLoop!EmptyIsIncomplete` | `judge.py`: a turn without an answer is INCOMPLETE ("no result produced; replan") | any empty answer: its repr is weighed instead |
| `AgentLoop!LoopIsThisTurns` | LOOP_DETECTED is about this turn | the window holds answers of other turns |
| `ActionGate!VisibleIsApproved` | `actor.py` classify_plan: a visible action needs approval | a rule allows the tool |
| `ActionGate!FailureIsSkipped` | docstring 34-37: a failed step is recorded as skipped | a step raises: nothing is recorded |
| `ActionGate!AnsweredOnce` | an answer says nothing twice | two respond steps |
| `RetrievalTools!IndexOfCorpus` | `retrieval.py:59-72`: the index is the corpus's own | another corpus at the address of one that is gone |
| `RetrievalTools!CountIsRows` | result_count is the number of results | more results than are shown |
| `AdaptiveRetrieve!EmbeddingsCurrent` | `context/retrieval.py`: embeddings are of the documents searched | documents change outside the sampled ones |
| `AdaptiveRetrieve!AlwaysReturns` | a retrieval returns results whatever a model does | a model call times out |
| `AgentTools!InlineIsWhole` | an inlined artifact is the whole one | what is left of the budget cuts it |
| `AgentTools!RepliedIsSeen` | the reply's artifacts were seen by the turn | the save of the hydration failed |
| `AgentTools!OverspendTold` | spending over the cap is always flagged | the turn pauses or ends in an error |
| `CorpusLoad!BlobsWhole` | `_cache_store`: no half-written entry is published | two copies of one file share a temporary name |
| `CorpusLoad!CacheFollowsFiles` | 719-721: the cache follows the contents | the file changes between its hash and its parse |
| `ChatRepl!ExplainAlwaysWritten` | 1646-1649: records are written however the session ends | a command or a load raises |
| `ChatRepl!ClearClears` | `/clear` clears the documents | the corpus stays attached |
| `ChatRepl!GateRefuses` | 1158-1170: the gate refuses turns over the cap | the check after the turn has ended the session |
| `Governance!AppendOnly` | `logging.py`: the log is append-only | two appends overlap, or a write fails |
| `Governance!OverridesLogged` | `override.py:3-7`: an override is in the audit log | its event is emitted to no hook |
| `Governance!SnapshotIsPoint` | `snapshot.py`: a snapshot is one moment | the turn goes on while working memory is shared |
| `Governance!SpendingCarried` | the budget includes earlier spending | a TurnInvocation built with a spent budget resets it |
| `Knowledge!PromotedIsVerified` | `promotion.py:3-5`: promoted findings are verified | a finding that was not verified but has spans |
| `Knowledge!FlagIsHonest` | `grounding_verified` says whether it was | the policy does not require it: a verified finding is stored as not grounded |
| `Knowledge!AnsweredDistinct` | an answer has no entry twice | a finding promoted twice |
| `Tracing!EveryTurnEnds` | `otel.py:231-234`: on_error ends the turn's span | a reader that leaves |
| `Tracing!ErrorEndsToo` | `otel.py:56`: an error ends a span | the ERROR phase of a tool call |
| `Tracing!ProgramsUnderTurns` | `react_planner.py:142-147`: one hook sees both layers | the v2 loop hands its own events to no hook |
| `Tracing!EndsItsOwn` | `otel.py:50-51`: a call ends its own span | two turns use one id |
| `Perception!NeverRaises` | `perception/types.py`: never an exception | an institutional knowledge base is wired; memory or RAG fails |
| `Perception!WeakIsRefused` | `perceiver.py:62-63`: weak evidence is refused | something was found, however weak |
| `Perception!CappedPerSource` | `perception/types.py`: max_results is a cap for each source | tools return what they return |
| `Citations!LookupNeverRaises` | `verifier.py`: the function never raises | a case or a date of another shape |
| `Citations!VerifiedMatchesAll` | `verifier.py:34-37`: all of a citation matches | a name or a year that is not known |

Smaller observations made while reading, which no property states:
`plan_execute.py:213` does not hand `plan_max_tokens` to the budget; a comment
in `evaluate.py` counts the judge's cost into the PlanBudget, the code does not;
`turn_count` counts the internal iterations of outer loops; the `stop_failure`
branch of `route` cannot be reached after the budget check (`Route` keeps it);
a model act that fails without text is judged with confidence 0.9, so a
threshold above that continues after it (`EmptySure`); the snapshot of a pause
is the persisted session, not the live one `interrupts.py:4` speaks of; an
`AgentSnapshot` drops delegated agents, handoffs and settings.

Of the modules added since:

* Memory: `persistence_mode` is never consulted; `max_items` is not enforced under
  the policies none and refuse; a lesson larger than its budget empties LESSONS.
* Turns: once FINDINGS is full (policy none) every grounded answer raises behind
  its citations; classifier usage, the ranker's and a failed ReAct run's costs are
  in no total; two calls of one tool are each told the whole usage.
* Plans: `BudgetExceeded` reports a limit of 0.0 for tokens and an actual of 0.0 for
  wall clock; a synthesis that raises loses its cost; a stream left in the middle
  saves nothing; prior failures are the last three notes of any goal.
* Outer loops: a planner with low confidence still elevates the groups it dropped;
  the cost cap is not looked at between the critics and the next planner call; a
  judge outage counts as no gain in a refinement and uses up patience; reflexion
  drops the critics' cost, and a critic that raises loses all answers.
* Findings: `agent.run` that raises reports no usage while its other calls run on;
  `budget_exceeded` is false when the last wave crosses the cap.
* v2 loop: a clarified sub-turn's usage is lost; INCOMPLETE, `allows_replan` and
  `always_escalate` are consulted nowhere; the hooks of a v2 Runner see none of its
  outer events; the Actor asks neither its rate limiter nor its circuit breaker;
  the acts of `PlanExecutePlanner` default to IRREVERSIBLE and never dispatch.
* Retrieval: `confidence_threshold` is never consulted by `adaptive_retrieve`, hybrid
  scores are compared with BM25 scores; a lexicon failure is cached for good; the
  Perceiver averages scores of different scales, and an institutional knowledge
  base wants another kind of query than the Perceiver sends.
* Tools and CLI: hydrated artifacts are reported though their save failed; errors
  and pauses hide the cost; exit code 1 is never returned; `/load` with an absolute
  pattern and `/explain` into an unwritable file end the session.
* Citations: a lookup that raises leaves the others running; an unknown name or
  year counts as a match; no HTTP fall-back follows an HTTP failure.
* Traces: the LLM_CALL spans the adapter speaks of never become OTel spans; a
  COMPLETE may overtake its START when another hook suspends.

## 6. What is not modelled

* Text: prompts, parsing, rendering, token counting, scrubbing, ranking, the
  extraction of citations, triage and chunking, intents. Where the control depends
  on a text, the module has the outcomes the code tells apart.
* Pure I/O: authentication, SSE framing, argument parsing and printing, sinks of
  escalations, logging and telemetry exporters, OCR.
* Immutable configuration: definitions, registry, recipes, personas, settings.
* Triggers build a request and call a turn; replay folds a file of recorded events;
  benchmarks and optimisation run offline over samples. None of them keeps state
  between two steps that another actor can see.
* Of modelled parts: `insert_subplan` and the rolling strategy, which no agent uses
  (plans); the ReWOO and compiler planners (planners); the replay of a paused run's
  event log to the consumer (Approval); PerceptionRAG's citation events
  (Perception); the MCP extraction, design, graph and workflow tools (AgentTools);
  the memory VFS backend, where a save is one assignment; the serialisation of
  every type.
* The parts of a sum run do not act on each other (section 3). A turn's session save
  is taken to be atomic by `AtomicWrite` and `SessionStore`, a plan in `PlanTurn`
  to be any result `PlanStrategy` may return, a load in `ChatRepl` to be an
  outcome of `CorpusLoad`; these seams are by reading, not by a checked refinement.

The status of every component, with the reason, is in `PROJECT.json`.

## 7. Plan

What is left, in order of worth. The modules are written with one action per
operation and without recursive operators, so that they can be proved about; what
is to be proved next is to stand beside what is proved of a related module, the
proof modules being few.

1. Checked seams: `PlanTurn` over the outcomes of `PlanStrategy`, `AgentTurn` over
   `Findings`, instead of seams by reading.
2. The rolling strategy with `insert_subplan`, once an agent uses it.

Where two regimes of one module differ (overlap or not, probes lost or not), a
history variable that records which regime the behaviour is in is preferred to a
constant, so that one run and one theorem cover both.
