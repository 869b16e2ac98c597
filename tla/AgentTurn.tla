----------------------------- MODULE AgentTurn -----------------------------
(* One turn of an agent as its stream shows it: BaseAgent.run and the two     *)
(* handlers that do more than ask a model once, ChatAgent's tool loop and     *)
(* ResearchAgent's document question answering.                               *)
(*                                                                            *)
(* The tool loop runs in a task of its own. Its hooks put what happens on a   *)
(* queue, which the turn drains into spans. The document path asks, may ask   *)
(* again with more documents, and may go on to the tool loop. Whatever fails  *)
(* falls back on a plain reply. One step is what happens between two awaits.  *)
EXTENDS Integers, Sequences, FiniteSets

CONSTANTS
  MaxCalls,        \* tool calls of one attempt (max_react_iterations)
  MaxDrops,        \* _MAX_SCHEMA_DROPS
  Bypass,          \* tool_fitness_bypass_threshold
  TopK,            \* tool_fitness_top_k
  Costs,           \* what a call of a model may cost
  Estimate,        \* KAOS_AGENT_RAG_PER_CALL_ESTIMATE_USD
  NoCap,
  Setups           \* the agents and sessions considered

ASSUME BoundsAssumption ==
  /\ {MaxCalls, MaxDrops, Bypass, TopK, Estimate} \subseteq Nat
  /\ Costs \subseteq Nat \ {0}
  /\ NoCap \notin Nat

Corpora == {"none", "docs", "small", "large"}

(* What an agent is built with, and what it finds in its session: tools, the  *)
(* documents (in memory, or bound: few or many passages), the caps, the two   *)
(* refusal switches, whether this turn repeats a message, whether the user    *)
(* has files attached, and how many findings its section still takes.         *)
Setup ==
  [agent : {"chat", "research"}, tools : Nat, corpus : Corpora,
   cap : Nat \cup {NoCap}, chatCap : Nat \cup {NoCap}, floor : BOOLEAN,
   strict : BOOLEAN, replay : BOOLEAN, files : BOOLEAN, room : Nat]

ASSUME SetupsAssumption == Setups \subseteq Setup

VARIABLES
  setup,
  pc,          \* where the turn waits
  why,         \* what a plain reply is for
  task,        \* the task that runs the tool loop
  queue,       \* tool_event_queue
  out,         \* what has been yielded, and the span stack of the collector
  held,        \* the outer stream while a redirected handler fills another
  first,       \* the answer of the first document query
  lacking,     \* got_insufficient
  ragSpent,    \* rag_cost_accumulator
  billed,      \* cost of the calls that returned to a handler
  memory,      \* what the turn adds to its session
  summary      \* the texts of the TurnSummary events

turnVars == <<setup, pc, why, task, queue, out, held, first, lacking, ragSpent, billed,
              memory, summary>>

Nothing == "nothing"
NoResult == [kind |-> Nothing]
Intents == {"respond", "clarify", "tool_use", "research", "plan"}
Capped(cap, n) == cap # NoCap /\ n > cap

-----------------------------------------------------------------------------
(* The stream. A span is a name and a number; "stack" is the collector's.     *)

NoEvents ==
  [stack |-> <<>>, open |-> {}, parents |-> {}, calls |-> <<>>, text |-> <<>>,
   usage |-> 0, cites |-> {}, marks |-> {}]

Top(stack) == IF stack = <<>> THEN Nothing ELSE stack[Len(stack)]

SpanStart(o, s) ==
  [o EXCEPT !.stack = Append(@, s), !.open = @ \cup {s},
            !.parents = @ \cup {<<s, Top(o.stack)>>}]

\* Mutant of PopTo: the top of the stack is popped, whichever span completes.
MutPopTo(stack, s) == IF stack = <<>> THEN stack ELSE SubSeq(stack, 1, Len(stack) - 1)

\* Pop the span and everything above it; a span that is not there pops nothing.
PopTo(stack, s) ==
  IF \E i \in DOMAIN stack : stack[i] = s
    THEN SubSeq(stack, 1, (CHOOSE i \in DOMAIN stack : stack[i] = s) - 1)
    ELSE stack

SpanComplete(o, s) == [o EXCEPT !.stack = PopTo(@, s), !.open = @ \ {s}]

\* A tool's COMPLETE is what the turn counts as a tool call.
ToolComplete(o, s, failed) ==
  [SpanComplete(o, s) EXCEPT !.calls = Append(@, [span |-> s, failed |-> failed])]

Text(o, kind) == [o EXCEPT !.text = Append(@, kind)]
Usage(o, cost) == [o EXCEPT !.usage = @ + cost]
Mark(o, m) == [o EXCEPT !.marks = @ \cup {m}]
Cite(o, verified) == [o EXCEPT !.cites = @ \cup {verified}]

Turn == <<"turn", 0>>
Query == <<"query", 0>>
Retry == <<"retry", 0>>
Escalation == <<"escalation", 0>>
Subagent == <<"findings", 0>>
Synthetic == <<"dispatch", 0>>
Call(n) == <<"tool", n>>
Replayed(n) == <<"replayed", n>>

\* A handler without a stream of its own is shown by its calls, its text, its usage.
Replay(o, inner) ==
  [o EXCEPT
     !.stack = inner.stack,
     !.parents = @ \cup {<<Replayed(i), Top(inner.stack)>> : i \in DOMAIN inner.calls},
     !.calls = @ \o [i \in DOMAIN inner.calls |->
                       [span |-> Replayed(i), failed |-> inner.calls[i].failed]],
     !.text = @ \o inner.text,
     !.usage = @ + inner.usage]

-----------------------------------------------------------------------------

Idle == [state |-> "idle", left |-> 0, drops |-> 0, running |-> 0, obs |-> <<>>,
         calls |-> 0, cost |-> 0, draft |-> FALSE]

TurnInit ==
  /\ setup \in Setups
  /\ pc = "begin"
  /\ why = Nothing
  /\ task = Idle
  /\ queue = <<>>
  /\ out = NoEvents
  /\ held = NoEvents
  /\ first = NoResult
  /\ lacking = FALSE
  /\ ragSpent = 0
  /\ billed = 0
  /\ memory = [user |-> FALSE, reply |-> <<>>, calls |-> <<>>, findings |-> 0,
               noted |-> FALSE, saved |-> FALSE]
  /\ summary = <<>>

Redirected == held # NoEvents

Over == {"done", "crashed", "abandoned"}

\* Go on to a plain reply of the model: _simple_respond.
ReplyFor(reason) == pc' = "reply" /\ why' = reason

\* run, steps 1 to 4: the session is loaded and told of the user's message.
Begin ==
  /\ pc = "begin"
  /\ out' = SpanStart(out, Turn)
  /\ memory' = [memory EXCEPT !.user = ~setup.replay]
  /\ pc' = "classify"
  /\ UNCHANGED <<setup, why, task, queue, held, first, lacking, ragSpent, billed, summary>>

\* _dispatch_streaming: which handler an intent comes to, a question to a bound corpus
\* without asking a model, any other message by the base classifier. A plan is no business of
\* these agents and is sent on to the tool loop, through a handler that returns a tuple.
Classify ==
  /\ pc = "classify"
  /\ \E intent \in Intents :
       /\ CASE intent = "research" /\ setup.agent = "research" ->
                 pc' = "documents" /\ UNCHANGED <<why, out, held>>
            [] intent = "research" /\ setup.agent = "chat" ->
                 /\ pc' = "findings"
                 /\ out' = SpanStart(out, Subagent)
                 /\ UNCHANGED <<why, held>>
            [] intent = "tool_use" -> pc' = "tools" /\ UNCHANGED <<why, out, held>>
            [] intent = "plan" ->
                 /\ held' = Mark(out, "mismatch")
                 /\ out' = [NoEvents EXCEPT !.stack = out.stack]
                 /\ pc' = "tools"
                 /\ UNCHANGED why
            [] OTHER -> ReplyFor(intent) /\ UNCHANGED <<out, held>>
  /\ UNCHANGED <<setup, task, queue, first, lacking, ragSpent, billed, memory, summary>>

\* A failure of the classifier that a user can act on ends the turn; nothing is saved.
\* A bound corpus does not exclude it: what is no question is put to the classifier.
ClassifyFails ==
  /\ pc = "classify"
  /\ out' = SpanComplete(Mark(out, "run_error"), Turn)
  /\ summary' = << <<>> >>
  /\ pc' = "done"
  /\ UNCHANGED <<setup, why, task, queue, held, first, lacking, ragSpent, billed, memory>>

\* What a handler has left in "o" when it returns, and where the turn goes on: to the
\* tool loop when documents were not enough and there are many, to the end otherwise.
Return(o) ==
  CASE Redirected ->
         /\ out' = Replay(held, o)
         /\ held' = NoEvents
         /\ pc' = "finish"
    [] OTHER -> out' = o /\ pc' = "finish" /\ UNCHANGED held

\* The exception of a handler reaches run; a redirected handler's events are lost.
Raise ==
  /\ out' = IF Redirected THEN Mark([held EXCEPT !.stack = out.stack], "run_error")
                          ELSE Mark(out, "run_error")
  /\ held' = NoEvents
  /\ pc' = "finish"

\* The end of _handle_research_streaming, seen by the _dispatch_streaming around it.
DocumentsReturn(o, insufficient) ==
  /\ lacking' = insufficient
  /\ IF insufficient /\ setup.corpus = "large"
       THEN out' = SpanStart(o, Escalation) /\ pc' = "tools"
       ELSE out' = o /\ pc' = "finish"
  /\ UNCHANGED held

\* The model answers with a text, which may be empty, or the call raises.
Reply ==
  /\ pc = "reply"
  /\ \E cost \in Costs, o \in {out, Text(out, "reply")} :
       /\ billed' = billed + cost
       /\ IF why \in {"no_documents", "documents_failed"}
            THEN DocumentsReturn(Usage(o, cost), lacking)
            ELSE /\ Return(Usage(IF why = "no_corpus" THEN SpanComplete(o, Subagent) ELSE o,
                                 cost))
                 /\ UNCHANGED lacking
  /\ UNCHANGED <<setup, why, task, queue, first, ragSpent, memory, summary>>

ReplyFails ==
  /\ pc = "reply"
  /\ Raise
  /\ UNCHANGED <<setup, why, task, queue, first, lacking, ragSpent, billed, memory, summary>>

\* BaseAgent._handle_research_streaming: FindingsAgent answers, refuses, or has no
\* documents to read.
FindingsAnswer ==
  /\ pc = "findings"
  /\ \/ /\ ReplyFor("no_corpus")
        /\ UNCHANGED <<out, held, billed>>
     \/ \E cost \in Costs, cited \in BOOLEAN, answered \in BOOLEAN :
          LET o == SpanStart(out, Synthetic)
              c == ToolComplete(IF cited THEN Cite(o, TRUE) ELSE o, Synthetic, FALSE)
              t == IF answered THEN Text(c, "findings") ELSE c
          IN /\ Return(SpanComplete(Usage(t, cost), Subagent))
             /\ billed' = billed + cost
             /\ UNCHANGED why
     \/ Raise /\ UNCHANGED <<why, billed>>
  /\ UNCHANGED <<setup, task, queue, first, lacking, ragSpent, memory, summary>>

-----------------------------------------------------------------------------
(* ChatAgent._handle_tool_use_streaming: the tool loop.                       *)

Started(n) == [Idle EXCEPT !.state = "running", !.left = n]

\* A large catalog is narrowed by a ranker first. Its picks are a part of the catalog,
\* or of no use, and then the whole catalog stays.
Catalogs ==
  IF setup.tools <= Bypass THEN {setup.tools} ELSE {setup.tools} \cup (1..TopK)

StartTools ==
  /\ pc = "tools"
  /\ IF setup.tools = 0
       THEN ReplyFor("no_tools") /\ UNCHANGED task
       ELSE /\ \E n \in Catalogs : task' = Started(n)
            /\ pc' = "drain"
            /\ UNCHANGED why
  /\ UNCHANGED <<setup, queue, out, held, first, lacking, ragSpent, billed, memory, summary>>

TaskKeeps == UNCHANGED <<setup, pc, why, out, held, first, lacking, ragSpent, billed,
                         memory, summary>>

\* on_tool_start: tools run one after the other.
ToolStarts ==
  /\ task.state = "running" /\ task.running = 0
  /\ task.calls < MaxCalls
  /\ task' = [task EXCEPT !.calls = @ + 1, !.running = task.calls + 1]
  /\ queue' = Append(queue, <<"start", task.calls + 1, FALSE>>)
  /\ TaskKeeps

\* on_tool_end
ToolEnds ==
  /\ task.state = "running" /\ task.running # 0
  /\ \E failed \in BOOLEAN :
       /\ task' = [task EXCEPT !.running = 0,
                               !.obs = Append(@, [span |-> Call(task.running), failed |-> failed])]
       /\ queue' = Append(queue, <<"end", task.running, failed>>)
  /\ TaskKeeps

Ended == <<"eof", 0, FALSE>>

\* The loop answers, with a draft that may be empty, at a cost.
LoopAnswers ==
  /\ task.state = "running" /\ task.running = 0
  /\ \E cost \in Costs, draft \in BOOLEAN :
       task' = [task EXCEPT !.state = "answered", !.cost = cost, !.draft = draft]
  /\ queue' = Append(queue, Ended)
  /\ TaskKeeps

\* Mutant of LoopFails: only a loop that answers unblocks the drain.
MutLoopFails ==
  /\ task.state = "running" /\ task.running = 0
  /\ task' = [task EXCEPT !.state = "failed"]
  /\ UNCHANGED queue
  /\ TaskKeeps

LoopFails ==
  /\ task.state = "running" /\ task.running = 0
  /\ task' = [task EXCEPT !.state = "failed"]
  /\ queue' = Append(queue, Ended)
  /\ TaskKeeps

\* The provider rejects the schema of a tool: the tool is dropped and the loop starts
\* again from nothing, a bounded number of times and while a tool is left. What the
\* attempt called stays on the queue.
SchemaRejected ==
  /\ task.state = "running" /\ task.running = 0
  /\ task.drops < MaxDrops /\ task.left > 1
  /\ task' = [task EXCEPT !.left = @ - 1, !.drops = @ + 1, !.obs = <<>>]
  /\ UNCHANGED queue
  /\ TaskKeeps

\* The turn takes the next item off the queue, until the sentinel.
Drain ==
  /\ pc = "drain" /\ queue # <<>>
  /\ LET item == Head(queue)
     IN CASE item[1] = "start" -> out' = SpanStart(out, Call(item[2])) /\ UNCHANGED pc
          [] item[1] = "end" ->
               out' = ToolComplete(out, Call(item[2]), item[3]) /\ UNCHANGED pc
          [] OTHER -> pc' = "judge" /\ UNCHANGED out
  /\ queue' = Tail(queue)
  /\ UNCHANGED <<setup, why, task, held, first, lacking, ragSpent, billed, memory, summary>>

\* evaluate_no_evidence_gate: tools were tried, all failed, and files were meant.
NoEvidence(obs) ==
  /\ obs # <<>>
  /\ \A i \in DOMAIN obs : obs[i].failed
  /\ setup.files

\* The answer of the loop, over its cap, without evidence, or as drafted.
Judge ==
  /\ pc = "judge"
  /\ IF task.state = "failed"
       THEN /\ ReplyFor("tools_failed")
            /\ UNCHANGED <<out, held, billed>>
       ELSE /\ Return(Usage(
                 CASE Capped(setup.chatCap, task.cost) ->
                        Text(Mark(out, "budget"), "stopped")
                   [] ~Capped(setup.chatCap, task.cost) /\ NoEvidence(task.obs) ->
                        Text(Mark(out, "refusal"), "no_evidence")
                   [] OTHER -> IF task.draft THEN Text(out, "draft") ELSE out,
                 task.cost))
            /\ billed' = billed + task.cost
            /\ UNCHANGED why
  /\ UNCHANGED <<setup, task, queue, first, lacking, ragSpent, memory, summary>>

-----------------------------------------------------------------------------
(* ResearchAgent._handle_research_streaming: the document path.               *)

\* The cap is compared with what was spent and the estimate of one more call.
Affords == ~Capped(setup.cap, ragSpent + Estimate)

Documents ==
  /\ pc = "documents"
  /\ CASE setup.corpus = "none" ->
            ReplyFor("no_documents") /\ UNCHANGED <<out, held, lacking>>
       [] setup.corpus # "none" /\ ~Affords ->
            /\ DocumentsReturn(Text(Mark(out, "evidence"), "over_cap"), TRUE)
            /\ UNCHANGED why
       [] OTHER ->
            /\ out' = SpanStart(out, Query)
            /\ pc' = "query"
            /\ UNCHANGED <<why, held, lacking>>
  /\ UNCHANGED <<setup, task, queue, first, ragSpent, billed, memory, summary>>

\* What a document query comes back with: its claims, whether its citations were found
\* in the documents, its confidence, and, when it refuses, whether it says what it lacks.
Results ==
  [kind : {"answer"}, claims : {1, 2}, verified : BOOLEAN, sure : BOOLEAN, hint : {FALSE}]
    \cup [kind : {"insufficient"}, claims : {0}, verified : BOOLEAN, sure : {FALSE},
          hint : BOOLEAN]

\* The two refusal switches: a floor of confidence, and verified citations only.
Unsure(r) == setup.floor /\ ~r.sure
Unverified(r) == setup.strict /\ ~r.verified

Refused(r) == Unsure(r) \/ Unverified(r)

\* An insufficient answer, as a reader is told of it: the query is a tool call that ended.
TellInsufficient(o, span) == Text(ToolComplete(Mark(o, "evidence"), span, FALSE), "insufficient")

Asked(cost) == ragSpent' = ragSpent + cost /\ billed' = billed + cost

\* The claims of an accepted answer are stored one by one as their citations are
\* shown; the section of findings refuses the first that it has no room for, and the
\* answer is given up for a plain reply.
Accept(o, r) ==
  LET shown == Cite(o, r.verified)
  IN IF r.claims <= setup.room
       THEN /\ memory' = [memory EXCEPT !.findings = @ + r.claims, !.noted = TRUE]
            /\ DocumentsReturn(Text(ToolComplete(shown, Query, FALSE), "answer"), lacking)
            /\ UNCHANGED why
       ELSE /\ memory' = [memory EXCEPT !.findings = @ + setup.room]
            /\ ReplyFor("documents_failed")
            /\ out' = shown
            /\ UNCHANGED <<held, lacking>>

\* A refusal that says what it lacks is tried again on the documents that search finds
\* for it: not on a bound corpus, and not beyond the cap.
MayRetry(hint, spent) ==
  hint /\ setup.corpus = "docs" /\ ~Capped(setup.cap, spent + Estimate)

QueryAnswers ==
  /\ pc = "query"
  /\ \E r \in Results, cost \in Costs :
       LET o == Usage(out, cost)
           collapsed == r.kind = "answer" /\ Refused(r)
           told == IF collapsed /\ Unsure(r) THEN Mark(o, "refusal") ELSE o
       IN /\ first' = r
          /\ Asked(cost)
          /\ IF r.kind = "answer" /\ ~collapsed
               THEN Accept(o, r)
               ELSE \E found \in BOOLEAN :
                      IF found /\ MayRetry(r.hint, ragSpent + cost)
                        THEN /\ out' = SpanStart(told, Retry)
                             /\ pc' = "retry"
                             /\ UNCHANGED <<why, held, lacking, memory>>
                        ELSE /\ LET tried == IF MayRetry(r.hint, ragSpent + cost)
                                               THEN SpanStart(told, Retry) ELSE told
                                IN DocumentsReturn(TellInsufficient(tried, Query), TRUE)
                             /\ memory' = [memory EXCEPT !.noted = TRUE]
                             /\ UNCHANGED why
  /\ UNCHANGED <<setup, task, queue, summary>>

\* The answer of the second query is shown as it comes; its claims are not stored.
RetryAnswers ==
  /\ pc = "retry"
  /\ \E r \in Results, cost \in Costs :
       LET o == Usage(out, cost)
       IN /\ Asked(cost)
          /\ IF r.kind = "answer"
               THEN DocumentsReturn(Text(ToolComplete(Cite(o, r.verified), Retry, FALSE),
                                         "retried"), lacking)
               ELSE DocumentsReturn(TellInsufficient(o, Query), TRUE)
  /\ memory' = [memory EXCEPT !.noted = TRUE]
  /\ UNCHANGED <<setup, why, task, queue, first, summary>>

\* A query raises: what it cost is not known, and the reply says that it failed.
QueryFails ==
  /\ pc \in {"query", "retry"}
  /\ ReplyFor("documents_failed")
  /\ UNCHANGED <<setup, task, queue, out, held, first, lacking, ragSpent, billed, memory,
                 summary>>

-----------------------------------------------------------------------------

\* run, steps 7 and 8: what was shown goes into the session, which is saved. An empty
\* text is not stored, nor is the text of a repeated message.
Finish ==
  /\ pc = "finish"
  /\ memory' = [memory EXCEPT !.reply = IF setup.replay THEN <<>> ELSE out.text,
                              !.calls = out.calls, !.saved = TRUE]
  /\ out' = SpanComplete(out, Turn)
  /\ summary' = <<out.text>>
  /\ pc' = "done"
  /\ UNCHANGED <<setup, why, task, queue, held, first, lacking, ragSpent, billed>>

\* The save fails: the stream ends by the exception.
SaveFails ==
  /\ pc = "finish"
  /\ pc' = "crashed"
  /\ UNCHANGED <<setup, why, task, queue, out, held, first, lacking, ragSpent, billed,
                 memory, summary>>

\* The reader of the stream closes it: the turn ends where it waits, and nobody tells
\* the task of the tool loop.
Abandon ==
  /\ pc \notin {"begin"} \cup Over
  /\ pc' = "abandoned"
  /\ UNCHANGED <<setup, why, task, queue, out, held, first, lacking, ragSpent, billed,
                 memory, summary>>

Finished == pc \in Over /\ UNCHANGED turnVars

TaskStep == ToolStarts \/ ToolEnds \/ LoopAnswers \/ LoopFails \/ SchemaRejected

TurnStep ==
  \/ Begin \/ Classify \/ ClassifyFails \/ Reply \/ ReplyFails \/ FindingsAnswer
  \/ StartTools \/ Drain \/ Judge
  \/ Documents \/ QueryAnswers \/ RetryAnswers \/ QueryFails
  \/ Finish \/ SaveFails

TurnNext == TaskStep \/ TurnStep \/ Abandon \/ Finished

\* Calls of a model return or time out, and the loop of tools is bounded.
TurnSpec ==
  TurnInit /\ [][TurnNext]_turnVars /\ WF_turnVars(TaskStep) /\ WF_turnVars(TurnStep)
-----------------------------------------------------------------------------

Spans == {Turn, Query, Retry, Escalation, Subagent, Synthetic}
           \cup {Call(n) : n \in 1..MaxCalls} \cup {Replayed(n) : n \in 1..MaxCalls}

TurnTypeOK ==
  /\ setup \in Setups
  /\ pc \in {"begin", "classify", "reply", "findings", "tools", "drain", "judge",
            "documents", "query", "retry", "finish"} \cup Over
  /\ task.state \in {"idle", "running", "answered", "failed"}
  /\ \A o \in {out, held} :
       /\ {o.stack[i] : i \in DOMAIN o.stack} \subseteq Spans
       /\ {o.calls[i].span : i \in DOMAIN o.calls} \subseteq Spans
       /\ o.open \subseteq Spans
  /\ first \in {NoResult} \cup Results
  /\ ragSpent <= billed

Shown(kind) == \E i \in DOMAIN out.text : out.text[i] = kind

\* What is shown as a first answer has passed the gates set before it, along every path of
\* the turn: the confidence floor and strict grounding for a document answer and every
\* claim stored from it (research/agent.py), the cap and the no-evidence gate for the
\* draft of the tool loop (chat.py, no_evidence_gate.py). Document queries overshoot
\* their cap by no more than the last one cost beyond the estimate.
GateHolds ==
  /\ TurnTypeOK
  /\ Shown("answer") \/ memory.findings > 0 =>
       first.kind = "answer" /\ (setup.floor => first.sure) /\ (setup.strict => first.verified)
  /\ Shown("draft") =>
       /\ ~Capped(setup.chatCap, task.cost)
       /\ setup.files /\ task.obs # <<>> => \E i \in DOMAIN task.obs : ~task.obs[i].failed
  /\ setup.cap # NoCap /\ ragSpent > 0 =>
       \E last \in Costs : ragSpent - last + Estimate <= setup.cap

\* What a finished turn has recorded is what its stream showed, whatever failed on the
\* way (agent.py _run_inner, collector.py): the usage of every call that returned, each
\* tool call once and with its outcome, all the calls of the loop that answered, and
\* tool spans under the span they ran in. Nothing is left on the span stack; a span
\* that stays open is none of a tool that ran.
StreamRecorded ==
  pc = "done" =>
    /\ out.usage = billed
    /\ out.stack = <<>> /\ held = NoEvents
    /\ out.open \subseteq {Query, Retry, Escalation, Subagent, Synthetic}
    /\ summary = <<out.text>>
    /\ memory.saved =>
         memory.calls = out.calls /\ (memory.reply # <<>> => memory.user)
    /\ \A i, j \in DOMAIN out.calls : out.calls[i].span = out.calls[j].span => i = j
    /\ task.state = "answered" =>
         \A n \in DOMAIN task.obs : \E i \in DOMAIN out.calls :
           /\ out.calls[i].failed = task.obs[n].failed
           /\ out.calls[i].span \in {task.obs[n].span} \cup {Replayed(k) : k \in 1..MaxCalls}
    /\ \A edge \in out.parents :
         /\ edge[1] \in {Call(n) : n \in 1..MaxCalls} => edge[2] \in {Turn, Escalation}
         /\ edge[1] \in {Query, Subagent} => edge[2] = Turn

\* A document answer, a stored claim and the draft of the tool loop have passed the gates
\* set before them, and what a turn shows, gated or not, is what it records, on every path.
\* The answer of a second document query passes no gate: see NothingUngated.
TurnSound == GateHolds /\ StreamRecorded

\* A turn ends, and so does the task of its tool loop, whichever of them fails and also
\* when the reader of the stream has left (chat.py _drive, _TOOL_STREAM_SENTINEL).
TurnEnds ==
  /\ pc = "classify" ~> pc \in Over
  /\ task.state = "running" ~> task.state \in {"answered", "failed"}

\* What research/agent.py says of a refused answer, that it never ships: refuted, the
\* answer of the second query passes neither switch.
NothingUngated ==
  setup.agent = "research" /\ setup.strict /\ (Shown("answer") \/ Shown("retried")) =>
    FALSE \notin out.cites

\* Every span that starts completes by the end of the turn (events/collector.py): refuted.
EverySpanCompletes == pc = "done" => out.open = {}

\* A budget refusal spends no more: refuted, a large bound corpus goes on to the tools.
RefusalStops == Shown("over_cap") => task.state = "idle"

\* No tool starts once the reader has closed the stream: refuted, nobody cancels the task.
NoOrphans == [][pc = "abandoned" => ~ToolStarts]_turnVars
=============================================================================
