------------------------------ MODULE ChatRepl ------------------------------
(***************************************************************************)
(* The chat command (kaos_agents/cli/chat.py, _run_repl and main): prompt, *)
(* slash commands, one turn's event stream at a time, the running totals   *)
(* of _SessionState with the cost cap and the alert, the event log and the *)
(* per-turn explain records.  Loading is CorpusLoad, a turn is AgentTurn:  *)
(* here a load gives a corpus or none, and a turn is the events the loop   *)
(* sees, those of sub-agents (another run_id) among them.                  *)
(***************************************************************************)
EXTENDS Naturals, SequencesExt

CONSTANTS
  Options,      \* command lines: [oneShot, pattern, cap, alert, files, log, explain]; 0: no cap, no alert
  NoLimit,      \* the value of an unset or non-positive limit
  Costs,        \* what a turn may cost
  MaxTurns, MaxCommands, MaxEvents    \* bounds on a behaviour

ASSUME ReplAssumption ==
  /\ NoLimit \notin Nat /\ Costs \subseteq Nat
  /\ \A line \in Options :
       line.cap \in Nat /\ line.alert \in Nat /\ line.pattern \in {"chat", "plan", "research"}

VARIABLES
  at,           \* where the program is
  args,         \* the command line
  session,      \* the session id: how many /clear came before
  corpus,       \* which load gave the corpus, 0 for none
  pattern,      \* the agent's pattern: "chat", "plan" or "research"
  state,        \* _SessionState: cost, turns, alerted, explain_turns before the current turn
  turn,         \* the turn in progress
  asked,        \* turns dispatched
  commands,     \* slash commands given
  printed,      \* history: cost alerts and budget lines printed
  logged,       \* lines of the event log: events of turns, budget lines
  written,      \* records in the --explain file, or NoFileYet
  exit          \* the exit code

replVars == <<at, args, session, corpus, pattern, state, turn, asked, commands, printed, logged, written, exit>>

NoFileYet == 99
Running == 9

\* A turn, with the record _ExplainTurn of it: its number, its calls and its cost.  Runs
\* are numbered by turn (asked), and 0 is the first event not seen yet.  Histories: what
\* the session had cost before the turn, and what its summaries, however many, added.
NewTurn(n) ==
  [asked |-> n, outer |-> 0, events |-> 0, appended |-> FALSE, index |-> state.turns + 1,
   calls |-> <<>>, cost |-> 0, before |-> state.cost, spent |-> 0, summaries |-> 0]

RecordOf(t) ==
  [asked |-> t.asked, index |-> t.index, calls |-> t.calls, cost |-> t.cost,
   before |-> t.before, spent |-> t.spent, summaries |-> t.summaries]

\* explain_turns: the record of the current turn is in it once it has been appended, and
\* is one object with the turn's, so that what later events write is in it too.
ExplainTurns == IF turn.appended THEN Append(state.explain, RecordOf(turn)) ELSE state.explain

\* The loop's own run of a turn, and a run nested in it.
OuterRun(n) == 2 * n
InnerRun(n) == 2 * n + 1

\* _resolve_max_cost, _resolve_alert_cost: zero, negative or malformed is no limit.
Limit(given) == IF given > 0 THEN given ELSE NoLimit

\* _SessionState.budget_exceeded.
BudgetExceeded(s) == Limit(args.cap) # NoLimit /\ s.cost >= args.cap

\* _SessionState.absorb.
Absorb(s, cost) == [s EXCEPT !.cost = @ + cost, !.turns = @ + 1]

\* _SessionState.alert_due: true once.
AlertDue(s) == Limit(args.alert) # NoLimit /\ ~s.alerted /\ s.cost >= args.alert

ReplInit ==
  /\ at = "start" /\ args \in Options /\ session = 0 /\ corpus = 0 /\ pattern = args.pattern
  /\ state = [cost |-> 0, turns |-> 0, alerted |-> FALSE, explain |-> <<>>]
  /\ turn = NewTurn(0) /\ asked = 0 /\ commands = 0 /\ printed = [alerts |-> 0, budgets |-> 0]
  /\ logged = [events |-> 0, budgets |-> 0] /\ written = NoFileYet /\ exit = Running

Loaded(ok) ==
  /\ corpus' = IF ok THEN commands' + 1 ELSE corpus
  /\ pattern' = IF ok /\ pattern = "chat" THEN "research" ELSE pattern

\* Files of the command line are loaded; a corpus that is not empty turns a chat agent
\* into a research agent.
Launch ==
  /\ at = "start" /\ at' = "prompt" /\ UNCHANGED commands
  /\ \E ok \in BOOLEAN : (ok => args.files) /\ Loaded(ok)
  /\ UNCHANGED <<args, session, state, turn, asked, printed, logged, written, exit>>

MayAsk == at = "prompt" /\ (args.oneShot => asked = 0)
Command == at = "prompt" /\ ~args.oneShot /\ commands < MaxCommands /\ commands' = commands + 1

\* /quit, the end of the input, or the one message has been sent.
Leave ==
  /\ at = "prompt" /\ (args.oneShot => asked = 1) /\ at' = "leaving"
  /\ UNCHANGED <<args, session, corpus, pattern, state, turn, asked, commands, printed, logged, written, exit>>

\* /clear: the next turn opens a session of another name.
Clear ==
  /\ Command /\ session' = session + 1
  /\ UNCHANGED <<at, args, corpus, pattern, state, turn, asked, printed, logged, written, exit>>

\* /load: a new corpus takes the place of the old one, and a chat agent becomes a research
\* agent; nothing loaded leaves both.
LoadCommand ==
  /\ Command /\ \E ok \in BOOLEAN : Loaded(ok)
  /\ UNCHANGED <<at, args, session, state, turn, asked, printed, logged, written, exit>>

\* /explain <path>.
ExplainCommand ==
  /\ Command /\ written' = Len(ExplainTurns)
  /\ UNCHANGED <<at, args, session, corpus, pattern, state, turn, asked, printed, logged, exit>>

\* /load of an absolute glob, /explain to a path that cannot be written: the exception
\* is nobody's and ends the program.
CommandRaises ==
  /\ Command /\ at' = "dead" /\ exit' = 1
  /\ UNCHANGED <<args, session, corpus, pattern, state, turn, asked, printed, logged, written>>

\* A message: the gate before the dispatch, and a new turn with its record.
Send ==
  /\ MayAsk /\ asked < MaxTurns /\ ~BudgetExceeded(state)
  /\ asked' = asked + 1 /\ turn' = NewTurn(asked + 1) /\ at' = "turn"
  /\ state' = [state EXCEPT !.explain = ExplainTurns]
  /\ UNCHANGED <<args, session, corpus, pattern, commands, printed, logged, written, exit>>

\* Mutant of Outer: events of nested runs count as the turn's own.
MutOuter(run) == TRUE

\* Only events of the run seen first are the turn's: handlers skip the others.
Outer(run) == turn.outer = 0 \/ run = turn.outer

\* Every event is logged; the first one names the outer run.
Log(run) ==
  /\ at = "turn" /\ turn.events < MaxEvents
  /\ (turn.outer = 0 => run = OuterRun(turn.asked))
  /\ logged' = IF args.log THEN [logged EXCEPT !.events = @ + 1] ELSE logged

Heard == [turn EXCEPT !.outer = IF @ = 0 THEN OuterRun(turn.asked) ELSE @, !.events = @ + 1]

Runs == {OuterRun(turn.asked), InnerRun(turn.asked)}

\* A tool call of the turn or of a run nested in it is complete.
ToolDone(run) ==
  /\ Log(run)
  /\ turn' = IF Outer(run) THEN [Heard EXCEPT !.calls = Append(@, run)] ELSE Heard
  /\ UNCHANGED <<at, args, session, corpus, pattern, state, asked, commands, printed, written, exit>>

\* Text, intents, citations, refusals and errors fill the record and are shown.
OtherEvent(run) ==
  /\ Log(run) /\ turn' = Heard
  /\ UNCHANGED <<at, args, session, corpus, pattern, state, asked, commands, printed, written, exit>>

\* TurnSummary: the totals take it, every time one comes; the turn's record is appended
\* once and says what the last summary said; the alert is printed the first time its
\* threshold is met.  Nested runs have summaries too.
Summary(run, cost) ==
  /\ Log(run)
  /\ IF Outer(run)
     THEN LET total == Absorb(state, cost) IN
            /\ state' = [total EXCEPT !.alerted = @ \/ AlertDue(total)]
            /\ printed' = [printed EXCEPT !.alerts = @ + IF AlertDue(total) THEN 1 ELSE 0]
            /\ turn' = [Heard EXCEPT !.appended = TRUE, !.cost = cost,
                                    !.spent = @ + cost, !.summaries = @ + 1]
     ELSE turn' = Heard /\ UNCHANGED <<state, printed>>
  /\ UNCHANGED <<at, args, session, corpus, pattern, asked, commands, written, exit>>

\* The stream ends, after a summary, a pause or an exception: the totals meet the cap.
TurnOver ==
  /\ at = "turn"
  /\ IF BudgetExceeded(state)
     THEN /\ at' = "leaving" /\ printed' = [printed EXCEPT !.budgets = @ + 1]
          /\ logged' = IF args.log THEN [logged EXCEPT !.budgets = @ + 1] ELSE logged
     ELSE at' = "prompt" /\ UNCHANGED <<printed, logged>>
  /\ UNCHANGED <<args, session, corpus, pattern, state, turn, asked, commands, written, exit>>

\* Ctrl-C while a turn runs: no Exception, so the program ends there.
Interrupted ==
  /\ at = "turn" /\ at' = "dead" /\ exit' = 1
  /\ UNCHANGED <<args, session, corpus, pattern, state, turn, asked, commands, printed, logged, written>>

\* The end of _run_repl and main: log closed, explain records written, exit code.
Exit ==
  /\ at = "leaving" /\ at' = "ended"
  /\ written' = IF args.explain THEN Len(ExplainTurns) ELSE written
  /\ exit' = IF BudgetExceeded(state) THEN 2 ELSE 0
  /\ UNCHANGED <<args, session, corpus, pattern, state, turn, asked, commands, printed, logged>>

ReplNext ==
  \/ Launch \/ Leave \/ Clear \/ LoadCommand \/ ExplainCommand \/ CommandRaises \/ Send
  \/ \E run \in Runs : ToolDone(run) \/ OtherEvent(run) \/ \E cost \in Costs : Summary(run, cost)
  \/ TurnOver \/ Interrupted \/ Exit

ReplSpec == ReplInit /\ [][ReplNext]_replVars

-----------------------------------------------------------------------------
\* The records add up to the totals: each goes on where the one before ended, in cost and
\* in turns counted.
AddUp(records, total, turns) ==
  /\ records = <<>> => total = 0 /\ turns = 0
  /\ \A i \in DOMAIN records :
       /\ i = 1 => records[i].before = 0 /\ records[i].index = 1
       /\ records[i].before + records[i].spent =
            IF i = Len(records) THEN total ELSE records[i + 1].before
       /\ records[i].index + records[i].summaries =
            IF i = Len(records) THEN turns + 1 ELSE records[i + 1].index

\* A record has the calls of its own turn, and the cost of it unless the turn was summed up
\* more than once, when it has that of the last time.
OwnRecord(r) ==
  /\ \A c \in Range(r.calls) : c = OuterRun(r.asked)
  /\ r.summaries > 0 /\ r.cost <= r.spent /\ (r.summaries = 1 => r.cost = r.spent)

\* What the session says of itself adds up, however runs nest and turns end: one record
\* per turn that was summed up, in order, numbered by the turns counted before it, with its
\* own calls and costs, that add up to the totals; the total never meets the cap while the
\* prompt takes messages; the alert and the budget line are said once, the exit code says
\* which end it was; and a corpus makes a research agent of a chat agent and of no other
\* (_SessionState, _run_repl).
SessionAccounted ==
  /\ AddUp(ExplainTurns, state.cost, state.turns)
  /\ \A i \in DOMAIN ExplainTurns : OwnRecord(ExplainTurns[i])
  /\ \A i, j \in DOMAIN ExplainTurns : i < j => ExplainTurns[i].asked < ExplainTurns[j].asked
  /\ at = "prompt" => ~BudgetExceeded(state)
  /\ printed.alerts = IF state.alerted THEN 1 ELSE 0
  /\ state.turns > 0 /\ args.alert > 0 => (state.alerted <=> state.cost >= args.alert)
  /\ exit \in {0, 2} => (exit = 2 <=> printed.budgets = 1)
  /\ args.log => printed.budgets = logged.budgets
  /\ pattern = IF args.pattern = "chat" /\ corpus # 0 THEN "research" ELSE args.pattern

\* What a comment says of the explain records: written whenever the session ends.
ExplainAlwaysWritten == at \in {"ended", "dead"} /\ args.explain => written = Len(ExplainTurns)

\* What the help says of /clear: the session's memory, its documents with it, is cleared.
ClearClears == [][session' # session => corpus' = 0]_replVars

\* What the comment at the gate says: it, not the check after a turn, refuses turns.
GateRefuses == at = "leaving" /\ BudgetExceeded(state) => ~turn.appended
=============================================================================
