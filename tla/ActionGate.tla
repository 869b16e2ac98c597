----------------------------- MODULE ActionGate -----------------------------
(***************************************************************************)
(* The gate before an action (kaos_agents/action): Actor.forward, which    *)
(* classifies a plan by permission, reversibility and approval before it   *)
(* dispatches it, and the RateLimiter hook, whose token buckets count the  *)
(* tool calls of every run it is installed in.  Then the planner that acts  *)
(* through the gate, PlanExecutePlanner                                    *)
(* (kaos_agents/planning/plan_execute_planner.py): a plan of steps that     *)
(* perceive, act or respond, from the intent or from a planner call,       *)
(* executed in order.                                                      *)
(***************************************************************************)
EXTENDS Integers, Sequences, FiniteSets, FiniteSetsExt, SequencesExt

CONSTANTS
  Tools,       \* names of tools
  Unnamed,     \* the tool of a span without a name
  Globs,       \* the patterns of rates, in insertion order
  Matches,     \* Matches[t]: the patterns that match tool t
  Default,     \* the synthetic pattern of default_rate
  Limited,     \* whether there is a default_rate
  Rate,        \* Rate[p]: [capacity, refill], tokens at once and tokens a tick
  Decision,    \* Decision[t]: what the permission policy says: allow, ask, deny or none
  Configured,  \* whether a dispatch callback is wired
  MaxClock, MaxCalls, MaxPlans  \* bounds

ASSUME GateAssumption ==
  /\ Globs \in Seq({Globs[i] : i \in DOMAIN Globs})
  /\ Decision \in [Tools -> {"allow", "ask", "deny", "none"}]
  /\ \A p \in {Globs[i] : i \in DOMAIN Globs} \cup (IF Limited THEN {Default} ELSE {}) :
       Rate[p] \in [capacity : Nat, refill : Nat]

VARIABLES
  now,      \* time.monotonic()
  buckets,  \* pattern -> [tokens, last], for the patterns met so far
  calls,    \* history: tool calls in order, [tool, at, granted]
  plans     \* history: plans put to the Actor, [plan, outcome]

gateVars == <<now, buckets, calls, plans>>

Tiers == {"reversible", "recoverable", "externally_visible", "irreversible"}

GateInit == now = 0 /\ buckets = <<>> /\ calls = <<>> /\ plans = <<>>

-----------------------------------------------------------------------------
\* The first pattern that matches; the default one without any.
PatternOf(tool) ==
  LET hits == {i \in DOMAIN Globs : Globs[i] \in Matches[tool]} IN
    IF hits = {} THEN Default ELSE Globs[Min(hits)]

Unrated(tool) == tool = Unnamed \/ (PatternOf(tool) = Default /\ ~Limited)

\* A bucket is made full when it is first needed.
Bucket(p) == IF p \in DOMAIN buckets THEN buckets[p] ELSE [tokens |-> Rate[p].capacity, last |-> now]

\* Mutant of Filled: a long idle time fills a bucket above its capacity.
MutFilled(p) == Bucket(p).tokens + (now - Bucket(p).last) * Rate[p].refill
Filled(p) == Min({Rate[p].capacity, Bucket(p).tokens + (now - Bucket(p).last) * Rate[p].refill})

\* RateLimiter.on_tool_call_start; a call it grants is made.
CallStart ==
  \E tool \in Tools \cup {Unnamed} :
    /\ Len(calls) < MaxCalls
    /\ IF Unrated(tool)
       THEN /\ calls' = Append(calls, [tool |-> tool, at |-> now, granted |-> TRUE])
            /\ UNCHANGED buckets
       ELSE LET p == PatternOf(tool)  have == Filled(p) IN
              /\ calls' = Append(calls, [tool |-> tool, at |-> now, granted |-> have >= 1])
              /\ buckets' = [q \in DOMAIN buckets \cup {p} |->
                               IF q = p THEN [tokens |-> IF have >= 1 THEN have - 1 ELSE have, last |-> now]
                               ELSE buckets[q]]
    /\ UNCHANGED <<now, plans>>

Tick == now < MaxClock /\ now' = now + 1 /\ UNCHANGED <<buckets, calls, plans>>

-----------------------------------------------------------------------------
\* ApprovalWorkflow.required_for.
RequiredFor(plan) ==
  \/ plan.tier = "irreversible"
  \/ plan.tier = "externally_visible" /\ plan.approval

ClassifyPlan(plan) ==
  CASE Decision[plan.tool] = "deny" -> "deny"
    [] Decision[plan.tool] = "ask" -> "approval_required"
    [] Decision[plan.tool] = "allow" -> IF plan.tier = "irreversible" THEN "approval_required" ELSE "auto_allow"
    [] OTHER -> IF RequiredFor(plan) THEN "approval_required" ELSE "auto_allow"

\* Actor.forward: a refusal, or whatever the callback returns or raises.
Outcomes(plan) ==
  CASE ClassifyPlan(plan) = "deny" -> {"permission_denied"}
    [] ClassifyPlan(plan) = "approval_required" -> {"approval_pending"}
    [] OTHER -> IF Configured THEN {"done", "refused", "raised"} ELSE {"not_configured"}

Dispatched == {"done", "refused", "raised"}

\* A caller's plan: its tier is whatever the caller says, and it may waive approval.
Forward ==
  \E tool \in Tools, tier \in Tiers, approval \in BOOLEAN :
    LET plan == [tool |-> tool, tier |-> tier, approval |-> approval] IN
      /\ Len(plans) < MaxPlans
      /\ \E outcome \in Outcomes(plan) : plans' = Append(plans, [plan |-> plan, outcome |-> outcome])
      /\ UNCHANGED <<now, buckets, calls>>

GateNext == CallStart \/ Tick \/ Forward
GateSpec == GateInit /\ [][GateNext]_gateVars

-----------------------------------------------------------------------------
GrantsOf(p, i, j) == Cardinality({k \in i..j : calls[k].granted /\ ~Unrated(calls[k].tool)
                                                /\ PatternOf(calls[k].tool) = p})
Allowance(p, i, j) == Rate[p].capacity + Rate[p].refill * (calls[j].at - calls[i].at)

\* Over any stretch of calls, whatever tools share a pattern and however long it was idle,
\* no more are granted than the capacity and the refill of that time; and none is refused
\* that would have stayed within it (RateLimiter.allow, _TokenBucket.consume).  No plan is
\* ever dispatched whose tool a rule denies or asks about, nor one that calls itself
\* irreversible, whatever a rule allows and whatever the plan waives; and one that others
\* see is dispatched unapproved only by a rule or a waiver (Actor.classify_plan, forward).
GateSound ==
  /\ \A j \in DOMAIN calls :
       LET t == calls[j].tool  p == PatternOf(t) IN
         ~Unrated(t) =>
           IF calls[j].granted THEN \A i \in 1..j : GrantsOf(p, i, j) <= Allowance(p, i, j)
           ELSE \E i \in 1..j : GrantsOf(p, i, j) + 1 > Allowance(p, i, j)
  /\ \A k \in DOMAIN plans :
       plans[k].outcome \in Dispatched =>
         LET plan == plans[k].plan IN
           /\ Decision[plan.tool] \notin {"deny", "ask"} /\ plan.tier # "irreversible"
           /\ plan.tier = "externally_visible" /\ plan.approval => Decision[plan.tool] = "allow"

\* What classify_plan says of a rule that allows: an externally visible action whose plan
\* does not waive its approval still needs it.
VisibleIsApproved ==
  \A k \in DOMAIN plans :
    plans[k].outcome \in Dispatched => ~(plans[k].plan.tier = "externally_visible" /\ plans[k].plan.approval)

-----------------------------------------------------------------------------
CONSTANTS
  Intents,   \* intent types
  Kinds,     \* kinds of step, some of them unknown to the planner
  MaxSteps,  \* max_steps
  MaxLength  \* bound: length of a plan of the planner call

ASSUME PlanAssumption == MaxSteps \in Nat \ {0} /\ MaxLength \in Nat

VARIABLES
  plan,   \* kinds of the steps, in order
  given,  \* which of perceiver and actor the caller passes
  exec,   \* [at, next, prior, executed, skipped, records, text, raised]; raised is history
  acts    \* history: what the Actor answered each act

planVars == <<plan, given, exec, acts>>

\* prior is step_outputs joined: an output is the sequence of steps whose findings it carries.
Idle == [at |-> "idle", next |-> 1, prior |-> <<>>, executed |-> 0, skipped |-> 0, records |-> <<>>, text |-> <<>>,
         raised |-> {}]

PlanInit == plan = <<>> /\ given = {} /\ exec = Idle /\ acts = <<>>

\* _heuristic_steps; an intent it does not know is answered.
HeuristicSteps(intent) ==
  CASE intent = "research" -> <<"perceive", "respond">>
    [] intent = "tool_use" -> <<"act", "respond">>
    [] intent = "plan" -> <<"perceive", "act", "respond">>
    [] OTHER -> <<"respond">>

\* plan and the start of execute; the plan of a planner call is trusted.
Execute ==
  /\ exec.at \in {"idle", "done"}
  /\ \/ \E intent \in Intents : plan' = HeuristicSteps(intent)
     \/ \E n \in 0..MaxLength : plan' \in [1..n -> Kinds]
  /\ given' \in SUBSET {"perceiver", "actor"}
  /\ exec' = [Idle EXCEPT !.at = IF plan' = <<>> THEN "done" ELSE "running"]
  /\ acts' = <<>>

Record(kind, output, skipped) == [step |-> exec.next, kind |-> kind, output |-> output, skipped |-> skipped]

\* _build_plan_result: the last answer, or what the steps found without one.
TextOf(e) ==
  LET answers == {i \in DOMAIN e.records : e.records[i].kind = "respond" /\ ~e.records[i].skipped}
  IN IF answers # {} THEN e.records[Max(answers)].output ELSE e.prior

LastStep == Min({MaxSteps, Len(plan)})

\* The step is over; after the last one the result is built.
Advance(e) ==
  exec' = IF e.next = LastStep
          THEN [e EXCEPT !.at = "done", !.text = TextOf(e)]
          ELSE [e EXCEPT !.next = @ + 1]

Skip(kind) ==
  Advance([exec EXCEPT !.skipped = @ + 1, !.records = Append(@, Record(kind, <<>>, TRUE))])

\* Mutant of Succeed: the output of a step is put before what was found so far.
MutSucceed(kind, output) ==
  Advance([exec EXCEPT !.executed = @ + 1, !.prior = output \o @,
                       !.records = Append(@, Record(kind, output, FALSE))])

Succeed(kind, output) ==
  Advance([exec EXCEPT !.executed = @ + 1, !.prior = @ \o output,
                       !.records = Append(@, Record(kind, output, FALSE))])

\* A step that raises: the loop records nothing of it and either ends or goes on.
Fail ==
  LET e == [exec EXCEPT !.raised = @ \cup {exec.next}] IN
    \/ exec' = [e EXCEPT !.at = "done", !.text = TextOf(e)]
    \/ Advance(e)

Running(kind) == exec.at = "running" /\ plan[exec.next] = kind

\* What a step finds: a text, an empty one too.
StepOutputs == {<<>>, <<exec.next>>}

\* _dispatch_perceive: items, or a note that there are none.
Perceive ==
  /\ Running("perceive")
  /\ IF "perceiver" \in given THEN Fail \/ \E output \in StepOutputs : Succeed("perceive", output)
     ELSE Skip("perceive")
  /\ UNCHANGED <<plan, given, acts>>

\* The ActionPlan of a step says nothing of reversibility or approval.
ActionOf(tool) == [tool |-> tool, tier |-> "irreversible", approval |-> TRUE]

\* _dispatch_act: the outcome of the Actor, rendered.
Act ==
  /\ Running("act")
  /\ IF "actor" \in given
     THEN \E tool \in Tools : \E outcome \in Outcomes(ActionOf(tool)) :
            /\ acts' = Append(acts, outcome)
            /\ IF outcome = "raised" THEN Fail ELSE \E output \in StepOutputs : Succeed("act", output)
     ELSE Skip("act") /\ UNCHANGED acts
  /\ UNCHANGED <<plan, given>>

\* _dispatch_respond: everything so far; without, the goal or the description, either empty.
Respond ==
  /\ Running("respond")
  /\ IF exec.prior # <<>> THEN Succeed("respond", exec.prior)
     ELSE \E said \in {<<>>, <<0>>} : Succeed("respond", said)
  /\ UNCHANGED <<plan, given, acts>>

UnknownStep ==
  /\ exec.at = "running" /\ plan[exec.next] \notin {"perceive", "act", "respond"}
  /\ Skip(plan[exec.next]) /\ UNCHANGED <<plan, given, acts>>

PlanNext == Execute \/ Perceive \/ Act \/ Respond \/ UnknownStep
PlanSpec == PlanInit /\ [][PlanNext]_planVars

-----------------------------------------------------------------------------
\* What the steps found, and where the answer that counts stands: at the end without one.
FoundBy(e) == {r.step : r \in {r \in ToSet(e.records) : r.kind \in {"perceive", "act"} /\ r.output # <<>>}}
AnswerStep(e) ==
  LET answers == {r.step : r \in {r \in ToSet(e.records) : r.kind = "respond"}}
  IN IF answers = {} THEN LastStep + 1 ELSE Max(answers)

\* A text tells exactly what was found before a step, in the order it was found.
Tells(text, found, before) ==
  /\ ToSet(text) \subseteq 0..(before - 1) /\ ToSet(text) \ {0} \subseteq found
  /\ {i \in found : i < before} \subseteq ToSet(text)
  /\ \A k \in DOMAIN text, i \in found : i < text[k] => \E j \in 1..(k - 1) : text[j] = i

\* No act of a plan is dispatched: the Actor holds or refuses every one, whatever the rules
\* say of its tool (_dispatch_act with Actor.classify_plan).  Every step up to the end is
\* recorded once, in order, unless it raised, and only a step that raised ends the plan early
\* (LoopRunner); and the result tells, in order, what was found before the last answer and
\* nothing found after it, whichever steps were skipped or raised in between
\* (_dispatch_respond, _build_plan_result).
PlanSound ==
  LET recorded == {r.step : r \in ToSet(exec.records)} IN
    /\ ToSet(acts) \cap Dispatched = {}
    /\ exec.executed + exec.skipped = Len(exec.records)
    /\ \A i, j \in DOMAIN exec.records : i < j => exec.records[i].step < exec.records[j].step
    /\ recorded \cap exec.raised = {}
    /\ exec.at = "done" =>
         /\ \E k \in 0..LastStep : recorded \cup exec.raised = 1..k /\ (k = LastStep \/ k \in exec.raised)
         /\ Tells(exec.text, FoundBy(exec), AnswerStep(exec))

\* What the module says of a step that fails: it is recorded as skipped and the plan goes on.
FailureIsSkipped == exec.at = "done" => exec.executed + exec.skipped = LastStep

\* What a reader of an answer expects: nothing twice in it.
AnsweredOnce == IsInjective(exec.text)
=============================================================================
