---------------------------- MODULE SessionMemory ----------------------------
(***************************************************************************)
(* The SessionMemory of one session in the hands of its turn: sections     *)
(* under token and item budgets (kaos_agents/memory/sections.py,           *)
(* session.py), the context a model call is given                          *)
(* (kaos_agents/context/assemble.py, planning/recall.py) and the           *)
(* summaries at the end of a turn (memory/summarize.py).                   *)
(*                                                                         *)
(* An item is its number, its size in tokens and its priority.  What the   *)
(* search ranks first is any choice of items; what a summary says is left  *)
(* out, its size is any.                                                   *)
(***************************************************************************)
EXTENDS Integers, Sequences, FiniteSets, SequencesExt, FiniteSetsExt

CONSTANTS
  Order,       \* the section types, in the order of the configuration
  Priority,    \* the same types as priority_order: the first is trimmed last
  Documents,   \* the type whose items are the attached corpus
  Configs,     \* the profiles to check: functions from types to SectionConfig
  Sizes,       \* Sizes[t]: sizes of what is added to a section
  Weights,     \* priorities of items
  Totals,      \* total_budget_tokens an assembly is called with
  Threshold,   \* retrieval_threshold
  Unlimited,   \* a limit no section reaches (max_items = None)
  HandleSize,  \* tokens of the corpus handle
  MaxItems,    \* bound: items ever made
  MaxReads     \* bound: reads that are told apart by their time

Types == Range(Order)
Policies == {"none", "fifo", "lifo", "lru", "lfu", "priority", "refuse"}
Summarising == {"never", "on_overflow", "on_turn"}

ASSUME SessionMemoryAssumption ==
  /\ Documents \in Types /\ "none" \notin Types
  /\ Order \in Seq(Types) /\ Priority \in Seq(Types) /\ Range(Priority) = Types
  /\ Sizes \in [Types -> SUBSET Nat]
  /\ Weights \subseteq Int /\ Totals \subseteq Nat
  /\ {Threshold, HandleSize, MaxItems, MaxReads} \subseteq Nat
  /\ \A c \in Configs : \A t \in Types :
       /\ c[t].budget \in Nat /\ c[t].max \in Nat \ {0}
       /\ c[t].policy \in Policies /\ c[t].summary \in Summarising
       /\ {c[t].explicit, c[t].ephemeral} \subseteq BOOLEAN

VARIABLES
  config,   \* the profile, fixed when the session is made
  sec,      \* sec[t]: the Section, its items, token count and access tracking
  made,     \* items made so far
  clock,    \* reads so far: the time get() stamps
  sticky,   \* _corpus_ever_attached
  inTurn,   \* between begin_turn and end_turn
  op        \* the last write: its section, its item, what came of it

vars == <<config, sec, made, clock, sticky, inTurn, op>>

\* Tokens of a sequence of items.
Tokens(s) ==
  LET sum[k \in 0..Len(s)] == IF k = 0 THEN 0 ELSE sum[k - 1] + s[k].size
  IN sum[Len(s)]

NoTracking == [i \in {} |-> 0]
Cleared == [items |-> <<>>, tokens |-> 0, uses |-> NoTracking, last |-> NoTracking]

Without(f, i) == [j \in DOMAIN f \ {i} |-> f[j]]
Tracked(f, i) == IF i \in DOMAIN f THEN f[i] ELSE 0

\* What an item is worth to a policy that looks for the least.
Worth(policy, q, i) ==
  CASE policy = "lru" -> Tracked(q.last, i.id)
    [] policy = "lfu" -> Tracked(q.uses, i.id)
    [] policy = "priority" -> i.priority

\* The place of the item the policy gives up first (_evict_by_key,
\* _evict_lowest_priority: the first of those with the least value).
Victim(policy, q) ==
  CASE policy = "fifo" -> 1
    [] policy = "lifo" -> Len(q.items)
    [] OTHER -> Min({k \in DOMAIN q.items : \A j \in DOMAIN q.items :
                       Worth(policy, q, q.items[k]) <= Worth(policy, q, q.items[j])})

\* _evict_one: nothing under none and refuse, or when the section is empty.
EvictOne(policy, q) ==
  IF q.items = <<>> \/ policy \in {"none", "refuse"}
  THEN q
  ELSE LET k == Victim(policy, q)
           item == q.items[k]
       IN [items |-> RemoveAt(q.items, k),
           tokens |-> q.tokens - item.size,
           uses |-> Without(q.uses, item.id),
           last |-> Without(q.last, item.id)]

MutEvictsAll(policy, q, needed) ==   \* mutant: the section is cleared for room
  IF policy \in {"none", "refuse"} THEN q ELSE Cleared

\* _evict_tokens: one after another until enough is freed or nothing is left.
EvictTokens(policy, q, needed) ==
  LET after[k \in 0..Len(q.items)] == IF k = 0 THEN q ELSE EvictOne(policy, after[k - 1])
      enough == {k \in DOMAIN after : q.tokens - after[k].tokens >= needed}
  IN IF enough = {} THEN after[Len(q.items)] ELSE after[Min(enough)]

\* add_item: no budget is asked.
AddItem(q, item) ==
  [q EXCEPT !.items = Append(@, item), !.tokens = @ + item.size]

\* Sections that are summarised when they overflow are let overflow.
MayOverflow(c) == c.summary = "on_overflow"

\* Section.add: what it leaves, and "ok" or the error it raises.
Added(c, q, item) ==
  LET q1 == IF Len(q.items) >= c.max THEN EvictOne(c.policy, q) ELSE q
      over == c.budget > 0 /\ q1.tokens + item.size > c.budget
      needed == q1.tokens + item.size - c.budget
      q2 == EvictTokens(c.policy, q1, needed)
  IN IF c.explicit THEN [left |-> q, came |-> "explicit"]
     ELSE IF ~over \/ MayOverflow(c) THEN [left |-> AddItem(q1, item), came |-> "ok"]
     ELSE IF c.policy = "refuse" THEN [left |-> q1, came |-> "full"]
     ELSE IF q1.tokens - q2.tokens < needed THEN [left |-> q2, came |-> "not_freed"]
     ELSE [left |-> AddItem(q2, item), came |-> "ok"]

\* get(max_tokens): the oldest items up to the first that does not fit.
FittingPrefix(s, max) ==
  SubSeq(s, 1, Max({k \in 0..Len(s) : Tokens(SubSeq(s, 1, k)) <= max}))

\* ... and it stamps what it returns.
Touched(q, s) ==
  LET ids == {i.id : i \in Range(s)}
  IN [q EXCEPT !.uses = [i \in DOMAIN @ \cup ids |->
                           Tracked(q.uses, i) + IF i \in ids THEN 1 ELSE 0],
               !.last = [i \in DOMAIN @ \cup ids |->
                           IF i \in ids THEN clock + 1 ELSE q.last[i]]]

-----------------------------------------------------------------------------
(* What an assembly returns, from raw: the items each section contributes. *)

\* What the sections of S contribute in all.
Share(raw, S) ==
  LET tokens == [t \in Types |-> Tokens(raw[t])] IN MapThenSumSet(LAMBDA t : tokens[t], S)

TotalOf(raw) == Share(raw, Types)

Rank(t) == Min({k \in DOMAIN Priority : Priority[k] = t})

\* What the sections that are trimmed before t contribute in all.
TrimmedBefore(raw, t) == Share(raw, {u \in Types : Rank(u) > Rank(t)})

\* _trim_to_budget and phase 3 of get_sections: section after section, the oldest
\* items first, until the excess is gone.
Trimmed(raw, total) ==
  [t \in Types |->
    LET excess == TotalOf(raw) - total - TrimmedBefore(raw, t)
        enough == {k \in 0..Len(raw[t]) : Tokens(SubSeq(raw[t], 1, k)) >= excess}
        cut == IF enough = {} THEN Len(raw[t]) ELSE Min(enough)
    IN SubSeq(raw[t], cut + 1, Len(raw[t]))]

Handle == [id |-> 0, size |-> HandleSize, priority |-> 0]

\* SessionMemory.get_sections, the retrieval of recall().
SectionsRaw ==
  [t \in Types |-> IF config[t].budget > 0
                   THEN FittingPrefix(sec[t].items, config[t].budget)
                   ELSE sec[t].items]
GetSections(total) == Trimmed(SectionsRaw, total)

\* The items of s that the search found, in the order of s.
Among(s, hits) ==
  LET found == {i \in DOMAIN s : s[i].id \in hits}
      place(i) == 1 + Cardinality({j \in found : j < i})
  IN [k \in 1..Cardinality(found) |-> s[CHOOSE i \in found : place(i) = k]]

\* assemble_context: a section below the threshold whole, of another the hits.
AssembleRaw(hits) ==
  [t \in Types |-> IF Len(sec[t].items) >= Threshold
                   THEN Among(sec[t].items, hits)
                   ELSE sec[t].items]

AssembleContext(total, hits, pinned) ==
  LET raw == AssembleRaw(hits)
      kept == Trimmed(raw, total)
  IN IF TotalOf(raw) <= total THEN raw
     ELSE IF pinned /\ raw[Documents] # <<>> /\ kept[Documents] = <<>>
     THEN [kept EXCEPT ![Documents] = <<Handle>>]
     ELSE kept

-----------------------------------------------------------------------------
None == [type |-> "none", id |-> 0, size |-> 0, came |-> "ok"]

Init ==
  /\ config \in Configs
  /\ sec = [t \in Types |-> Cleared]
  /\ made = 0 /\ clock = 0 /\ sticky = FALSE /\ inTurn = FALSE /\ op = None

\* load_explicit, when the session is made: past the explicit-only check.
LoadExplicit(t, size) ==
  /\ ~inTurn /\ config[t].explicit /\ made < MaxItems
  /\ made' = made + 1
  /\ sec' = [sec EXCEPT ![t] = AddItem(@, [id |-> made', size |-> size, priority |-> 0])]
  /\ op' = None
  /\ UNCHANGED <<config, clock, sticky, inTurn>>

\* from_dict of what to_dict wrote: the items, counted again; the tracking is gone.
Restored(q) == [Cleared EXCEPT !.items = q.items, !.tokens = Tokens(q.items)]

\* A turn loads the session and clears the sections that live for a turn.
BeginTurn ==
  /\ ~inTurn
  /\ inTurn' = TRUE
  /\ sec' = [t \in Types |-> IF config[t].ephemeral THEN Cleared ELSE Restored(sec[t])]
  /\ op' = None
  /\ UNCHANGED <<config, made, clock, sticky>>

\* memory.add
Add(t, size, w) ==
  /\ inTurn /\ made < MaxItems
  /\ LET item == [id |-> made + 1, size |-> size, priority |-> w]
         a == Added(config[t], sec[t], item)
     IN /\ sec' = [sec EXCEPT ![t] = a.left]
        /\ op' = [type |-> t, id |-> item.id, size |-> size, came |-> a.came]
  /\ made' = made + 1
  /\ UNCHANGED <<config, clock, sticky, inTurn>>

\* assemble_context, and the search inside it, read every section whole; the turn
\* marks the corpus before.
Assemble ==
  /\ inTurn /\ clock < MaxReads
  /\ sticky' = (sticky \/ sec[Documents].items # <<>>)
  /\ clock' = clock + 1
  /\ sec' = [t \in Types |-> Touched(sec[t], sec[t].items)]
  /\ op' = None
  /\ UNCHANGED <<config, made, inTurn>>

\* recall of a strategy: reads what fits the section's own budget.
Recall ==
  /\ inTurn /\ clock < MaxReads
  /\ clock' = clock + 1
  /\ sec' = [t \in Types |-> Touched(sec[t], SectionsRaw[t])]
  /\ op' = None
  /\ UNCHANGED <<config, made, sticky, inTurn>>

\* summarize_turn: the sections that are due.
Due(t) ==
  /\ Len(sec[t].items) >= 2
  /\ \/ config[t].summary = "on_turn"
     \/ MayOverflow(config[t]) /\ config[t].budget > 0 /\ sec[t].tokens > config[t].budget

\* A summary of no text is dropped; another takes the place of the section.
SummaryOf(t, size) ==
  IF size = 0 THEN [left |-> sec[t], came |-> "ok"]
  ELSE Added(config[t], Cleared, [id |-> made + 1, size |-> size, priority |-> 0])

\* The end of a turn: section after section up to one whose summary is refused (the
\* error is logged), then end_turn and the save.
EndTurn(size) ==
  LET fails == {k \in DOMAIN Order :
                  Due(Order[k]) /\ SummaryOf(Order[k], size[Order[k]]).came # "ok"}
      done(t) == \E k \in DOMAIN Order : Order[k] = t /\ \A f \in fails : k <= f
  IN /\ inTurn /\ inTurn' = FALSE
     /\ \A t \in Types : Due(t) \/ size[t] = 0
     /\ made < MaxItems \/ \A t \in Types : size[t] = 0
     /\ sec' = [t \in Types |-> IF Due(t) /\ done(t) THEN SummaryOf(t, size[t]).left ELSE sec[t]]
     /\ made' = IF \E t \in Types : size[t] # 0 THEN made + 1 ELSE made
     /\ op' = None
     /\ UNCHANGED <<config, clock, sticky>>

\* Priorities are told apart where the policy looks at them.
WeightsOf(t) == IF config[t].policy = "priority" THEN Weights ELSE {0}

Next ==
  \/ \E t \in Types : \E s \in Sizes[t] : LoadExplicit(t, s)
  \/ BeginTurn
  \/ \E t \in Types : \E s \in Sizes[t], w \in WeightsOf(t) : Add(t, s, w)
  \/ Assemble
  \/ Recall
  \/ \E size \in [Types -> {0} \cup UNION Range(Sizes)] : EndTurn(size)

Spec == Init /\ [][Next]_vars

-----------------------------------------------------------------------------
Items == [id : 1..MaxItems, size : UNION Range(Sizes), priority : Weights \cup {0}]

\* Types of the variables.
TypeOK ==
  /\ config \in Configs
  /\ \A t \in Types :
       /\ sec[t].items \in Seq(Items) /\ sec[t].tokens \in Nat
       /\ \A f \in {sec[t].uses, sec[t].last} : \A i \in DOMAIN f : f[i] \in 1..MaxReads
  /\ made \in 0..MaxItems /\ clock \in 0..MaxReads
  /\ {sticky, inTurn} \subseteq BOOLEAN
  /\ op.type \in Types \cup {"none"}
  /\ op.came \in {"ok", "explicit", "full", "not_freed"}

Ids(s) == {i.id : i \in Range(s)}

\* The running token count of a section is that of its items, and what it tracks is
\* about items it holds: after any adds, evictions, reads, summaries and reloads
\* (sections.py keeps the three apart and adjusts each by hand).
CountExact ==
  \A t \in Types :
    /\ sec[t].tokens = Tokens(sec[t].items)
    /\ DOMAIN sec[t].uses \cup DOMAIN sec[t].last \subseteq Ids(sec[t].items)

\* A section that is neither loaded from configuration nor waiting for a summary is
\* within its token budget (Section.add, summarize_turn).
BudgetKept ==
  \A t \in Types :
    config[t].explicit \/ MayOverflow(config[t]) \/ config[t].budget = 0
      \/ sec[t].tokens <= config[t].budget

\* A section whose policy evicts is within its item limit (Section.add).
ItemLimitKept ==
  \A t \in Types :
    config[t].explicit \/ config[t].policy \in {"none", "refuse"}
      \/ Len(sec[t].items) <= config[t].max


\* After any adds, evictions, reads, summaries and reloads a section's count is that of its
\* items, what it tracks is about items it holds, and it is within the limits its policy
\* is to keep (sections.py, session.py).
SectionsSound == TypeOK /\ CountExact /\ BudgetKept /\ ItemLimitKept

Gone(t) == {i \in Range(sec[t].items) : i.id \notin Ids(sec'[t].items)}
Stays(t) == Range(sec[t].items) \ Gone(t)

\* What an add evicts is worth no more to the policy than anything it keeps, however
\* many items go (_evict_one and its helpers).
EvictsLeastWorth ==
  \A t \in Types : op'.type = t =>
    \A e \in Gone(t), k \in Stays(t) :
      CASE config[t].policy = "fifo" -> e.id < k.id
        [] config[t].policy = "lifo" -> e.id > k.id
        [] config[t].policy = "lru" -> Tracked(sec[t].last, e.id) <= Tracked(sec[t].last, k.id)
        [] config[t].policy = "lfu" -> Tracked(sec[t].uses, e.id) <= Tracked(sec[t].uses, k.id)
        [] config[t].policy = "priority" -> e.priority <= k.priority
        [] OTHER -> FALSE

\* An add that succeeds evicts no more than it needs: with one of the evicted items
\* back, a limit would be passed (_evict_tokens stops at enough).
EvictsNoMore ==
  \A t \in Types : (op'.type = t /\ op'.came = "ok" /\ Gone(t) # {}) =>
    \E e \in Gone(t) :
      \/ Len(sec'[t].items) + 1 > config[t].max
      \/ config[t].budget > 0 /\ sec'[t].tokens + e.size > config[t].budget

\* An add that is refused costs the section its items only when the new item alone is
\* over the budget (Section.add evicts first and raises after).
LossMeansTooBig ==
  \A t \in Types : (op'.type = t /\ op'.came # "ok") =>
    Gone(t) = {} \/ op'.size > config[t].budget

\* An add evicts what is worth least to the policy and no more than it needs, and one
\* that is refused evicts nothing, unless the new item alone is over the budget.
EvictsSparingly == [][EvictsLeastWorth /\ EvictsNoMore /\ LossMeansTooBig]_vars

\* Whatever is asked for, an assembly fits the total budget; the corpus handle alone
\* comes on top (get_sections, assemble_context).
ViewBounded ==
  \A total \in Totals :
    /\ TotalOf(GetSections(total)) <= total
    /\ \A hits \in SUBSET Ids(sec[Documents].items) : \A pinned \in BOOLEAN :
         TotalOf(AssembleContext(total, hits, pinned)) <= total + IF pinned THEN HandleSize ELSE 0

IsRecent(kept, s) == \E k \in 0..Len(s) : kept = SubSeq(s, k + 1, Len(s))

\* A trimmed section of the context keeps its newest items, and gives up any only
\* when all that are less important are empty ("preserve recency", session.py).
ViewRecent ==
  \A total \in Totals :
    LET kept == AssembleContext(total, 1..made, FALSE)
    IN \A t \in Types :
         /\ IsRecent(kept[t], sec[t].items)
         /\ kept[t] # sec[t].items => \A u \in Types : Rank(u) > Rank(t) => kept[u] = <<>>

\* Once a corpus was attached, a context in which no document fits still says that
\* there are documents, as long as they are few enough not to be searched
\* (assemble_context, the corpus handle).
CorpusReachable ==
  (sticky /\ sec[Documents].items # <<>> /\ Len(sec[Documents].items) < Threshold) =>
    \A total \in Totals : AssembleContext(total, 1..made, sticky)[Documents] # <<>>


\* The sections are sound, and so is what the model is shown of them: within the budget,
\* each section its newest items, less important ones given up first, and never blind to
\* an attached corpus.
ViewSound == SectionsSound /\ ViewBounded /\ ViewRecent /\ CorpusReachable

\* What the rest of the system takes for granted of memory/sections.py and context/assemble.py:
\* the sections and the view of them are sound, and nothing is evicted that need not be.
MemorySound == []ViewSound /\ EvictsSparingly

\* Refuted: the handle is there whatever the number of documents.
CorpusAlwaysReachable ==
  (sticky /\ sec[Documents].items # <<>>) =>
    \A total \in Totals : \A hits \in SUBSET (1..made) :
      AssembleContext(total, hits, sticky)[Documents] # <<>>

\* Refuted: what recall() returns of a section is its newest items.
RecallRecent ==
  \A t \in Types : IsRecent(GetSections(Max(Totals))[t], sec[t].items)

\* Refuted: a summary takes the place of what it summarises.
SummaryReplaces ==
  [][inTurn /\ ~inTurn' => \A t \in Types : sec[t].items # <<>> => sec'[t].items # <<>>]_vars
=============================================================================
