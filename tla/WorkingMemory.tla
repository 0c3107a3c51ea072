------------------------------ MODULE WorkingMemory ------------------------------
(***************************************************************************)
(* What a working-memory update makes of a scope's latest events: which it *)
(* takes, which of them it selects, what it extracts from these without    *)
(* asking a model, and what the model's patch adds.  RuntimeTurn says when *)
(* updates run.                                                            *)
(*                                                                         *)
(* An event has an id, a role, the text its items are made of (one of a    *)
(* kind), and what the extractor's patterns read in it: "goal", members of *)
(* Fields, and "wish" if it is phrased as one: then a model may be asked.  *)
(***************************************************************************)
EXTENDS Sequences, SequencesExt, JsArrays

CONSTANTS
  MaxRecentTurns,  \* WORKING_MEMORY_MAX_RECENT_TURNS
  MaxItems,        \* WORKING_MEMORY_MAX_ITEMS_PER_FIELD
  Patches,         \* what the model may answer; {} without WORKING_MEMORY_USE_LLM
  ScopeGoal,       \* the scope's own goal, or NoText
  NoText

Fields == {"constraints", "decisions", "questions", "progress"}
Readable == Fields \cup {"goal", "wish"}

NoItems == [f \in Fields |-> << >>]
NothingKnown == [goal |-> NoText, frame |-> NoText, items |-> NoItems, sources |-> << >>]

\* The model lists what it finds, and sums up the progress in one text.
IsPatch(p) ==
  /\ DOMAIN p = {"goal", "frame", "items"} /\ DOMAIN p.items = Fields
  /\ \A f \in Fields : IsFiniteSet(DOMAIN p.items[f]) /\ DOMAIN p.items[f] = 1..Size(p.items[f])
  /\ Size(p.items["progress"]) <= 1

ASSUME WorkingMemoryAssumption ==
  /\ {MaxRecentTurns, MaxItems} \subseteq Nat \ {0}
  /\ \A p \in Patches : IsPatch(p)

AtLeast(n, m) == IF m < n THEN n ELSE m
AtMost(n, m) == IF m > n THEN n ELSE m

\* slice(0, n), slice(-n) and at(-1)
Earliest(s, n) == Filter(s, {i \in DOMAIN s : i <= n})
Latest(s, n) == Filter(s, {i \in DOMAIN s : i > Size(s) - n})
AtEnd(s) == s[Size(s)]

\* uniq: each where it was said first.
Uniq(s) == Filter(s, {i \in DOMAIN s : \A j \in DOMAIN s : s[j] = s[i] => i <= j})

Or(text, other) == IF text # NoText THEN text ELSE other

-----------------------------------------------------------------------------
\* The events of a scope that a job reads, oldest first.
TakeSize == AtLeast(3 * MaxRecentTurns, MaxRecentTurns + 8)
Taken(events) == Latest(events, TakeSize)

Mine(events) == Filter(events, {i \in DOMAIN events : events[i].role = "user"})
Saying(events, what) == Filter(events, {i \in DOMAIN events : what \in events[i].says})

\* Mutant: the latest goal is not kept when later lines crowd it out.
SelectedRecent(events) == Latest(Mine(events), MaxRecentTurns)

\* selectWorkingMemoryEvents: the user's latest, and the latest that states a goal.
Selected(events) ==
  LET recent == Latest(Mine(events), MaxRecentTurns)
      goal   == Latest(Saying(Mine(events), "goal"), 1)
  IN  IF Values(goal) \subseteq Values(recent) THEN recent ELSE Concat(goal, recent)

\* What the events say of a field, and the cap it has.
Said(events, f) ==
  LET saying == Saying(events, f)
  IN  Uniq([i \in DOMAIN saying |-> saying[i].text])

CapOf(f) == IF f = "progress" THEN 3 ELSE MaxItems

SourceCap == AtLeast(2 * MaxItems, 10)

\* extractWorkingMemoryState.
Extracted(events) ==
  LET goals == Saying(events, "goal")
      goal  == IF goals = << >> THEN NoText ELSE AtEnd(goals).text
      items == [f \in Fields |-> Latest(Said(events, f), CapOf(f))]
      last(f)  == IF items[f] = << >> THEN NoText ELSE AtEnd(items[f])
      first(f) == IF items[f] = << >> THEN NoText ELSE items[f][1]
  IN  [goal    |-> goal,
       frame   |-> Or(Or(goal, last("progress")), Or(last("decisions"), first("constraints"))),
       items   |-> items,
       sources |-> Latest(Uniq([i \in DOMAIN events |-> events[i].id]), SourceCap)]

\* mergeWorkingMemoryState.  The model's progress summary replaces the old one.
Merged(base, patch) ==
  [goal    |-> Or(patch.goal, base.goal),
   frame   |-> Or(Or(patch.frame, base.frame), Or(patch.goal, base.goal)),
   items   |-> [f \in Fields |->
                  IF f = "progress"
                  THEN (IF patch.items[f] # << >> THEN patch.items[f] ELSE base.items[f])
                  ELSE Latest(Uniq(Concat(base.items[f], patch.items[f])), MaxItems)],
   sources |-> base.sources]

WorthAsking(events, state) ==
  /\ NoText = state.goal \/ << >> \in {state.items["constraints"], state.items["questions"]}
  /\ \E i \in DOMAIN events : "wish" \in events[i].says

\* refineWorkingMemoryStateWithLlm: a model that is off, fails, or whose answer does
\* not parse leaves what was extracted.
Refinements(events, state) ==
  {state} \cup (IF WorthAsking(events, state) THEN {Merged(state, p) : p \in Patches} ELSE {})

\* compileWorkingMemoryView.
ViewOf(state) == [state EXCEPT !.goal = Or(@, ScopeGoal)]
=============================================================================
