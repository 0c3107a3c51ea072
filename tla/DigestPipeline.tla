----------------------------- MODULE DigestPipeline -----------------------------
(***************************************************************************)
(* One scope's digest pipeline (runDigestControlPipeline) over a growing   *)
(* event log: what a run selects, what counts as a delta, how the          *)
(* deterministic merge moves the protected state, what the model's reply   *)
(* has to pass, and how the facts it extracts reach the profile.  The      *)
(* private copy against concurrent writers is ScopeNotes's subject, the    *)
(* event window DigestJobs's; here a run sees the whole log.               *)
(*                                                                         *)
(* A text stands for a wording: texts that differ only as far as the 0.92  *)
(* and the normalized comparison ignore are one text.  Wording says what   *)
(* the code's patterns read in it.                                         *)
(***************************************************************************)
EXTENDS Integers, FiniteSets, Sequences, Functions, JsLists

CONSTANTS
  Wording,      \* text -> [kind, topic, words, goal, replaces]
  NoText,       \* no goal
  Torn,         \* what is left of a wording cut to fit the character budget
  Similar,      \* sets {a, b} of distinct texts that count as the same fact
  Loose,        \* sets {a, b} that only the low thresholds (0.35, 0.45) match
  Turns,        \* stream events [id, text, type, pinned, size]
  Pages,        \* versions of documents [key, goal, lines, pinned, size]
  Pack,         \* facet -> [cap, protected, fromDocs, routes]
  Labels,       \* [kind, imp] the classifying model may assign
  Extracts,     \* <<facet, text>> the model may extract as profile facts
  Rewordings,   \* texts the consolidating model may write
  ScopeGoal,    \* the goal the scope was created with, or NoText
  Forgotten,    \* texts whose fact keys are forgotten
  BudgetTotal, BudgetDocs, BudgetStream,
  CharBudget,   \* in the unit of the sizes
  FactCap,      \* decisions and constraints a loaded state keeps (100)
  NoteCap,      \* questions, risks and volatile lines kept (10)
  ProvenanceCap,  \* values of a list whose provenance is kept (50)
  HistoryCap,   \* inactive registry entries a loaded state keeps (500)
  ConsolidateMin,
  MaxRetries,
  MaxFacts,     \* bound: facts one reply extracts
  MaxOutputs,   \* bound: strings one consolidation writes
  MaxLog,       \* bound: events stored
  MaxRuns       \* bound: runs begun

Texts  == DOMAIN Wording
Keys   == {p.key : p \in Pages}
Ids    == {t.id : t \in Turns}
Facets == DOMAIN Pack

Lists == {"decisions", "constraints", "todos", "questions", "risks", "volatile"}
DocumentLists == {"decisions", "constraints", "todos"}
Kinds == {"decision", "constraint", "todo", "status", "question", "note", "noise"}

ASSUME ConstantsAssumption ==
  /\ NoText \notin Texts
  /\ Torn \in Texts
  /\ Similar \cup Loose \subseteq SUBSET Texts
  /\ Keys \cap Ids = {}
  /\ \A t \in Texts : Wording[t].kind \in Kinds /\ Wording[t].goal \in Texts \cup {NoText}
  /\ \A t \in Turns : t.text \in Texts
  /\ \A p \in Pages : p.goal \in Texts \cup {NoText} /\ p.lines \in [DocumentLists -> Seq(Texts)]
  /\ \A f \in Facets : Pack[f].cap \in Nat \ {0}
  /\ \A l \in Labels : l.imp \in Nat
  /\ \A x \in Extracts : x[2] \in Texts
  /\ Rewordings \subseteq Texts
  /\ ScopeGoal \in Texts \cup {NoText}
  /\ {BudgetTotal, BudgetDocs, BudgetStream, CharBudget} \subseteq Nat \ {0}
  /\ {FactCap, NoteCap, ProvenanceCap, HistoryCap} \subseteq Nat \ {0}
  /\ {ConsolidateMin, MaxRetries, MaxFacts, MaxOutputs, MaxLog, MaxRuns} \subseteq Nat

VARIABLES
  log,        \* turns and document keys in the order of their createdAt
  page,       \* the stored version of each document (an upsert keeps its place)
  state,      \* the latest protected state
  hasDigest,  \* is there a digest to continue from?
  fresh,      \* has anything been created or updated since it?
  run,        \* the run in progress
  runs        \* runs begun

vars == <<log, page, state, hasDigest, fresh, run, runs>>

-----------------------------------------------------------------------------
(* Likeness of texts *)

Like(a, b) == a = b \/ {a, b} \in Similar
Near(a, b) == Like(a, b) \/ {a, b} \in Loose

Has(t, word) == word \in Wording[t].words
Topic(t) == Wording[t].topic
FactSized(t) == ~Has(t, "long")

FirstIn(I) == {i \in I : \A j \in I : i <= j}

\* The best match for t in vals (an equal one scores highest), if any.
Match(vals, t, how) ==
  LET like  == {i \in DOMAIN vals : Like(vals[i], t) \/ (how = "near" /\ Near(vals[i], t))}
      equal == {i \in like : vals[i] = t}
  IN  {vals[i] : i \in FirstIn(IF equal # {} THEN equal ELSE like)}

Suffix(vals, n) == SubSeq(vals, IF Len(vals) > n THEN Len(vals) - n + 1 ELSE 1, Len(vals))
Prefix(vals, n) == SubSeq(vals, 1, IF Len(vals) < n THEN Len(vals) ELSE n)
DropAt(vals, i) == SubSeq(vals, 1, i - 1) \o SubSeq(vals, i + 1, Len(vals))

-----------------------------------------------------------------------------
(* The protected state *)

\* by[f][t] holds the provenance of t: ids of turns, keys of documents.  The texts
\* of list f that have one are traced[f], in the order they came in.
DefaultState ==
  [goal |-> NoText, goalBy |-> {},
   held |-> [f \in Lists |-> << >>],
   by   |-> [f \in Lists |-> [t \in Texts |-> {}]],
   traced |-> [f \in Lists |-> << >>],
   reg  |-> << >>,
   profile |-> [f \in Facets |-> << >>]]

\* normalizeFactRegistry: every active entry, of the others the last ones.
Recorded(reg) ==
  LET history == {i \in DOMAIN reg : reg[i].status # "active"}
  IN  Filtered(reg, {i \in DOMAIN reg : i \in history =>
                       Cardinality({j \in history : j > i}) < HistoryCap})

\* normalizeDigestState on load.  (Provenance is trimmed as it is written: Traced.)
Loaded(s) ==
  [s EXCEPT !.reg = Recorded(@),
            !.held.decisions = Suffix(@, FactCap), !.held.constraints = Suffix(@, FactCap),
            !.held.questions = Suffix(@, NoteCap), !.held.risks = Suffix(@, NoteCap),
            !.held.volatile = Suffix(@, NoteCap)]

\* Mutant: the cap is checked before the new line is added.
CappedLate(f, vals) == IF f \in {"questions", "risks", "volatile"} THEN Suffix(vals, NoteCap + 1) ELSE vals

Capped(f, vals) == IF f \in {"questions", "risks", "volatile"} THEN Suffix(vals, NoteCap) ELSE vals

\* upsertValueProvenance: one more reference for v.  Of the values that have any,
\* the last ProvenanceCap keep theirs.
Traced(s, f, v, ref) ==
  LET all  == IF v \in Range(s.traced[f]) THEN s.traced[f] ELSE Append(s.traced[f], v)
      kept == Suffix(all, ProvenanceCap)
      refs(t) == IF t = v THEN s.by[f][t] \cup {ref} ELSE s.by[f][t]
  IN  [s EXCEPT !.traced[f] = kept,
                !.by[f] = [t \in Texts |-> IF t \in Range(kept) THEN refs(t) ELSE {}]]

\* A new value is added, a held one like it gets one more reference.
Keep(s, f, t, ref) ==
  LET held == Match(s.held[f], t, "like")
  IN  IF held = {}
      THEN Traced([s EXCEPT !.held[f] = Capped(f, Append(@, t))], f, t, ref)
      ELSE Traced(s, f, CHOOSE v \in held : TRUE, ref)

Drop(s, f, gone) ==
  [s EXCEPT !.held[f] = Filtered(@, {i \in DOMAIN @ : @[i] \notin gone}),
            !.traced[f] = Filtered(@, {i \in DOMAIN @ : @[i] \notin gone}),
            !.by[f] = [t \in Texts |-> IF t \in gone THEN {} ELSE @[t]]]

\* Registry entries not superseded (a retired one still counts here).
Standing(s, t) == {i \in DOMAIN s.reg : s.reg[i].status # "superseded" /\ Like(s.reg[i].text, t)}
ActiveLike(s, t) == {i \in Standing(s, t) : s.reg[i].status = "active"}

Entry(t, type, trust) == [text |-> t, type |-> type, trust |-> trust, status |-> "active"]

Promote(s, t, type, trust) ==
  IF Standing(s, t) # {} \/ ~FactSized(t) THEN s
  ELSE [s EXCEPT !.reg = Append(@, Entry(t, type, trust))]

\* Mutant: the registry protects nothing.
GuardedNever(s, base, t) == FALSE

\* Protected from stream events: the first base entries are the previous state's.
Guarded(s, base, t) == \E i \in Standing(s, t) : i <= base

WithStatus(s, I, status) ==
  [s EXCEPT !.reg = [i \in DOMAIN @ |-> IF i \in I THEN [@[i] EXCEPT !.status = status] ELSE @[i]]]

\* pruneForgottenFacts: strings go, active entries are retired.
Pruned(s) ==
  LET p == [s EXCEPT !.profile = [f \in Facets |-> Filtered(@[f], {i \in DOMAIN @[f] : @[f][i] \notin Forgotten})]]
  IN  WithStatus(p, {i \in DOMAIN s.reg : /\ s.reg[i].status = "active"
                                          /\ s.reg[i].type \in Facets
                                          /\ s.reg[i].text \in Forgotten}, "retired")

-----------------------------------------------------------------------------
(* Selection *)

DurableKinds == {"decision", "constraint", "todo"}

Importance == [decision |-> 85, constraint |-> 80, todo |-> 70, status |-> 55,
               question |-> 50, note |-> 45, noise |-> 5]

ImportanceOf(t) ==
  LET i == Importance[Wording[t].kind] + (IF Has(t, "keyword") THEN 15 ELSE 0)
  IN  IF i > 100 THEN 100 ELSE i

TurnOf(id) == CHOOSE t \in Turns : t.id = id

\* Positions that stay: of the turns with one text the newest.
Deduped ==
  {p \in DOMAIN log : \/ log[p] \in Keys
                      \/ \A q \in DOMAIN log : q > p /\ log[q] \in Ids =>
                           TurnOf(log[q]).text # TurnOf(log[p]).text}

\* The latest documents, newest first.
Documents ==
  LET newest == Prefix(Ordered({p \in DOMAIN log : log[p] \in Keys}, Later), BudgetDocs)
  IN  [i \in DOMAIN newest |-> page[log[newest[i]]]]

\* 1000 * range * (0.7 * importance + 0.3 * recency + boost).
Score(p) ==
  LET oldest == CHOOSE o \in Deduped : \A q \in Deduped : o <= q
      newest == CHOOSE n \in Deduped : \A q \in Deduped : q <= n
      range  == IF newest > oldest THEN newest - oldest ELSE 1
      t      == TurnOf(log[p]).text
  IN  7 * ImportanceOf(t) * range + 300 * (p - oldest) + (IF Has(t, "keyword") THEN 100 * range ELSE 0)

Ranked(I) ==
  Ordered(I, {pq \in I \X I : \/ Score(pq[1]) > Score(pq[2])
                            \/ (Score(pq[1]) = Score(pq[2]) /\ pq[1] > pq[2])})

Item(p) ==
  LET t == TurnOf(log[p])
  IN  [id |-> t.id, at |-> p, text |-> t.text, type |-> t.type, pinned |-> t.pinned,
       size |-> t.size, kind |-> Wording[t.text].kind, imp |-> ImportanceOf(t.text)]

\* What the count budgets let through: documents, durable turns, then others.
Counted ==
  LET streams == {p \in Deduped : log[p] \in Ids}
      durable == {p \in streams : Item(p).kind \in DurableKinds}
      ranked  == Ranked(durable) \o Prefix(Ranked(streams \ durable), BudgetStream)
      docs    == [i \in DOMAIN Documents |->
                    [id |-> Documents[i].key, pinned |-> Documents[i].pinned,
                     size |-> Documents[i].size, kind |-> "document"]]
  IN  Prefix(docs \o [i \in DOMAIN ranked |-> Item(ranked[i])], BudgetTotal)

SizeOf(items) == Reduced(LAMBDA n, i : n + i.size, 0, items)

\* Over the character budget pinned items come first; what comes when it is used up
\* is left out, and the item that does not fit is cut short, which leaves another
\* wording.
Budgeted(items) ==
  LET pinned  == {i \in DOMAIN items : items[i].pinned}
      ordered == Filtered(items, pinned) \o Filtered(items, DOMAIN items \ pinned)
      used(n) == SizeOf(SubSeq(ordered, 1, n))
      room    == {i \in DOMAIN ordered : i = 1 \/ used(i - 1) < CharBudget}
      cut(i)  == IF used(i) <= CharBudget \/ ordered[i].kind = "document" THEN ordered[i]
                 ELSE [ordered[i] EXCEPT !.text = Torn]
  IN  IF SizeOf(items) <= CharBudget THEN items
      ELSE Filtered([i \in DOMAIN ordered |-> cut(i)], room)

\* The classifying model relabels any of the turns; an unusable reply none.
Relabelled(items, labels) ==
  [i \in DOMAIN items |->
     IF i \in DOMAIN labels THEN [items[i] EXCEPT !.kind = labels[i].kind, !.imp = labels[i].imp]
     ELSE items[i]]

Classified(items) ==
  LET streams == {i \in DOMAIN items : items[i].kind # "document"}
  IN  {Relabelled(items, labels) : labels \in UNION {[I -> Labels] : I \in SUBSET streams}}

\* Decisions and constraints always, other turns when the digest does not say
\* it yet; there is nothing to compare with before the first digest.
Deltas(items, novel) ==
  Filtered(items, {i \in DOMAIN items : /\ items[i].kind \notin {"document", "noise"}
                                        /\ \/ items[i].kind \in {"decision", "constraint"}
                                           \/ items[i].id \in novel})

NovelSets(items) ==
  LET ids == {i.id : i \in {items[j] : j \in DOMAIN items}}
      sure == {items[j].id : j \in {k \in DOMAIN items :
                 items[k].kind \in {"decision", "constraint", "document", "noise"}}}
  IN  IF hasDigest THEN SUBSET (ids \ sure) ELSE {ids}
-----------------------------------------------------------------------------
(* The deterministic merge: documents first *)

\* Unset: taken; the same: confirmed; another: only a document replaces it.
SetGoal(s, g, ref, fromDocument) ==
  CASE s.goal # NoText /\ Like(s.goal, g) -> [s EXCEPT !.goalBy = @ \cup {ref}]
    [] s.goal # NoText /\ ~Like(s.goal, g) /\ ~fromDocument -> s
    [] OTHER -> [s EXCEPT !.goal = g, !.goalBy = {ref}]

\* The first goal the documents state; the evidence is the last document.
DocumentGoal(s, docs) ==
  LET stating == {i \in DOMAIN docs : docs[i].goal # NoText}
  IN  IF stating = {} THEN s
      ELSE SetGoal(s, docs[CHOOSE i \in FirstIn(stating) : TRUE].goal, docs[Len(docs)].key, TRUE)

\* Mutant: lines the document no longer has stay.
OutdatedNever(s, f, d) == {}

\* Values only this document stands behind and no longer states.
Outdated(s, f, d) == {t \in Texts : s.by[f][t] = {d.key}} \ {d.lines[f][i] : i \in DOMAIN d.lines[f]}

\* A document without lines of this kind leaves the list alone.
MergeLines(s, f, d) ==
  IF d.lines[f] = << >> THEN s
  ELSE Reduced(LAMBDA acc, t : Keep(acc, f, t, d.key), Drop(s, f, Outdated(s, f, d)), d.lines[f])

MergeList(s, f, docs) == Reduced(LAMBDA acc, d : MergeLines(acc, f, d), s, docs)

MergeDocuments(s, docs) ==
  MergeList(MergeList(MergeList(DocumentGoal(s, docs), "constraints", docs), "decisions", docs), "todos", docs)

-----------------------------------------------------------------------------
(* ... then the deltas, oldest first.  The accumulator m is the state s, the *)
(* topics of the questions and risks resolved by this run, the size of the   *)
(* registry before it, and whether the rest of the turn is skipped.          *)

HeldIn(s, f) == {s.held[f][i] : i \in DOMAIN s.held[f]}

\* The decisions that "instead of", "replace" or "switch from" name.
Conflicting(s, t) == HeldIn(s, "decisions") \cap Wording[t].replaces

DecisionStep(s, base, e) ==
  LET free(I) == {v \in I : ~Guarded(s, base, v)}
      cleared == Drop(s, "decisions", free(Conflicting(s, e.text)))
      kept    == Keep(cleared, "decisions", e.text, e.id)
      isNew   == Match(cleared.held.decisions, e.text, "like") = {}
  IN  IF Has(e.text, "revoke")
      THEN Drop(s, "decisions", free(Match(s.held.decisions, Topic(e.text), "near")))
      ELSE IF ~FactSized(e.text) THEN s
      ELSE IF isNew /\ e.imp >= 70 THEN Promote(kept, e.text, "decision", e.imp)
      ELSE kept

\* The line of a note list about what t is about, at the lowest threshold: both
\* are compared without the words that say what kind of line it is.
BestNote(s, f, t) ==
  LET topics == [i \in DOMAIN s.held[f] |-> Topic(s.held[f][i])]
      best   == Match(topics, Topic(t), "near")
  IN  {s.held[f][i] : i \in FirstIn({j \in DOMAIN topics : topics[j] \in best})}

\* removeWorkingNoteValue, removeVolatileContextValue: with its provenance.
Removed(s, f, t) == [state |-> Drop(s, f, BestNote(s, f, t)), values |-> BestNote(s, f, t)]

ResolveQuestion(m, e) ==
  LET resolved == Removed(m.s, "questions", e.text)
  IN  [m EXCEPT !.s = resolved.state, !.asked = @ \cup {Topic(q) : q \in resolved.values}]

AfterGoal(m, e) ==
  IF Wording[e.text].goal = NoText THEN m
  ELSE [m EXCEPT !.s = SetGoal(@, Wording[e.text].goal, e.id, FALSE)]

AfterDecision(m, e) ==
  IF e.kind # "decision" THEN m ELSE ResolveQuestion([m EXCEPT !.s = DecisionStep(@, m.base, e)], e)

AfterConstraint(m, e) ==
  IF e.kind # "constraint" \/ e.imp < 75 \/ ~FactSized(e.text) THEN m
  ELSE LET kept == Keep(m.s, "constraints", e.text, e.id)
       IN  [m EXCEPT !.s = IF Match(@.held.constraints, e.text, "like") = {}
                           THEN Promote(kept, e.text, "constraint", e.imp) ELSE kept]

AfterTodo(m, e) ==
  IF e.kind # "todo" THEN m
  ELSE IF Has(e.text, "close")
       THEN [m EXCEPT !.s = Drop(@, "todos", Match(@.held.todos, Topic(e.text), "near"))]
       ELSE [m EXCEPT !.s = Keep(@, "todos", e.text, e.id)]

\* A question answered by an earlier turn of this run is not asked again.
AfterQuestion(m, e) ==
  IF e.kind # "question" THEN m
  ELSE IF Topic(e.text) \in m.asked THEN [m EXCEPT !.skip = TRUE]
  ELSE [m EXCEPT !.s = Keep(@, "questions", e.text, e.id)]

AfterStatus(m, e) ==
  IF e.kind \notin {"status", "note"} \/ Wording[e.text].goal # NoText THEN m
  ELSE IF Topic(e.text) \in m.settled THEN [m EXCEPT !.skip = TRUE]
  ELSE [m EXCEPT !.s = Keep(@, "volatile", e.text, e.id)]

\* A resolution clears the risk and the volatile line about it.
AfterResolution(m, e) ==
  IF m.skip \/ e.kind \notin {"decision", "status", "note"} \/ ~Has(e.text, "resolve") THEN m
  ELSE LET resolved == Removed(m.s, "risks", e.text)
           trimmed  == IF resolved.values = {} THEN m.s
                       ELSE Removed(resolved.state, "volatile", CHOOSE r \in resolved.values : TRUE).state
       IN  [m EXCEPT !.s = trimmed, !.settled = @ \cup {Topic(r) : r \in resolved.values}]

AfterRisk(m, e) ==
  IF m.skip \/ ~Has(e.text, "risk") \/ Topic(e.text) \in m.settled THEN m
  ELSE [m EXCEPT !.s = Keep(@, "risks", e.text, e.id)]

DeltaStep(m, e) ==
  LET m1 == AfterTodo(AfterConstraint(AfterDecision(AfterGoal([m EXCEPT !.skip = FALSE], e), e), e), e)
  IN  AfterRisk(AfterResolution(AfterStatus(AfterQuestion(m1, e), e), e), e)

\* A stable sort by createdAt.
Oldest(deltas) ==
  Picked(deltas, Ordered(DOMAIN deltas,
    {ij \in (DOMAIN deltas) \X (DOMAIN deltas) :
       \/ deltas[ij[1]].at < deltas[ij[2]].at
       \/ (deltas[ij[1]].at = deltas[ij[2]].at /\ ij[1] < ij[2])}))

MergeDeltas(s, deltas) ==
  Reduced(DeltaStep, [s |-> s, asked |-> {}, settled |-> {}, base |-> Len(s.reg), skip |-> FALSE],
          Oldest(deltas)).s

-----------------------------------------------------------------------------
(* Profile facets: routed turns (stage 1), extracted facts (stage 2) *)

GuardedInFacet(s, base, f, t) == \E i \in Standing(s, t) : i <= base /\ s.reg[i].type = f

LikeAt(vals, t) == FirstIn({i \in DOMAIN vals : Like(vals[i], t)})

\* Where a full facet makes room for a routed turn: a protected one at its
\* first unguarded string, another at its oldest.
RoomAt(s, base, f) ==
  FirstIn({i \in DOMAIN s.profile[f] : Pack[f].protected => ~GuardedInFacet(s, base, f, s.profile[f][i])})

RouteTo(s, base, f, t) ==
  LET vals == s.profile[f]
      full == Len(vals) >= Pack[f].cap
      room == RoomAt(s, base, f)
      into == IF full THEN DropAt(vals, CHOOSE i \in room : TRUE) ELSE vals
      held == LikeAt(vals, t)
  IN  IF held # {}
      THEN IF Pack[f].protected /\ GuardedInFacet(s, base, f, vals[CHOOSE i \in held : TRUE]) THEN s
           ELSE [s EXCEPT !.profile[f][CHOOSE i \in held : TRUE] = t]
      ELSE IF full /\ room = {} THEN s
      ELSE LET s2 == [s EXCEPT !.profile[f] = Append(into, t)]
           IN  IF Pack[f].protected THEN Promote(s2, t, f, 70) ELSE s2

RouteTurn(s, base, e) ==
  LET to == {f \in Facets : e.type \in Pack[f].routes}
  IN  IF to = {} \/ ~FactSized(e.text) THEN s ELSE RouteTo(s, base, CHOOSE f \in to : TRUE, e.text)

\* protectedStateMerge.
Merged(s, deltas, docs) ==
  LET documented == MergeDocuments(s, docs)
  IN  Reduced(LAMBDA acc, e : RouteTurn(acc, Len(s.reg), e), MergeDeltas(documented, deltas), deltas)

\* 85 with a document behind the fact, 60 with a turn, 0 with nothing.
TrustIn(f, deltas, docs) ==
  CASE (Pack[f].fromDocs \/ deltas = << >>) /\ docs # << >> -> 85
    [] ~Pack[f].fromDocs /\ deltas # << >> -> 60
    [] OTHER -> 0

Supersede(s, old, t, f, trust) ==
  LET first == FirstIn(Standing(s, old))
  IN  IF first = {} THEN s
      ELSE [WithStatus(s, first, "superseded") EXCEPT !.reg = Append(@, Entry(t, f, trust))]

\* Mutant: a protected facet takes any restatement.
OutrankedNever(s, f, held, trust) == FALSE

\* The active profile entry like the held string (of whatever facet) has more
\* authority than the restatement.
Outranked(s, f, held, trust) ==
  LET entry == FirstIn({i \in ActiveLike(s, held) : s.reg[i].type \in Facets})
  IN  Pack[f].protected /\ \E i \in entry : (IF trust = 0 THEN 60 ELSE trust) < s.reg[i].trust

Restate(s, f, at, t, trust) ==
  LET held   == s.profile[f][at]
      entry  == FirstIn({i \in ActiveLike(s, held) : s.reg[i].type \in Facets})
      gained == \E i \in entry : trust > s.reg[i].trust
      s2     == IF trust > 0 /\ (held # t \/ gained) THEN Supersede(s, held, t, f, trust) ELSE s
  IN  IF Outranked(s, f, held, trust) THEN s ELSE [s2 EXCEPT !.profile[f][at] = t]

\* A full protected facet takes nothing new, another retires its oldest.
AddFact(s, f, t, trust) ==
  LET vals   == s.profile[f]
      full   == Len(vals) >= Pack[f].cap
      oldest == FirstIn({i \in ActiveLike(s, vals[1]) : s.reg[i].type \notin Facets \ {f}})
      made   == IF full THEN [WithStatus(s, oldest, "retired") EXCEPT !.profile[f] = Tail(@)] ELSE s
      added  == [made EXCEPT !.profile[f] = Append(@, t)]
  IN  IF full /\ Pack[f].protected THEN s
      ELSE IF trust > 0 THEN Promote(added, t, f, trust) ELSE added

ApplyFact(s, fact, deltas, docs) ==
  LET f     == fact[1]
      t     == fact[2]
      trust == IF f \in Facets THEN TrustIn(f, deltas, docs) ELSE 0
  IN  IF f \notin Facets \/ ~FactSized(t) THEN s
      ELSE IF Pack[f].fromDocs /\ trust = 0 THEN s
      ELSE IF LikeAt(s.profile[f], t) # {}
           THEN Restate(s, f, CHOOSE i \in LikeAt(s.profile[f], t) : TRUE, t, trust)
           ELSE AddFact(s, f, t, trust)

\* applyProfileFactsFromDigest: one fact after the other.
Applied(s, facts, deltas, docs) == Reduced(LAMBDA acc, x : ApplyFact(acc, x, deltas, docs), s, facts)

-----------------------------------------------------------------------------
(* Consolidation of the facets the extracted facts name *)

\* consolidateFacetLlm: strings of the model's own, each with those it is merged
\* from (an output that names none of them spoils the reply).  No string has to be
\* used, none only once, and the facet's cap is not looked at.
Replies(vals) ==
  UNION {[1..n -> [text : Rewordings, from : (SUBSET DOMAIN vals) \ {{}}]] : n \in 1..MaxOutputs}

\* The registry entry behind a string of facet f (a retired one counts).
SourceOf(s, f, t) == FirstIn({i \in Standing(s, t) : s.reg[i].type = f})

\* The entry that replaces the merged ones keeps the highest authority.
Replacement(s, f, t, sources) ==
  Entry(t, f, IF sources = {} THEN 70
              ELSE CHOOSE n \in {s.reg[i].trust : i \in sources} : \A i \in sources : s.reg[i].trust <= n)

\* Active entries of the facet are linked to their replacement or retired.
Consolidated(s, f, outputs) ==
  LET vals == s.profile[f]
      sources(k) == UNION {SourceOf(s, f, vals[i]) : i \in outputs[k].from}
      active == {i \in DOMAIN s.reg : s.reg[i].type = f /\ s.reg[i].status = "active"}
      merged == active \cap UNION {sources(k) : k \in DOMAIN outputs}
      linked == WithStatus(WithStatus(s, merged, "superseded"), active \ merged, "retired")
  IN  [linked EXCEPT
         !.profile[f] = [k \in DOMAIN outputs |-> outputs[k].text],
         !.reg = @ \o [k \in DOMAIN outputs |-> Replacement(s, f, outputs[k].text, sources(k))]]

\* consolidateOne, for every reply: without a result the facet stays.
ConsolidateOne(s, f) == {s} \cup {Consolidated(s, f, r) : r \in Replies(s.profile[f])}

\* runConsolidation: one facet after the other, each from what the one before
\* left; unknown facets and facets with few strings are skipped.
ConsolidateFacet(acc, f) ==
  IF f \notin Facets THEN acc
  ELSE UNION {IF Len(s.profile[f]) < ConsolidateMin THEN {s} ELSE ConsolidateOne(s, f) : s \in acc}

ConsolidateChanged(s, names) == Reduced(ConsolidateFacet, {s}, names)

-----------------------------------------------------------------------------
(* The model's reply and the consistency gate (stage 2) *)

\* buildProjectedSummary: what the summary says whatever the model answers.
ProjectedSummary(s) ==
  {v \in {s.goal} : v # NoText}
    \cup UNION {Range(vals) : vals \in {s.held.constraints, Suffix(s.held.decisions, 8),
                                        Prefix(s.held.questions, 1), Prefix(s.held.risks, 1)}}

\* Latest values the changes name where the reply did not, as far as recent
\* changes leave room for them.
AlignedChanges(s) ==
  UNION {Range(Suffix(s.held[f], 1)) : f \in {"decisions", "constraints", "questions", "risks"}}

AlignedSteps(s) == Range(Prefix(s.held.todos, 3))

\* A fact counts as mentioned when its first key tokens are all there.
Mentioned(said, t) == \E v \in said : Like(v, t)

\* The gate looks for a negation word anywhere in the digest's text once a
\* protected decision or todo is mentioned, also in the protected texts.
ContradictsItself(s, said) ==
  /\ \E t \in HeldIn(s, "decisions") \cup HeldIn(s, "todos") : Mentioned(said, t)
  /\ \E v \in said : Has(v, "negate")

\* alignDigestWithState: what the digest may say whatever the model answers.
Aligned(s) ==
  {ProjectedSummary(s) \cup AlignedSteps(s) \cup changes : changes \in SUBSET AlignedChanges(s)}

Forms == {"garbled", "fits", "negates", "repeats"}
FactLists == UNION {[1..n -> Extracts] : n \in 0..MaxFacts}

\* The changes repeated are taken back for the previous digest's.
Accepted(s, form, said) ==
  /\ form = "fits" \/ (form = "repeats" /\ hasDigest)
  /\ ~ContradictsItself(s, said)

-----------------------------------------------------------------------------
(* Actions *)

IdleRun == [phase |-> "idle", pipe |-> DefaultState, deltas |-> << >>, docs |-> << >>,
            facts |-> << >>, tries |-> 0]

Say(t) ==
  /\ Len(log) < MaxLog
  /\ \A p \in DOMAIN log : log[p] # t.id
  /\ log' = Append(log, t.id)
  /\ fresh' = TRUE
  /\ UNCHANGED <<page, state, hasDigest, run, runs>>

\* A document keeps its row and its createdAt when it is uploaded again.
Upload(d) ==
  /\ IF d.key \in DOMAIN page THEN page[d.key] # d ELSE Len(log) < MaxLog
  /\ log' = IF d.key \in DOMAIN page THEN log ELSE Append(log, d.key)
  /\ page' = [k \in DOMAIN page \cup {d.key} |-> IF k = d.key THEN d ELSE page[k]]
  /\ fresh' = TRUE
  /\ UNCHANGED <<state, hasDigest, run, runs>>

\* Nothing is new: the state is passed on as loaded, without a model call.
PassOn ==
  /\ run.phase = "idle" /\ hasDigest /\ ~fresh
  /\ runs < MaxRuns
  /\ state' = Pruned(Loaded(state))
  /\ runs' = runs + 1
  /\ UNCHANGED <<log, page, hasDigest, fresh, run>>

SelectAndMerge ==
  /\ run.phase = "idle" /\ (hasDigest => fresh)
  /\ runs < MaxRuns
  /\ \E items \in Classified(Budgeted(Counted)) : \E novel \in NovelSets(items) :
       LET deltas == Deltas(items, novel)
       IN  run' = [IdleRun EXCEPT !.phase = "merged", !.deltas = deltas, !.docs = Documents,
                                  !.pipe = Pruned(Merged(Loaded(state), deltas, Documents))]
  /\ runs' = runs + 1
  /\ UNCHANGED <<log, page, state, hasDigest, fresh>>

\* A reply that passes brings its own facts.
Accept ==
  /\ run.phase = "merged"
  /\ \E form \in Forms, facts \in FactLists, said \in Aligned(run.pipe) :
       /\ Accepted(run.pipe, form, said)
       /\ run' = [run EXCEPT !.phase = "told", !.tries = 0,
                             !.facts = IF form = "fits" \/ facts # << >> THEN facts ELSE @]
  /\ UNCHANGED <<log, page, state, hasDigest, fresh, runs>>

\* A reply that does not is asked for again; facts extracted on the way stay.
\* The last one is given up for the previous digest or for the state's own
\* projection; without either the run throws.
Reject ==
  /\ run.phase = "merged"
  /\ \E form \in Forms, facts \in FactLists, said \in Aligned(run.pipe) :
       LET told == [run EXCEPT !.tries = @ + 1,
                               !.facts = IF form # "garbled" /\ facts # << >> THEN facts ELSE @]
       IN  /\ ~Accepted(run.pipe, form, said)
           /\ run' = IF run.tries < MaxRetries THEN told
                     ELSE IF hasDigest \/ ProjectedSummary(run.pipe) # {} THEN [told EXCEPT !.phase = "told", !.tries = 0]
                     ELSE IdleRun
  /\ UNCHANGED <<log, page, state, hasDigest, fresh, runs>>

\* Facts, consolidation of the facets they touch, the scope's own goal, the
\* last prune, and the write, which stamps the digest now: whatever arrived
\* during the run is older than it.
Conclude ==
  /\ run.phase = "told"
  /\ LET applied == Pruned(Applied(run.pipe, run.facts, run.deltas, run.docs))
         named == Unique([i \in DOMAIN run.facts |-> run.facts[i][1]])
     IN  \E s \in ConsolidateChanged(applied, named) :
           state' = Pruned([s EXCEPT !.goal = IF @ = NoText THEN ScopeGoal ELSE @])
  /\ hasDigest' = TRUE
  /\ fresh' = FALSE
  /\ run' = IdleRun
  /\ UNCHANGED <<log, page, runs>>

Init ==
  /\ log = << >>
  /\ page = << >>
  /\ state = DefaultState
  /\ hasDigest = FALSE
  /\ fresh = FALSE
  /\ run = IdleRun
  /\ runs = 0

Ingest == (\E t \in Turns : Say(t)) \/ (\E d \in Pages : Upload(d))

Next == Ingest \/ PassOn \/ SelectAndMerge \/ Accept \/ Reject \/ Conclude

Spec == Init /\ [][Next]_vars

-----------------------------------------------------------------------------
(* Properties *)

IsState(s) ==
  /\ s.goal \in Texts \cup {NoText}
  /\ s.goalBy \subseteq Ids \cup Keys
  /\ DOMAIN s.held = Lists /\ DOMAIN s.by = Lists
  /\ \A f \in Lists : /\ \A i \in DOMAIN s.held[f] : s.held[f][i] \in Texts
                      /\ \A t \in Texts : s.by[f][t] \subseteq Ids \cup Keys
                      /\ \A t \in Texts : s.by[f][t] # {} => t \in Range(s.traced[f])
                      /\ Len(s.traced[f]) <= ProvenanceCap
  /\ \A f \in {"questions", "risks", "volatile"} : Len(s.held[f]) <= NoteCap
  /\ DOMAIN s.profile = Facets

\* Type invariant: the published state and the run's own keep their shape, the
\* note lists and the provenance of every list stay within their caps.
TypeOK ==
  /\ IsState(state) /\ IsState(run.pipe)
  /\ run.phase \in {"idle", "merged", "told"} /\ run.tries \in 0..MaxRetries
  /\ hasDigest \in BOOLEAN /\ fresh \in BOOLEAN /\ runs \in 0..MaxRuns

\* No drift: a decision the registry stands behind as the run begins leaves the
\* state only with a document that alone stood behind it and no longer says it,
\* however stream events revoke, replace or restate it, and whatever the model
\* answers.  (A retired entry stands behind it too, until enough inactive ones
\* come after it: the history a loaded state keeps is bounded.)
ProtectedStays ==
  [][\A v \in HeldIn(state, "decisions") :
       Standing(Loaded(state), v) # {} /\ v \notin HeldIn(state', "decisions") =>
         \/ \E i \in DOMAIN run.docs : v \in Outdated(state, "decisions", run.docs[i])
         \/ Len(state.held.decisions) > FactCap]_vars

\* A corrected document takes its old lines with it, as far as they are on
\* record: a published value whose provenance names this document alone is one it
\* still states, or one like it, over any number of uploads, runs and turns in
\* between.  (Only the last ProvenanceCap values of a list have a provenance; the
\* older ones outlive the document's correction.)
CorrectionsTake ==
  [][\A i \in DOMAIN run.docs, f \in {"constraints", "decisions", "todos"} :
       LET d == run.docs[i]
       IN  run'.phase = "idle" /\ run.phase = "told" /\ d.lines[f] # << >> =>
             \A v \in HeldIn(state', f) :
               state'.by[f][v] = {d.key} => \E j \in DOMAIN d.lines[f] : Like(v, d.lines[f][j])]_vars

\* Entry i is the one found for its own text: the first active one of a facet
\* that is like it.
Foremost(s, i) == FirstIn({j \in ActiveLike(s, s.reg[i].text) : s.reg[j].type \in Facets}) = {i}

\* One fact, or facts for protected facets of the conversation only.
Mild(facts) ==
  \/ Len(facts) <= 1
  \/ \A k \in DOMAIN facts : facts[k][1] \in Facets => Pack[facts[k][1]].protected /\ ~Pack[facts[k][1]].fromDocs

\* A fact a document brought into a protected facet outlives what the
\* conversation says next: no run that read new turns replaces its string by a
\* restatement or a newcomer, whether routed or extracted; only consolidation
\* takes it out, and what it is merged into has the document's authority, unless
\* that wording has been forgotten.  (An
\* entry behind another one that is like it is out of sight: the code asks the
\* first for its authority, whatever facet that is of.  Nor does the facet of a
\* restatement limit which entry it supersedes: of several facts one for an
\* unprotected facet may clear the way for the next.)
DocumentFactStands ==
  [][LET s == Loaded(state)
     IN  \A f \in Facets, i \in DOMAIN s.reg :
           LET e == s.reg[i]
           IN  /\ Pack[f].protected /\ ~Pack[f].fromDocs
               /\ e.type = f /\ e.trust = 85 /\ Foremost(s, i)
               /\ e.text \in Range(s.profile[f])
               /\ run.deltas # << >> /\ Mild(run.facts)
               => \/ e.text \in Range(state'.profile[f])
                  \/ state'.reg[i].status = "retired"
                  \/ \E n \in DOMAIN state'.reg \ DOMAIN s.reg :
                       LET m == state'.reg[n]
                       IN  /\ m.type = f /\ m.trust >= 85
                           /\ m.text \in Range(state'.profile[f]) \cup Forgotten]_vars
=============================================================================
