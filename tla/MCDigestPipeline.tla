--------------------------- MODULE MCDigestPipeline ---------------------------
EXTENDS DigestPipeline

VARIABLE instance  \* which of the two instances this behaviour is of

W(kind, topic, words, goal, replaces) ==
  [kind |-> kind, topic |-> topic, words |-> words, goal |-> goal, replaces |-> replaces]

WordingDef ==
  [adopt  |-> W("decision", "adopt", {"keyword"}, "ship", {}),
   undo   |-> W("decision", "adopt", {"keyword", "revoke", "negate"}, NoText, {}),
   switch |-> W("decision", "switch", {"keyword", "negate", "resolve"}, NoText, {"adopt"}),
   limit  |-> W("constraint", "limit", {"keyword"}, NoText, {}),
   ask    |-> W("question", "switch", {}, NoText, {}),
   blocked |-> W("status", "switch", {"risk"}, NoText, {}),
   ship   |-> W("note", "ship", {}, NoText, {}),
   grow   |-> W("note", "grow", {}, NoText, {}),
   torn   |-> W("note", "torn", {"long"}, NoText, {}),
   learn  |-> W("note", "learn", {}, NoText, {}),
   study  |-> W("note", "study", {}, NoText, {}),
   drill  |-> W("note", "drill", {}, NoText, {})]

SimilarDef == {{"learn", "study"}}
LooseDef == {{"undo", "adopt"}}

T(id, text, type) == [id |-> id, text |-> text, type |-> type, pinned |-> FALSE, size |-> 1]

ListTurns ==
  {T("t1", "adopt", "none"), T("t2", "undo", "none"), T("t3", "switch", "none"), T("t4", "ask", "none"),
   T("t5", "learn", "wish"), T("t6", "blocked", "none")}

P(key, goal, decisions, constraints) ==
  [key |-> key, goal |-> goal, pinned |-> FALSE, size |-> 1,
   lines |-> [decisions |-> decisions, constraints |-> constraints, todos |-> << >>]]

ListPages == {P("plan", "grow", <<"adopt">>, <<"limit">>), P("plan", "ship", <<"limit">>, << >>)}

FactTurns == {T("t1", "adopt", "none"), T("t5", "learn", "wish"), T("t7", "drill", "wish")}
FactPages == {P("plan", "grow", <<"adopt">>, <<"limit">>)}

TurnsDef == ListTurns \cup FactTurns
PagesDef == ListPages \cup FactPages

PackDef == [goals |-> [cap |-> 2, protected |-> TRUE, fromDocs |-> FALSE, routes |-> {"wish"}]]

LabelsDef == {[kind |-> "decision", imp |-> 60]}

ExtractsDef == {<<"goals", "study">>, <<"goals", "learn">>}

\* Turns for the lists and two versions of a document, without facts; and turns that are
\* routed beside facts that are extracted, which takes fewer runs.
Instances ==
  [lists |-> [turns |-> ListTurns, pages |-> ListPages, facts |-> 0, runs |-> 3],
   facts |-> [turns |-> FactTurns, pages |-> FactPages, facts |-> 1, runs |-> 2]]

Fits(i) ==
  /\ Range(log) \subseteq {t.id : t \in i.turns} \cup Keys
  /\ Range(page) \subseteq i.pages
  /\ Len(run.facts) <= i.facts /\ runs <= i.runs

MCInit == Init /\ instance \in DOMAIN Instances
MCNext == Next /\ UNCHANGED instance /\ Fits(Instances[instance])'
MCSpec == MCInit /\ [][MCNext]_<<vars, instance>>
=============================================================================
