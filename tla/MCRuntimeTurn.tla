---------------------------- MODULE MCRuntimeTurn ----------------------------
EXTENDS RuntimeTurn

CONSTANTS r1, r2, w1, w2

VARIABLE instance  \* which of the two instances this behaviour is of

Symmetric == Permutations(Sessions) \cup Permutations(Workers)

Q(message, squeezed, kind, plan, says, turn) ==
  [message |-> message, squeezed |-> squeezed, kind |-> kind, plan |-> plan, says |-> says, long |-> FALSE,
   profile |-> "default", tier |-> "auto", promote |-> FALSE, eager |-> FALSE, limit |-> 0,
   digestMode |-> "auto", turn |-> turn, key |-> NoKey]

\* A layer-status request; turns: a goal and a question, a document, and an
\* acknowledgement, which leaves nothing.  The last two force a digest.
RecallRequests ==
  {Q("status", "status", "plain", "status", <<{}>>, FALSE),
   Q("goal", "goal", "structured", "none", <<{"goal", "questions", "wish"}>>, TRUE),
   [Q("document", "document", "document", "none", <<{"constraints"}>>, TRUE) EXCEPT !.digestMode = "force"],
   [Q("ok", "ok", "thanks", "none", <<{}>>, TRUE) EXCEPT !.digestMode = "force"]}

\* Turns only: two documents under one key.
KeyedRequests ==
  {[Q("document", "document", "document", "none", <<{"constraints"}>>, TRUE)
      EXCEPT !.digestMode = "skip", !.key = "plan"],
   [Q("revised", "revised", "document", "none", <<{"goal"}>>, TRUE)
      EXCEPT !.digestMode = "skip", !.key = "plan"]}

\* A line of earlier times, and a document that is uploaded under the same key.
UploadsDef ==
  {[type |-> "stream", key |-> NoKey, role |-> "user", says |-> {"goal"}, text |-> <<"history", 1>>],
   [type |-> "document", key |-> "plan", role |-> "user", says |-> {"goal"}, text |-> <<"upload", 1>>]}

\* The model finds a goal and a constraint of its own.
PatchesDef ==
  {[goal |-> <<"guess", 1>>, frame |-> NoText,
    items |-> [NoItems EXCEPT !["constraints"] = << <<"guess", 1>> >>]]}
RequestsDef == RecallRequests \cup KeyedRequests

\* Recalls of two requests at a time beside one turn; and two turns beside an upload.
Instances ==
  [recall |-> [requests |-> RecallRequests, turns |-> 1, uploads |-> 0, updates |-> 1, digests |-> 1],
   keyed  |-> [requests |-> KeyedRequests, turns |-> 2, uploads |-> 1, updates |-> 2, digests |-> 0]]

Fits(i) ==
  /\ \A r \in Sessions : session[r].q \in i.requests \cup {NoRequest}
  /\ turns <= i.turns /\ uploads <= i.uploads /\ digest <= i.digests
  /\ Cardinality({w \in Workers : update[w].phase # "idle"}) <= i.updates

MCInit == Init /\ instance \in DOMAIN Instances
MCNext == Next /\ UNCHANGED instance /\ Fits(Instances[instance])'
MCSpec == MCInit /\ [][MCNext]_<<vars, instance>>
=============================================================================
