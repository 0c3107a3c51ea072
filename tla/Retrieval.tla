-------------------------------- MODULE Retrieval --------------------------------
(***************************************************************************)
(* POST /memory/retrieve of the API: candidates from three streams (recency, *)
(* the lexical index, vectors), ranked, reranked, and packed with the digest *)
(* and its facts into the caller's budget.  Each query of a request is a     *)
(* step; between them events are stored, indexed, embedded, classified,      *)
(* suppressed and purged.  POST /memory/answer retrieves the same way.       *)
(* The recall of the embedded backend is this with Vectors and Rerank off.   *)
(*                                                                         *)
(* Scores are percentages.  The session handoff rides outside the budget:    *)
(* see Handoff.                                                              *)
(***************************************************************************)
EXTENDS Integers, Sequences, FiniteSets, FiniteSetsExt, SequencesExt, TLC, JsLists

CONSTANTS
  Events,        \* the createdAt an event may have, which also names it
  Documents,     \* those of them that are stored under a key, and uploaded again
  Pasts,         \* what may be stored, indexed and embedded when it begins: event -> upload
  Evidence,      \* those a fact rests on that may be forgotten
  Contents,      \* see IsContent
  Uploads,       \* what may be uploaded: a content, and whether it is pinned
  NoContent,
  Expiring,      \* contents whose classified type expires
  Queries,       \* see IsQuery
  NoQuery,
  Inside,        \* pairs of words, the first a part of the second
  StopWords,
  IndexCap,      \* tokens of an event in the index (512)
  QueryCap,      \* tokens of a query that are looked up (24)
  PoolMin, PoolMax,  \* candidates of a stream (40, 200)
  RerankLimit,   \* candidates that are reranked (24)
  Vectors, Rerank,   \* RETRIEVE_USE_VECTOR_SEARCH, RETRIEVE_USE_EMBEDDINGS
  Weight,        \* of a word, from the events there are and those that have it
  Near,          \* similarity of a query and a content
  Digests,       \* what each digest run in turn leaves, see IsDigest
  Attempts,      \* tries of a job (3)
  MaxJobs,       \* bound: jobs in the queues at a time
  MaxWrites      \* bound: events stored and documents uploaded again

\* Words in their order, each once.
AreWords(s) == s \in Seq(STRING) /\ \A i, j \in DOMAIN s : s[i] = s[j] => i = j

\* The words of a text, by script, and its length.
IsContent(c) == AreWords(c.ascii) /\ AreWords(c.cjk) /\ c.size \in Nat

\* Its aliases are the words of the concepts it names; maxChars 0 is no budget;
\* answer: a question to the model, with limit 25, instead of a search.
IsQuery(q) ==
  /\ AreWords(q.ascii) /\ AreWords(q.cjk)
  /\ q.aliases \subseteq STRING /\ IsFiniteSet(q.aliases) /\ q.blank \in BOOLEAN
  /\ q.limit \in Nat \ {0} /\ q.maxChars \in Nat /\ q.answer \in BOOLEAN

IsFact(f) ==
  /\ IsContent(f) /\ f.confidence \in 0..100 /\ f.addedAt \in Nat
  /\ f.protected \in BOOLEAN /\ f.documented \in BOOLEAN

IsDigest(d) ==
  d.size \in Nat /\ d.facts \in Seq(ToSet(d.facts)) /\ \A i \in DOMAIN d.facts : IsFact(d.facts[i])

ASSUME ConstantsAssumption ==
  /\ Events \subseteq Nat /\ IsFiniteSet(Events)
  /\ {Documents, Evidence} \subseteq SUBSET Events
  /\ \A past \in Pasts : DOMAIN past \subseteq Events /\ \A e \in DOMAIN past : past[e] \in Uploads
  /\ Uploads \subseteq [content : Contents, pinned : BOOLEAN]
  /\ NoContent \notin Contents /\ NoQuery \notin Queries
  /\ \A c \in Contents : IsContent(c)
  /\ \A q \in Queries : IsQuery(q)
  /\ Digests \in Seq(ToSet(Digests)) /\ \A i \in DOMAIN Digests : IsDigest(Digests[i])
  /\ Weight \in [(1..Cardinality(Events)) \X (0..Cardinality(Events)) -> Nat]
  /\ Near \in [Queries \X Contents -> 0..100]
  /\ {IndexCap, QueryCap, PoolMin, PoolMax, Attempts} \subseteq Nat \ {0}
  /\ {RerankLimit, MaxJobs, MaxWrites} \subseteq Nat

VARIABLES
  event,      \* of each event: what it says, its index entries, its vector
  writing,    \* requests between an event's commit and its index entries, and the
              \* script between reading an event and indexing it (no = 0)
  dropping,   \* forgets between the suppression and the index entries
  jobs,       \* embed and classify jobs
  digest,     \* digest runs so far
  request,    \* the retrieval in progress
  writes      \* events stored and documents uploaded again

vars == <<event, writing, dropping, jobs, digest, request, writes>>
memory == <<event, writing, dropping, jobs, digest, writes>>

-----------------------------------------------------------------------------
\* The sum of the weights of words.
Total(words, weight) == Cardinality(UNION {{w} \X (1..weight[w]) : w \in words})

-----------------------------------------------------------------------------
(* The tokenizer *)

Words(t) == ToSet(t.ascii) \cup ToSet(t.cjk)

AtMost(n, m) == IF m > n THEN n ELSE m
AtLeast(n, m) == IF m < n THEN n ELSE m

\* Mutant: over the cap, what comes first is kept.
IndexedSlice(t, cap) ==
  LET all == SelectSeq(t.ascii \o t.cjk, LAMBDA w : w \notin StopWords)
  IN  ToSet(SubSeq(all, 1, AtMost(cap, Len(all))))

\* What is left of words without the stop words.
Telling(words) ==
  LET order == Ordered({i \in DOMAIN words : words[i] \notin StopWords}, Earlier)
  IN  [k \in DOMAIN order |-> words[order[k]]]

\* tokenizeForIndex: over the cap, the two scripts are taken in turn.
Indexed(t, cap) ==
  LET a == Telling(t.ascii)
      c == Telling(t.cjk)
  IN  {a[i] : i \in {i \in DOMAIN a : i - 1 + AtMost(Len(c), i - 1) < cap}} \cup
      {c[i] : i \in {i \in DOMAIN c : i - 1 + AtMost(Len(a), i) < cap}}

Ids(rows) == {rows[i].id : i \in DOMAIN rows}

\* buildGroundingEvidence: the digest and the events the model was given, and the
\* digest whose state was read; 0 is none.
Grounds(read, rows, now) ==
  [digestIds |-> {read} \ {0}, eventIds |-> Ids(rows), stateRefs |-> {now} \ {0}]

-----------------------------------------------------------------------------
IdleRequest ==
  [phase |-> "idle", q |-> NoQuery, hidden |-> {}, digest |-> 0,
   pool |-> << >>, stats |-> [events |-> 0, df |-> << >>], lexical |-> {}, near |-> {},
   degraded |-> {}, ranked |-> << >>, rows |-> << >>, packed |-> << >>,
   evidence |-> Grounds(0, << >>, 0)]

-----------------------------------------------------------------------------
(* Events and their index *)

Absent == [content |-> NoContent, pinned |-> FALSE, suppressed |-> FALSE,
           tokens |-> {}, vector |-> NoContent, expires |-> FALSE, purged |-> FALSE]

Stored(e) == event[e].content # NoContent
Visible(e) == Stored(e) /\ ~event[e].suppressed

Job(name, e, no) == [name |-> name, of |-> e, no |-> no, text |-> NoContent, tries |-> 0]

\* The jobs are queued best-effort: the queue takes each or does not.
Queued(e) == SUBSET {Job("embed", e, writes + 1), Job("classify", e, writes + 1)}

\* POST /memory/events.  A document's next upload leaves all but its content and
\* its pin as they are, its suppression too.
Store(e, u) ==
  /\ writes < MaxWrites
  /\ ~event[e].purged
  /\ Stored(e) => e \in Documents
  /\ event' = [event EXCEPT ![e].content = u.content, ![e].pinned = u.pinned]
  /\ writing' = writing \cup {[of |-> e, text |-> u.content, no |-> writes + 1]}
  /\ \E js \in Queued(e) : jobs' = jobs \cup js /\ Cardinality(jobs') <= MaxJobs
  /\ writes' = writes + 1
  /\ UNCHANGED <<dropping, digest, request>>

\* backfill:tokens, a script: the events in no index are read, then indexed.
BackfillTokens(e) ==
  /\ Visible(e) /\ event[e].tokens = {}
  /\ Cardinality(jobs) + Cardinality(writing) < MaxJobs
  /\ writing' = writing \cup {[of |-> e, text |-> event[e].content, no |-> 0]}
  /\ UNCHANGED <<event, dropping, jobs, digest, request, writes>>

\* The index entries of an event are replaced, in a transaction of their own;
\* those of the script are added to what is there by then.
Index(w) ==
  /\ Stored(w.of)
  /\ event' = [event EXCEPT ![w.of].tokens = Indexed(w.text, IndexCap) \cup (IF w.no = 0 THEN @ ELSE {})]
  /\ writing' = writing \ {w}
  /\ UNCHANGED <<dropping, jobs, digest, request, writes>>

\* An error, or an event that is gone: the event is stored, the index misses it.
IndexFails(w) ==
  /\ writing' = writing \ {w}
  /\ UNCHANGED <<event, dropping, jobs, digest, request, writes>>

\* Forgetting a fact suppresses the event it rests on, then takes it from the index.
Suppress(e) ==
  /\ Visible(e) /\ digest > 0
  /\ event' = [event EXCEPT ![e].suppressed = TRUE]
  /\ dropping' = dropping \cup {e}
  /\ UNCHANGED <<writing, jobs, digest, request, writes>>

DropTokens(e) ==
  /\ event' = [event EXCEPT ![e].tokens = {}]
  /\ dropping' = dropping \ {e}
  /\ UNCHANGED <<writing, jobs, digest, request, writes>>

\* The API process dies: what came after a commit is not done, and whoever
\* asked has no answer.
ApiStops ==
  /\ writing' = {w \in writing : w.no = 0} /\ dropping' = {}
  /\ request' = IdleRequest
  /\ UNCHANGED <<event, jobs, digest, writes>>

\* POST /memory/embed/backfill: the events that have no vector.
EmbedBackfill(e) ==
  /\ Stored(e) /\ event[e].vector = NoContent
  /\ Cardinality(jobs) < MaxJobs
  /\ jobs' = jobs \cup {Job("embed", e, 0)}
  /\ UNCHANGED <<event, writing, dropping, digest, request, writes>>

Without(j) == jobs \ {j}

\* embed_event and classify_event read the event; one that is gone ends the job.
JobReads(j) ==
  /\ j.text = NoContent
  /\ jobs' = IF Stored(j.of) THEN Without(j) \cup {[j EXCEPT !.text = event[j.of].content]} ELSE Without(j)
  /\ UNCHANGED <<event, writing, dropping, digest, request, writes>>

\* The vector of the text that was read, over whatever is there.
EmbedWrites(j) ==
  /\ j.name = "embed" /\ j.text # NoContent /\ Stored(j.of)
  /\ event' = [event EXCEPT ![j.of].vector = j.text]
  /\ jobs' = Without(j)
  /\ UNCHANGED <<writing, dropping, digest, request, writes>>

\* expiresAt is set for a type that expires, and never cleared for one that does not.
ClassifyWrites(j) ==
  /\ j.name = "classify" /\ j.text # NoContent /\ Stored(j.of)
  /\ event' = [event EXCEPT ![j.of].expires = @ \/ j.text \in Expiring]
  /\ jobs' = Without(j)
  /\ UNCHANGED <<writing, dropping, digest, request, writes>>

\* A job that failed is tried again while it has attempts left; when it is the
\* classifying model that failed, it ends.
JobFails(j) ==
  /\ j.text # NoContent
  /\ \/ /\ j.tries + 1 < Attempts
        /\ jobs' = Without(j) \cup {[j EXCEPT !.text = NoContent, !.tries = @ + 1]}
     \/ /\ j.name = "classify" \/ j.tries + 1 = Attempts
        /\ jobs' = Without(j)
  /\ UNCHANGED <<event, writing, dropping, digest, request, writes>>

\* expire_events: the row goes, its index entries and its vector with it.
Expire(e) ==
  /\ Stored(e) /\ event[e].expires
  /\ event' = [event EXCEPT ![e] = [Absent EXCEPT !.purged = TRUE]]
  /\ UNCHANGED <<writing, dropping, jobs, digest, request, writes>>

DigestRun ==
  /\ digest < Len(Digests)
  /\ digest' = digest + 1
  /\ UNCHANGED <<event, writing, dropping, jobs, request, writes>>

-----------------------------------------------------------------------------
(* Ranking *)

QueryWords(q) == Words(q) \cup q.aliases

\* A word of the query is somewhere in the text, if only within another word.
Phrased(q, text) == \E w \in QueryWords(q), t \in Words(text) : w = t \/ <<w, t>> \in Inside

\* explainQueryScore: the weight of the words in common, and a boost for a phrase.
ScoreOf(q, text, weight) ==
  LET common == Words(text) \cap QueryWords(q)
      share  == (100 * Total(common, weight)) \div AtLeast(1, Total(QueryWords(q), weight))
  IN  AtMost(100, share + (IF Phrased(q, text) THEN 15 ELSE 0))

NoStats == [events |-> 0, df |-> <<>>]

\* tokenStats: the events that are visible, and the index entries of each word.
Stats(q) ==
  [events |-> Cardinality({e \in Events : Visible(e)}),
   df     |-> [w \in QueryWords(q) |-> Cardinality({e \in Events : w \in event[e].tokens})]]

\* idfWeights: by the rarity of a word, or uniform when there are no statistics.
Score(q, text, stats) ==
  IF stats.events = 0 THEN ScoreOf(q, text, [w \in QueryWords(q) |-> 1])
  ELSE ScoreOf(q, text, [w \in QueryWords(q) |-> Weight[<<stats.events, stats.df[w]>>]])

Boost(row) == IF row.pinned THEN 2500 ELSE 0

\* Mutant: the oldest candidate is taken to be the last of the pool.
OldestLast(pool) == pool[Len(pool)].id

Oldest(pool) == Min({pool[i].id : i \in DOMAIN pool})

Newest(pool) == Max({pool[i].id : i \in DOMAIN pool})

Recency(pool, row) ==
  (100 * (row.id - Oldest(pool))) \div AtLeast(1, Newest(pool) - Oldest(pool))

\* Best first, the newer of two that are equal.
Better(rows, value) ==
  {p \in (DOMAIN rows) \X (DOMAIN rows) :
     LET a == rows[p[1]]
         b == rows[p[2]]
     IN  value[a] > value[b] \/ (value[a] = value[b] /\ a.id > b.id)}

Sorted(rows, value) ==
  LET order == Ordered(DOMAIN rows, Better(rows, value))
  IN  [k \in DOMAIN order |-> rows[order[k]]]

Ranked(q, pool, stats) ==
  Sorted(pool, [r \in ToSet(pool) |-> 80 * Score(q, r.content, stats) + 20 * Recency(pool, r) + Boost(r)])

\* rerankWithEmbeddings: the first RerankLimit among themselves.
Reranked(q, ranked, pool, stats) ==
  LET k == AtMost(RerankLimit, Len(ranked))
      value == [r \in ToSet(pool) |->
                  55 * Near[<<q, r.content>>] + 25 * Score(q, r.content, stats) + 20 * Recency(pool, r) + Boost(r)]
  IN  Sorted(SubSeq(ranked, 1, k), value) \o SubSeq(ranked, k + 1, Len(ranked))

-----------------------------------------------------------------------------
(* The budget *)

\* Mutant: the fill stops at the first item that does not fit.
FilledStops(items, allowance) ==
  LET used[i \in 0..Len(items)] == IF i = 0 THEN 0 ELSE used[i - 1] + items[i].size
  IN  {i \in DOMAIN items : used[i] <= allowance}

\* The next item is kept if it fits in what is left.
Filling(kept, items, i) ==
  IF items[i].size > kept.left THEN kept
  ELSE [of |-> kept.of \cup {i}, left |-> kept.left - items[i].size]

\* Whole items in their order; one that does not fit is skipped and the fill goes on.
Filled(items, allowance) ==
  LET kept[i \in 0..Len(items)] ==
        IF i = 0 THEN [of |-> {}, left |-> allowance] ELSE Filling(kept[i - 1], items, i)
  IN  kept[Len(items)].of

Size(items, kept) == Total(kept, [i \in DOMAIN items |-> items[i].size])

\* facetAuthority: what write protection and the authority of documents are worth.
Authority(f) ==
  AtMost(150, 100 + (IF f.protected THEN 25 ELSE 0) + (IF f.documented THEN 15 ELSE 0))

\* rankFacts: with a query, relevance leads; then confidence, then the newest; the
\* sort is stable.
FactsBefore(q, facts, stats) ==
  LET score(f)      == IF q.blank THEN 0 ELSE Score(q, f, stats) * Authority(f)
      confidence(f) == f.confidence * Authority(f)
      before(i, j)  == \/ facts[i].addedAt > facts[j].addedAt
                       \/ facts[i].addedAt = facts[j].addedAt /\ i < j
      surer(i, j)   == \/ confidence(facts[i]) > confidence(facts[j])
                       \/ confidence(facts[i]) = confidence(facts[j]) /\ before(i, j)
  IN  {p \in (DOMAIN facts) \X (DOMAIN facts) :
         LET own   == score(facts[p[1]])
             other == score(facts[p[2]])
         IN  own > other \/ (own = other /\ surer(p[1], p[2]))}

FactsRanked(q, facts, stats) ==
  LET order == Ordered(DOMAIN facts, FactsBefore(q, facts, stats))
  IN  [k \in DOMAIN order |-> facts[order[k]]]

FactShare(max) == (40 * max) \div 100

\* packWithinBudget: the digest whole, facts up to their share of the whole
\* budget, then the events.
Packed(q, size, facts, rows) ==
  LET whole  == size <= q.maxChars
      rest   == q.maxChars - (IF whole THEN size ELSE 0)
      ranked == FactsRanked(q, facts.list, facts.stats)
      of     == Filled(ranked, AtMost(FactShare(q.maxChars), rest))
      items  == [i \in DOMAIN rows |-> [size |-> rows[i].content.size]]
  IN  [digest |-> IF whole THEN size ELSE 0,
       facts  |-> ranked, keptFacts |-> of,
       items  |-> items,  keptItems |-> Filled(items, rest - Size(ranked, of))]

-----------------------------------------------------------------------------
(* A retrieval, query by query *)

\* Mutant: an event that was forgotten is read by its id.
RowsAny(ids) ==
  LET order == SetToSortSeq({e \in ids : Stored(e)}, LAMBDA d, e : d > e)
  IN  [i \in DOMAIN order |-> [id |-> order[i], content |-> event[order[i]].content, pinned |-> event[order[i]].pinned]]

\* findByIds and listRecent: what is visible, newest first.
Rows(ids) ==
  LET order == Ordered({e \in ids : Visible(e)}, Later)
  IN  [i \in DOMAIN order |-> [id |-> order[i], content |-> event[order[i]].content, pinned |-> event[order[i]].pinned]]

First(n, rows) == SubSeq(rows, 1, AtMost(n, Len(rows)))

\* candidateSize.
PoolSize(q) == AtMost(PoolMax, AtLeast(PoolMin, 4 * q.limit))

\* The ids a search may return: n of the best, ties as the database likes.
Best(ids, n, value) ==
  {S \in SUBSET ids :
     /\ Cardinality(S) = AtMost(n, Cardinality(ids))
     /\ \A d \in S, e \in ids \ S : value[d] >= value[e]}

In(phase) == request.phase = phase

\* The scope is found and the latest digest is read.
Begin(q) ==
  /\ In("idle")
  /\ request' = [IdleRequest EXCEPT !.phase = "recent", !.q = q, !.digest = digest,
                                    !.hidden = {e \in Events : event[e].suppressed}]
  /\ UNCHANGED memory

\* Without a query the newest events are the answer.
ListRecent ==
  LET q    == request.q
      rows == First(PoolSize(q), Rows(Events))
  IN  /\ In("recent")
      /\ request' = IF q.blank THEN [request EXCEPT !.phase = "pack", !.rows = First(q.limit, rows)]
                    ELSE [request EXCEPT !.phase = "stats", !.pool = rows]
      /\ UNCHANGED memory

ReadStats ==
  /\ In("stats")
  /\ \E stats \in {Stats(request.q), NoStats} :
       request' = [request EXCEPT !.phase = "lexical", !.stats = stats]
  /\ UNCHANGED memory

Found(q, e) == event[e].tokens \cap Indexed(q, QueryCap)

\* searchByTokens: by the number of the query's tokens an event has in the index.
SearchTokens ==
  LET q == request.q
      matching == {e \in Events : Found(q, e) # {}}
  IN  /\ In("lexical")
      /\ \E ids \in Best(matching, PoolSize(q), [e \in matching |-> Cardinality(Found(q, e))]) :
           request' = [request EXCEPT !.phase = "lexical rows", !.lexical = ids]
      /\ UNCHANGED memory

\* Mutant: the pool is built anew from what the last search found.
WidenedAnew(pool, ids) == Rows(ids)

\* What the pool lacks is read and appended.
Widened(pool, ids) == pool \o Rows(ids \ Ids(pool))

FetchLexical ==
  /\ In("lexical rows")
  /\ request' = [request EXCEPT !.phase = "vector", !.pool = Widened(@, request.lexical)]
  /\ UNCHANGED memory

\* The query is embedded, and the vectors near it are searched: those of suppressed
\* events too.
SearchVectors ==
  LET q == request.q
      known == {e \in Events : event[e].vector # NoContent}
  IN  /\ In("vector") /\ Vectors
      /\ \E ids \in Best(known, PoolSize(q), [e \in known |-> Near[<<q, event[e].vector>>]]) :
           request' = [request EXCEPT !.phase = "vector rows", !.near = ids]
      /\ UNCHANGED memory

FetchVectors ==
  /\ In("vector rows")
  /\ request' = [request EXCEPT !.phase = "rank", !.pool = Widened(@, request.near)]
  /\ UNCHANGED memory

New(ids) == ids \ Ids(request.pool)

\* A stage that fails is told of, and what there is without it goes on.
LexicalFails ==
  /\ \/ In("lexical") /\ Indexed(request.q, QueryCap) # {}
     \/ In("lexical rows") /\ New(request.lexical) # {}
  /\ request' = [request EXCEPT !.phase = "vector", !.degraded = @ \cup {"lexical_search"}]
  /\ UNCHANGED memory

\* The model, the search, the rows, or a model that gives no vector.
VectorFails ==
  /\ \/ In("vector") /\ Vectors
     \/ In("vector rows") /\ New(request.near) # {}
  /\ request' = [request EXCEPT !.phase = "rank", !.degraded = @ \cup {"vector_search"}]
  /\ UNCHANGED memory

\* The order that is answered from, and what of it failed.
Orders(q, ranked) ==
  IF Rerank /\ ranked # << >>
  THEN {[rows |-> Reranked(q, ranked, request.pool, request.stats), failed |-> {}],
        [rows |-> ranked, failed |-> {"rerank"}]}
  ELSE {[rows |-> ranked, failed |-> {}]}

\* The first limit of the order, reranked if that is on and the model answers.
Rank ==
  LET q      == request.q
      ranked == Ranked(q, request.pool, request.stats)
  IN  /\ In("rank") \/ (In("vector") /\ ~Vectors)
      /\ \E o \in Orders(q, ranked) :
           request' = [request EXCEPT !.phase = "pack", !.ranked = ranked, !.rows = First(q.limit, o.rows),
                                      !.degraded = @ \cup o.failed]
      /\ UNCHANGED memory

FactsOf(n) == IF n = 0 THEN << >> ELSE Digests[n].facts

SizeOf(n) == IF n = 0 THEN 0 ELSE Digests[n].size

\* The snapshot was read at some time since the digest was.
Snapshots == request.digest .. digest

\* What is left of a request that was answered.
Answered ==
  [IdleRequest EXCEPT !.phase = "answered", !.q = request.q, !.hidden = request.hidden]

\* The scorer of the facts reads statistics of its own.
Pack ==
  LET q == request.q
  IN  /\ In("pack") /\ ~q.answer
      /\ \/ /\ q.maxChars = 0
            /\ request' = [Answered EXCEPT !.rows = request.rows]
         \/ /\ q.maxChars > 0
            /\ \E stats \in (IF q.blank THEN {NoStats} ELSE {Stats(q), NoStats}), n \in Snapshots :
                 request' = [Answered EXCEPT !.rows = request.rows,
                   !.packed = Packed(q, SizeOf(request.digest), [list |-> FactsOf(n), stats |-> stats], request.rows)]
      /\ UNCHANGED memory

\* The state is read after the retrieval, and may be of a later digest.
Answer ==
  /\ In("pack") /\ request.q.answer
  /\ request' = [Answered EXCEPT !.rows = request.rows,
                                 !.evidence = Grounds(request.digest, request.rows, digest)]
  /\ UNCHANGED memory

Reply ==
  /\ In("answered")
  /\ request' = IdleRequest
  /\ UNCHANGED memory

\* Any other query of the request fails, or the model that answers, and the request with it.
RequestFails ==
  /\ request.phase \in {"recent", "pack"}
  /\ request' = IdleRequest
  /\ UNCHANGED memory

-----------------------------------------------------------------------------
Recorded(u) ==
  [Absent EXCEPT !.content = u.content, !.pinned = u.pinned,
                 !.tokens = Indexed(u.content, IndexCap), !.vector = u.content]

Init ==
  /\ \E past \in Pasts :
       event = [e \in Events |-> IF e \in DOMAIN past THEN Recorded(past[e]) ELSE Absent]
  /\ writing = {} /\ dropping = {} /\ jobs = {}
  /\ digest = 0
  /\ request = IdleRequest
  /\ writes = 0

Write ==
  \/ \E e \in Events, u \in Uploads : Store(e, u)
  \/ \E w \in writing : Index(w) \/ IndexFails(w)
  \/ \E e \in Evidence : Suppress(e)
  \/ \E e \in Events : Expire(e) \/ EmbedBackfill(e) \/ BackfillTokens(e)
  \/ \E e \in dropping : DropTokens(e)
  \/ \E j \in jobs : JobReads(j) \/ EmbedWrites(j) \/ ClassifyWrites(j) \/ JobFails(j)

Retrieve ==
  \/ \E q \in Queries : Begin(q)
  \/ ListRecent \/ ReadStats
  \/ SearchTokens \/ FetchLexical \/ LexicalFails
  \/ SearchVectors \/ FetchVectors \/ VectorFails
  \/ Rank \/ Pack \/ Answer \/ Reply \/ RequestFails

Next == Write \/ Retrieve \/ DigestRun \/ ApiStops

Spec == Init /\ [][Next]_vars

-----------------------------------------------------------------------------
(* Properties *)

\* What there may be in the index.
Tokens == UNION {Indexed(c, IndexCap) : c \in Contents}

\* No text has more tokens than the cap, and one in two scripts has some of each.
BothScriptsIndexed ==
  \A c \in Contents :
    /\ Cardinality(Indexed(c, IndexCap)) <= IndexCap
    /\ IndexCap > 1 => \A words \in {ToSet(c.ascii) \ StopWords, ToSet(c.cjk) \ StopWords} :
                        words # {} => words \cap Indexed(c, IndexCap) # {}

\* Type invariant: the index holds at most IndexCap tokens of a text, and of a
\* bilingual one both scripts ("a plain slice ... would silently drop every CJK
\* token"); the pool has each event once, whatever streams found it.
TypeOK ==
  /\ \A e \in Events :
       /\ event[e].content \in Contents \cup {NoContent}
       /\ event[e].vector \in Contents \cup {NoContent}
       /\ event[e].tokens \subseteq Tokens
  /\ BothScriptsIndexed
  /\ writes \in 0..MaxWrites /\ digest \in 0..Len(Digests)
  /\ Cardinality(Ids(request.pool)) = Len(request.pool)

\* "Suppressed events are excluded from retrieve": an event that was suppressed
\* before the request came is in none of its answers and grounds none, whichever
\* stream had it, whatever index entries and vectors of it are left or written later.
SuppressedStaysOut == (Ids(request.rows) \cup request.evidence.eventIds) \cap request.hidden = {}

\* "The pool only widens": what a search that worked has found is ranked, unless
\* it was suppressed or purged meanwhile, whatever the next search finds.
PoolOnlyWidens ==
  request.ranked # << >> =>
    \A e \in Events :
      /\ Visible(e)
      /\ \/ e \in request.lexical /\ "lexical_search" \notin request.degraded
         \/ e \in request.near /\ "vector_search" \notin request.degraded
      => e \in Ids(request.ranked)

\* Recency and a pin are worth 45 points together: an event that is more relevant
\* by 57 hundredths is never behind, in whatever order the streams found the pool.
RelevanceWins ==
  LET score(i) == Score(request.q, request.ranked[i].content, request.stats)
  IN  \A i, j \in DOMAIN request.ranked : i < j => score(j) - score(i) <= 56

\* What is packed fits, and what is left out does not fit beside it.
Fits(p, max) ==
  LET facts == Size(p.facts, p.keptFacts)
      used  == p.digest + facts + Size(p.items, p.keptItems)
      room  == AtMost(FactShare(max), max - p.digest) - facts
  IN  /\ used <= max /\ facts <= FactShare(max)
      /\ \A i \in DOMAIN p.facts \ p.keptFacts : p.facts[i].size > room
      /\ \A i \in DOMAIN p.items \ p.keptItems : p.items[i].size > max - used

\* "Whole items only" within the budget, facts within their share of it; and an item
\* that is left out is one that does not fit in what is left.
PackedWell == request.packed # << >> => Fits(request.packed, request.q.maxChars)
=============================================================================
