# StateCore in TLA+

StateCore keeps long-term memory for assistants. Callers ingest *events* into a
*scope*; a *digest run* distils the events with a language model into a state
snapshot (facts, decisions, constraints, notes); callers also write notes into
that snapshot, forget facts, and read it all back. A server deployment splits
this into an API, a worker and PostgreSQL; the embedded backend
(`apps/mcp`) does it in one or more processes that share a SQLite file.

What is hard is not any one computation but that a digest run reads the
database, waits minutes for a model, and writes, while callers, other runs,
other processes, crashes and expiring locks act on the same rows. This project
models that.

## Inventory

| Component (source) | State it keeps | Operations | Interacts with | What would be wrong |
|---|---|---|---|---|
| Fact registry and carry-over (`core/digest/fact-registry.ts`, `merge.ts`, `handoff.ts`, `api/memory-facts.service.ts`) | the `DigestStateSnapshot` row: registry entries, held strings per facet; `ForgottenFact` keys | `addNote`, `forgetFact`, a digest's restate / extract / consolidate, `carryOverConcurrentNotes` | callers and digest runs meet on the snapshot row | a note lost or revived by a run that worked on an old copy; a forgotten fact that returns; a string with no entry behind it |
| Worker digest lock (`worker/digest-lock.ts`) | a Redis key per scope with an owner token and a time to live | acquire, skip, release | digest and rebuild jobs | two runs of a scope at once, a release of another job's key, a stranded scope |
| Embedded digest lock (`mcp/digest-lock.ts`, `digest.ts`) | `DigestLock` rows, the flag `running` | reap, insert, delete | every process on the file | the same |
| Embedded digest (`mcp/digest.ts`, `digest-write.ts`, `embedded.ts`, `embedded-repos.ts`) | `MemoryEvent`, `Digest`, `DigestFailure` rows, a monotonic clock per process | ingest, first note, run, failure ceiling | the lock, the pipeline | an event that is never digested, a scope that is retried for ever, a run that says it is complete and is not |
| Worker digest and rebuild jobs (`worker/main.ts`) | the same rows in PostgreSQL, a queue | digest a scope, replay its history in chunks | worker lock, pipeline, working memory | backfilled events never read, a replay that folds in nothing |
| Digest pipeline (`core/digest/pipeline.ts`, `selection.ts`, `deltas.ts`, `stage2.ts`, `consistency.ts`) | none; it maps events and a state to a state | select, find deltas, chunked model passes with retries and fallbacks | the model | a durable event dropped for a casual one, a failure that is not reported |
| Protected-state merge (`core/digest/merge.ts`, `state.ts`) | goal, constraints, decisions, profile | authority-ranked merge, caps, history trim | the registry | low authority overwriting high, an evicted fact still active |
| Facet consolidation (`core/facet-consolidation.ts`) | none | group similar facts, ask the model to merge them | the registry | a fact superseded by one that was never added |
| Session handoff (`memory-facts.service.ts`, `mcp/embedded.ts`) | `SessionHandoff` rows | set, clear, read the active one | the database's isolation | two active handoffs, or none |
| Embedded tools (`mcp/embedded.ts`, `lite-db.ts`) | SQLite | remember, capture, recall | all of the above | a capture stored twice |
| Reminders (`worker/main.ts`, `api/reminders.controller.ts`) | `Reminder` rows, delayed jobs | create, cancel, send | a queue with retries | sent after it was cancelled, or twice |
| Working memory (`core/working-memory.*`, `worker/main.ts`) | a snapshot with a version | take, select, extract, refine, upsert | update jobs of a scope, the turns that queue them | a lost update, half a turn read, a goal overlooked |
| Maintenance (`worker/data-gc.ts`, `expire-events.ts`, `embed-job.ts`, `classify-job.ts`, `scripts/backfill-tokens.ts`) | old digests, expired events, vectors, index entries | delete, purge, index | digests, retrieval | deleting what a run still needs, entries of an old text |
| Retrieval (`core/index.ts`, `retrieve-budget.ts`, `lexical-index.ts`, `api/vector-search.ts`) | `MemoryEventToken`, `MemoryEventEmbedding` | search three streams, rank, rerank, pack, answer | forgets, uploads and jobs that change what it reads between two queries | a suppressed event returned, a relevant one buried, a budget exceeded |
| Assistant runtime (`core/assistant-runtime.ts`, `api/memory.controller.ts`, `bounded-ttl-cache.ts`) | two TTL caches per process | classify, recall, answer, store in the background (documents in place, under a key), queue | caches, working memory, digests, uploads, expiry | a recall served for ever, an update that reads half a turn |
| Other routes of the API, MCP server, CLI, hooks, AML adapter, contracts, prompts, evaluation | routing, schemas, prompts | | | plumbing: pure I/O or data, see *Not modelled* |

The hazards, each at its line, are in `PROJECT.json` under `hazards`.

## Modules

| Module | Models |
|---|---|
| `JsArrays` | JavaScript's array operations on sequences (push, filter, concat), for the notes and the working memory |
| `JsLists` | sort, filter, `new Set` and reduce on sequences, by counting and by recursive functions, for the pipeline and retrieval |
| `ScopeNotes` | the notes of a scope: callers, forgets, and digest and rebuild runs that work on private copies |
| `ScopeNotesProofs` | lemmas about arrays; type correctness, the cap, `RecordKept`, `InactiveStays`, `ForgottenInactive` and, for runs that do not overlap, `CallerTextSurvives`, proved |
| `Lease` | the promise of either lock: a run enters a free scope for a term; its lease ends with its own leaving or its term, and in no other way |
| `WorkerLock` | Redis `SET NX EX` and the compare-and-delete script, refining `Lease` |
| `LockRows` | the state of the embedded lock and what it promises (`Serialized`, `IsLease`) |
| `EmbeddedLock` | EXTENDS `LockRows`: the `DigestLock` row, the flag `running`, reaping and release without an owner, refining `Lease` |
| `EmbeddedDigest` | which events are pending, what a run does about them, the failure ceiling, clocks and crashes |
| `EmbeddedProofs` | of `EmbeddedDigest`: `TypeOK`, `FoldedStays`, `FirstNoteKeepsPending` and `GivesUpInTime`; of `EmbeddedLock`: type correctness and, while no run overstays, `Serialized` and the refinement of `Lease`, proved |
| `WorkerProofs` | of `WorkerLock`: `TypeOK`, `ExclusiveInTerm` and the refinement of `Lease`; of `Reminders`: type correctness and `DeliveredOnce`, proved |
| `Handoff` | session handoffs: overlapping set and clear transactions at READ COMMITTED or under SQLite's single writer, the active row, the audit chain |
| `HandoffProofs` | all its safety properties, proved |
| `DigestJobs` | the worker's digest and rebuild jobs under a queue with attempts, beside ingestion, backfills, uploads, forgets and the collection of digests |
| `DigestJobsProofs` | all its safety properties (`TypeOK`, `LatestHasState`, `PublishKeeps`), proved |
| `DigestPipeline` | what a digest run does with the events it has: selection, deltas, the protected-state merge, the gate on the model's reply, extracted facts, consolidation |
| `DigestPipelineProofs` | all its safety properties (`TypeOK`, `ProtectedStays`, `CorrectionsTake`, `DocumentFactStands`), proved |
| `Delivery` | what a user sees of the reminders |
| `Reminders` | EXTENDS `Delivery`: reminders from creation to collection, the sending job's batches, daily reminders |
| `WorkingMemory` | what an update takes, selects and extracts, and how a model's patch is merged (operators) |
| `RuntimeTurn` | EXTENDS `WorkingMemory`: runtime turns and status requests, their caches, their background work, and the update jobs |
| `RuntimeTurnProofs` | all its safety properties, proved |
| `Retrieval` | retrieve and answer requests query by query, over an index and vectors that other requests and jobs change meanwhile |
| `RetrievalProofs` | all its safety properties, proved |
| `MC*` | instances for TLC |

How they compose: `WorkerLock` and `EmbeddedLock` implement `Lease`; what they
promise is what `DigestJobs` and `EmbeddedDigest` assume of their lock, and what
they do not promise is why `ScopeNotes` lets runs overlap. `DigestJobs` decides
which events a run reads and onto which digest it builds, `DigestPipeline` what
comes of them, and `ScopeNotes` how the result meets what callers wrote in the
meantime. `RuntimeTurn` and `Retrieval` take a digest run as one step.

### `ScopeNotes`

`row` is the newest snapshot row as the notes see it: the registry (a sequence
of entries with id, text, source, `supersededBy` and whether retired) and the held strings
`profile.notes`. `forgotten` is the set of `ForgottenFact` keys, `runs` the
digest and rebuild runs with the private copy each works on. A caller's
`addNote` is one of `KeepNote`, `ReviseNote`, `AppendNote`, `FirstNote` (each is
one transaction in the code); `ForgetFact` is the forget transaction. A run is
`StartDigest` or `StartRebuild` (reads the row), `StartPipeline` (the load-time
trim and prune), any number of `RestateNote`, `ExtractNote` and
`ConsolidateNotes`, and `PublishDigest` or `PublishChunk`, which call
`CarryOver` (the reconciliation loop with the row as it is by then). Texts are
model values; which of them revise each other is the constant relation the
similarity functions decide in the code.

Abstractions: only the notes facet; a consolidation yields one merged fact;
evidence for an extracted fact exists; the legacy 0.9-confidence marker of caller
notes is the entry's source. Runs may overlap, because the locks let them (see
`EmbeddedLock`, and a worker's key can expire under a slow run).

### `Lease`, `WorkerLock`, `EmbeddedLock`

The worker's lock is a key with a time to live and an owner token; a job that
outlives its key keeps running, and its late release deletes nothing that is
not its own. What the lock does promise is `ExclusiveInTerm`: two jobs in a
scope are never both inside their term. The embedded lock reaps (`Reap`),
inserts (`Insert`) and releases (`Finish`) in separate statements, and the
release deletes by scope. `EmbeddedLock` has a constant `MayOverstay`: while no
run outlives the expiry of its row, runs are serialized; with `MayOverstay = TRUE`
TLC finds a third run that starts because a late release removed the second's row.

### `EmbeddedDigest`

Nothing marks an event as digested: it is pending while it is newer than the
newest `Digest` row by `createdAt` or `ingestedAt`. `stored` is the table of
events, `latest` the newest digest with its stamp and (a ghost) the events
folded in, `failures` the `DigestFailure` count, `run[p]` the run of a process
with what it has read, and `last[p]` its monotonic clock. Each SQL statement
is a step, an insert two (its values are computed, then it gets the write
lock). What the model answers is any outcome `generateDigestStage2` can end
with: `Distill` (all of the selection, or the chunks that succeeded),
`RetryContradicts`, `DistillNothing`, `NothingToFallBackOn`, `ModelFails`.
A ghost, `misses`, counts the runs since the last written digest that had events, distilled
nothing and had a digest or a state to carry forward; without one stage 2 throws (`NothingToFallBackOn`). The lock is one variable no run outlives (the assumption
`EmbeddedLock` discharges while `MayOverstay` is false). A chunk is one event;
selection may keep any nonempty part of the window; documents are left out.

### `Handoff`

`stored`, `supersededBy` and `retired` are the committed `SessionHandoff` rows,
`txn[c]` the transaction a caller has open. A set is `Insert`, `Supersede` (the
update statement starts and finds its rows), `UpdateRow` for each (it waits
while another transaction has the row updated, then looks at the condition
again: PostgreSQL's READ COMMITTED) and `Commit`; a clear is the update alone.
`Abort` is a lost connection, a dead process or a deadlock's victim.
`backend` is chosen once: for `embedded`, a transaction begins only when no
other is open (`BEGIN IMMEDIATE`). `Chain` is the walk behind `why`. Timestamps
are left out: with one active row they decide nothing.

### `DigestJobs`

`event` is the table of events (stored, `createdAt`, `ingestedAt`, `updatedAt`,
the version of its text, suppressed), `digests` the digest rows with the contents
folded into their snapshots, `lock` the scope's key, `job[j]` a queued job with
its tries and `run[j]` what its handler holds. A digest job is `Start` or `Skip`
(the lock is taken), `ReadBase`, `ReadEvents`, `ReadForgotten`, `Publish`, `Leave`
and `Log`; a rebuild publishes once per chunk. `Fail` and `Crash` may strike
between any two of them, and a failed job comes back while it has attempts left.
`Ingest` stores an event, now or with an `occurredAt` long ago, `UploadAgain`
gives a document a new text in its old place, `Forget`, `Suppress` and
`LoseSuppression` are the forget transaction and the update after it, and
`GcReadOld` to `GcRows` the collection, statement by statement.

Abstractions: a content stands for the facts it gives, and a run folds all it
is allowed to (the pipeline is `DigestPipeline`'s); every stamp is distinct; a
run ends, or its worker dies, within its key's life (a run that outlives it is
`WorkerLock`'s and `ScopeNotes`'s).

### `DigestPipeline`

`log` and `page` are the events and the stored version of each document,
`state` the latest `DigestState` (goal, decisions, constraints, todos, notes,
provenance, profile strings and the registry), `run` the run in progress.
`Say` and `Upload` add input at any time. `SelectAndMerge` is selection under its
budgets, deduplication, classification, delta detection and
`protectedStateMerge`, which are deterministic between two model calls; `Accept` and
`Reject` are one reply of the model against the consistency gate, with retries
and the fallback; `Conclude` applies the extracted facts, consolidates the
facets they touch, prunes and publishes. `PassOn` is a run without news. What a
model answers is any member of a set of replies: the classifying model may
relabel any of the turns, the consolidating model write any number of strings of its own, each
with any of a facet's strings as its sources (`Replies`).

What bounds the state is modelled as the code does it: loading keeps the last decisions,
constraints and notes and, of the registry, every active entry and the last inactive ones
(`Loaded`, `Recorded`); of each list the last values written keep their provenance
(`Traced`); routing and extracted facts look at a facet's cap, and consolidation, as in the code, does not.

Abstractions: a text is a wording, and `Wording` says what the patterns of the
code read in it (its kind, its topic, whether it revokes, negates, states a
risk...); `Similar` and `Loose` are the pairs the high and the low thresholds
match. Recent changes, counters and confidences that nothing reads back are left
out, chunked stage 2 is `EmbeddedDigest`'s, and a run sees the whole log (the
window is `DigestJobs`'s).

### `Reminders`

`reminder` is the status of each row, `sender` the handler of `send_reminders`
with what is left of its batch, `daily` the texts `daily_remind` has posted and
not yet recorded. `Mark` is before `Send`, as in the code. `SendFails` is an
unreachable Telegram, a lost answer or a dead worker; `MarkFails` the update of a
row that was collected. Times are left out: a row is scheduled, then due.

### `WorkingMemory` and `RuntimeTurn`

A session is a request in progress: after `Begin` its three `Load`s (digest, working memory,
recent turns) are answered in any order, each as the scope is then; `Resolve` computes the two
keys of them and asks the two caches, `Retrieve` is the
retrieval's answer, `AnswerStatus` or `AnswerTurn` end the request. A turn's
background work is `Write` (each line and the reply, each committed on its own),
`RequestUpdate` and `RequestDigest`. A message kept as a document goes under its `DocumentKey`, the
request's or one of the message's own: a row that is there under the key is given the new text and
keeps its place (`Rewrite`). `Upload` is `/memory/events`, which does the same, or stores an event at
the end or, with an earlier `occurredAt`, behind others; `Expire` deletes an uploaded event. The rows `detect-patterns.ts` writes
are such events too: they are stored now and expire. `lost` is a ghost: the parts of turns that were stored and no row holds any more. `BackgroundFails` drops the rest of it, and
`Restart` is the process with its caches. An update is `UpdateRead`,
`UpdateVersion` and `UpdateWrite`: the version its successor gets is read before
a model is asked, and the write is unchecked. The policies (`TierOf`, `Digests`,
`LimitOf`...) and `WorkingMemory` (`Selected`, `Extracted`, `Merged`...) are operators
on what the code's patterns read in a message.

Abstractions: time passes in ticks of the caches' life; a message's patterns are
attributes of the request; an event says at most one item of a kind; an event that is stored
behind others is apart from their turns; what the retrieval finds is `Retrieval`'s.

### `Retrieval`

`event[e]` is what an event says with its index entries and its vector,
`writing` the requests between an event's commit and its index entries,
`dropping` the forgets whose tokens are still to be deleted, `jobs` the embedding
and classification jobs, and `request` the one retrieval in progress with what
it has read. Each query of it is a step: `Begin`, `ListRecent`, `ReadStats`,
`SearchTokens`, `FetchLexical`, `SearchVectors`, `FetchVectors`, then `Rank` (with the
rerank) and `Pack` or `Answer`; `LexicalFails` and `VectorFails` degrade it,
`RequestFails` ends it. The other actions are what happens in between.

Abstractions: an event is named by its `createdAt`; a text is its words by
script and a size; similarity and the weight of a word are tables; scores are
percentages.

## Runs

| Run | Shows |
|---|---|
| `notes_revisions` | four caller writes around one run, three texts of which two revise each other, room for two notes: the cap holds, records are kept, caller texts survive |
| `notes_overlap` | two overlapping runs and callers, room for two notes: what was forgotten stays inactive, what was inactive stays so |
| `worker_lock` | three job slots, two scopes, both terms, crashes, late releases: `ExclusiveInTerm`, the refinement of `Lease`, a stranded scope recovers |
| `embedded_lock` | two attempts in each of two processes, one scope, crashes, failed releases: the same with `Serialized` |
| `embedded_digest` | two processes, two events, crashes, clock ties; a window of one event once there is a digest, so that a window can miss pending events; one event a state can be projected from and one not, so that a first digest can carry on or throw |
| `handoff` | three callers, four handoffs, both backends, waits and aborts: links resolve, supersession ends, rows are closed once, what was there before is closed |
| `digest_jobs` | a digest and a rebuild job with two attempts each, a stream event that may be backfilled, a document uploaded again, a forget, a collection and a crash: the latest digest has its snapshot, publishing loses nothing and revives nothing, every job settles |
| `digest_backfill` (violation) | a backfilled event is read by the run and not folded by it |
| `reminders` | three reminders in batches of two, with cancellation, failures and collection at any time: sent at most once, never due for ever |
| `digest_pipeline` | two instances, with caps of one and two on the lists, their provenance, a facet and the registry's history. Three runs over any three of six turns and two versions of a document: decisions do not drift away, a document's corrections take. Two runs over a document and turns that are routed, with an extracted fact and consolidations of up to three strings: a document's facts stand |
| `runtime_turn` | two instances, with two requests at a time, caches of one entry and updates of two attempts. Status requests beside any of three turns, loads in any order, a digest: a recall is less than two lives old. Two turns with documents under one key, an upload under that key or behind what is stored, expiry, two updates at a time with one recent event: an update sees its turn, the user's goal is heard |
| `retrieval` | one search or question at a time over three events while they change: suppressed events stay out, the pool only widens, relevance wins, the packing is whole, within its budget and fills it |

Bounds. Sizes are the least at which the hazards occur: two texts that revise
each other and one that does not, one run against several writes, two runs that
overlap, two processes and an attempt more than either can run at once, three callers
so that one set meets two that did not see each other, two
events so that one can be read and one missed, a failure ceiling of three as in
the code; one digest and one rebuild job, so that either can publish between
the other's read and write; three log entries, so that a decision can be stated,
revoked and restated around a document, and three runs, so that the provenance or the entry one
run wrote is pushed out by the next and missed by the last; a provenance of two values under lists that
a document and a turn fill, a history of one inactive entry; consolidations of three strings, over a cap of two; batches of two over three reminders, so
that a batch fails half way and another is needed; two requests and caches of one
entry, so that entries evict each other; two turns and an upload, so that each can write over, or come behind,
what another has stored; one turn beside a status request where loads overlap (each of the three is a step); three events of which one pool holds one,
so that streams find different ones. Capacities (a cache, a facet, a pool, a
batch, the recent events of an update) are at one or two so that they fill. Ids,
clocks, crashes, turns, uploads, outputs of a consolidation (`MaxOutputs`) and writes are bounded by constants named as bounds. A reply
extracts one fact in `digest_pipeline` (`MaxFacts`; with two it takes hours) and a consolidation there writes one wording, however often
(`Rewordings`); the theorems are about any number of either. Deadlock is not checked where a bound ends the behaviour.

Where the input of two questions would multiply and neither needs the other's, the `MC` module has two
*instances* and a variable that says which of them a behaviour is of: `MCNext` is `Next` with the
inputs and bounds of that instance (`Fits`), so the run covers the one and the other, each as a
specification of its own.

Fairness. Only the liveness runs assume any. A process with a statement to
execute executes it (weak); time and key expiry go on (weak; strong for ticks
that other steps interrupt); a scope that goes on having a reason to be tried
goes on being tried, since every ingestion, startup and explicit demand
triggers a run (strong, on the acquisition: `StrandedScopeRecovers`); a worker goes
on with the jobs of its queue, of which each step either succeeds or fails
(weak: `JobsSettle`); the reminder tick comes every minute, and a handler goes on
with its batch (weak: `DueIsHandled`). Nothing is assumed of the model, of callers,
or of what fails. Crashes are unrestricted in safety runs and finitely many in
liveness runs.

## Proofs

Every theorem is about the specification a run checks, for every value of its
constants that the module's assumption allows. A theorem has a further
hypothesis only where it says so, and then TLC has a counterexample to the statement
without it (of `CallerTextAlwaysSurvives`, by simulation of a larger instance).

`ScopeNotesProofs` begins with lemmas about arrays (what pushing, filtering and
concatenating keep, which positions the result has and what is at them). For any
numbers of runs, texts and ids, any cap, any relation of revision and any number of edits:

* `TypeCorrect`: `Spec => []TypeOK`, with the type of every private copy. (The type
  invariants of `ScopeNotes`, the locks, `Handoff` and `Reminders` are proved, so no run
  checks them.)
* `NotesAlwaysCapped`, `RecordAlwaysKept`, `InactiveAlwaysStays`, for any number of
  overlapping runs. What is inductive is `NotesInv`: the latest snapshot and every
  copy are lists, their registries name each id once and only ids that were issued, and
  their notes are within the cap. The uniqueness of ids is what makes "the entry of
  this id" a notion that survives reordering: `CarryOver` looks entries up by id, so an entry the copy
  has is found, one it lacks is carried, and what it retires is retired under its own id.
* `ForgottenStaysInactive`, unless a key is forgotten before the scope has a
  snapshot (`~BlindForget`; `FirstNote` bypasses the forgotten keys): no held string and no
  active entry says a forgotten text. The row satisfies it at every step
  because each write either heals against the forgotten keys or, when it
  publishes a copy, prunes inside the transaction; copies need not satisfy it,
  which is why the invariant says nothing of them.
* `CallerTextAlwaysSurvives`, for runs that do not overlap (`OneRun`). Besides
  `NotesInv` it needs `CopyInv`, which relates the copy of a run to the snapshot that
  changes under it (`Abreast`): a caller's entry in the copy is in the snapshot or was
  forgotten; one id has one text and one origin in both; what is active in the snapshot
  is active in the copy, unless the run itself has changed it, which it does not
  do to a caller's entry that is not forgotten; and what is active in the snapshot only came after all
  that the copy has. Publication then carries a caller's text or finds it held, and
  eviction takes what is not a caller's first.

Proving the last one showed that it did not hold as it was first stated. A rebuild from
nothing that finds a caller's text again adds a second active entry of it;
eviction retires the first of the two, the string goes with it, the other stays active
and a later publication drops the text. Hence the premise `Consistent`. With
two overlapping runs even that is not enough: an inactive entry that was trimmed from one copy
comes back behind a caller's newer entry of the same text, and the other run's
publication then drops the string the caller's entry stands for. Hence `OneRun`.
The run that checks it (`notes_revisions`) has one run; both counterexamples take sizes beyond it.

`WorkerProofs` proves of the worker's lock, for any numbers of scopes and job slots and any
terms:

* `TypeCorrect`, and `Exclusive`: `Spec => []ExclusiveInTerm`. What is inductive
  is `TermIsKey`: a job within its term *is* the owner of its scope's key, and
  job and key have the same life left. Two jobs in term would be the one owner
  of one key. A late release is harmless because the script compares the token.
* `Implements`: `Spec => IsLease`, the key and `Inside` (the scope a running job
  believes it has) as `Lease`'s `lease` and `inside`. Acquiring is `Enter`,
  releasing an own key `GiveBack`, a late release or a crash `Vanish`.

`EmbeddedProofs` proves of an instance (`Lock`) of `EmbeddedLock`, for any numbers of scopes,
processes and attempts and any expiry, `LockTypeCorrect`, and from the assumption `~Lock!MayOverstay`:

* `RunsAreSerialized`: `Lock!Spec => []Serialized`, by `RowIsHeld` (a run that has
  not ended has its scope's row, with a life left that is not over): the delete
  by scope alone then removes the run's own row, and reaping no run's row;
* `Implements`: `Lock!Spec => IsLease`, with `NoRowIsOver` (nothing is left of a row
  that is not there).

It proves of `EmbeddedDigest`, for any events, processes, windows, ceilings and clocks:

* `TypeCorrect`: `Spec => []TypeOK`, with `Stamped`: clocks have started, so there is room
  for a placeholder's stamp before that of any event.
* `FoldedAlwaysStays`: no step takes an event out of what the newest digest has folded. What
  is inductive is `OnNewest`: what a run builds on is what the newest digest has folded
  when it writes, because the lock keeps every other writer of digests out
  but first notes, and these write only where nothing is folded.
* `FirstNoteAlwaysKeepsPending`, from the stamp of the placeholder.
* `AlwaysGivesUpInTime`. `Counted` is inductive: the runs since the last written digest that
  distilled nothing though there was something to carry forward are among the recorded
  failures, which are below the ceiling. A run with nothing to carry forward throws and is
  not counted (`stage2.ts:434`): of all runs together the ceiling does not hold, and the
  property does not say it.

`DigestJobsProofs` proves, for any events, jobs, attempts, chunk limits and bounds:

* `TypeCorrect`: `Spec => []TypeOK`, with the shape of every handler and of the collection.
* `LatestAlwaysHasState`, by `Kept`: stamps of digests are distinct, the last digest has its snapshot,
  and what a collection that has got past its reads is about to delete is stamped before a digest
  that stays.
* `PublishAlwaysKeeps`, by `Alone` (a handler between its first read and its leaving owns the key),
  `OnLatest` (what it read as the state is the state that serves, or nothing in a full
  rebuild, and the keys it knows are forgotten) and `Ages`
  (of the versions of one document, the state and what a run has yet to fold
  never go back to an older one).

`HandoffProofs` proves, for any callers and handoffs: `TypeCorrect`;
`LinksAlwaysResolve`; `ChainsAlwaysEnd` (no set of stored handoffs has all its
superseders within itself); `AlwaysClosedOnce`; `WhatWasBeforeIsClosed`; and, for
the embedded backend, `AtMostOneActive`. They rest on `Orderly` (a transaction
has updated only open rows, and no two the same row; nobody else has the row it
inserts), on `Covered` (what was committed before it began is closed, updated by
it, or still to come) and, for the last, on `SingleWriter`.
`WhyAlwaysWalksAll` is about what `Root` and `Forward` compute. `RootUnfolds` and
`ForwardUnfolds` show that they are what their definitions say (such functions
exist: `Walked` is where the steps of a walk lead). No induction over the chain
is needed: rows whose walk goes wrong would have a neighbour whose walk goes wrong, and
`ChainsEnd`, its mirror `ChainsBegin` and `OneFirst` (in the embedded backend, until a clear,
one row supersedes nothing) say that there is no such set of rows.

`WorkerProofs` proves also, of an instance (`Reminder`) of `Reminders` with any reminders,
batches and failures, `RemindersTypeCorrect` and, for one sending handler (`OneSender`: one worker process with `REMINDER_CONCURRENCY` at its default
of 1), `AtMostOnce`: `Reminder!Spec => []DeliveredOnce`. What is inductive is `NotSentYet`: a reminder that a handler holds, or
that can be read as due, was never delivered, and what is marked has left the batch. Two handlers
read the same due rows, and the update that marks a row does not ask whether it is marked already:
with two the statement is false.

`RuntimeTurnProofs` proves, for any requests, sessions, workers, capacities and lives:

* `RecallAlwaysRecent`, by `Recent`: in the cache of retrievals the age of an entry and the rest of
  its life add up to at most one life, and in the cache of resolved recalls, which copies
  from it, to less than two.
* `UpdateAlwaysSeesItsTurn`, by `Whole`. What a turn counts as done, what a queued job is about
  and what a running update is about is `There`: in a row, of the store or of what was read, or, if it
  is a document, among what was lost. Every change of the store is `Renewed`: it loses no id but
  one that expires, and of texts only a document's, because rows that can be written over, or
  go, hold no line and no reply (`LinesStay`). A job that fails goes back to the queue as it was.
* `GoalAlwaysHeard`, by `Own` and `MadeOf`. Every row of the store, and of what an update has read, has
  an id of its own, wherever it was inserted (`DifferById`): it was uploaded under a number of its own or is a part of a turn that no
  session has yet to write (`Stems`), and turns in progress have numbers of their own (`Numbered`). The snapshot is
  extracted, and refined by a model, from the selection of the events its update took, as they read then
  (`MadeOf`). Of the selection, `SelectedWell` shows that it has no event twice, keeps the order
  of the events and ends, among those that say a goal, with the latest of what was taken; so what
  is extracted is no older than any goal among the sources (`GoalKept`).
* `TypeCorrect`, by `Bounded` and `Within`. Writing to a cache, or the aging of one, leaves one
  entry a key and evicts what is beyond the capacity (`PutBounded`, `OlderBounded`). Versions and
  digest jobs are counted by the turns that caused them (`Counted`): a turn whose update is
  written has no update left, queued, running or still to be asked for. The caps of the fields follow
  from `MadeOf`. `WorkingMemoryAssumption` says of a model's patch what
  `refineWorkingMemoryStateWithLlm` makes of any reply: lists of items, and at most one progress
  summary.

These need no induction over a list: `Filter` of `JsArrays`, which selects, goes by the rank of
a position in the set of those kept, and what it keeps, and in which order, follows from a bijection
(`RankOnto`, `RankOrder`).

`RetrievalProofs` proves, for any events, texts, queries, digests, statistics, weights, caps and bounds:

* `SuppressedAlwaysOut`, by `Blind`: what was suppressed when the request came is suppressed or
  purged from then on (`Lost`; an upload brings back neither), so no query of the request can read it,
  and a pool has only rows that were read.
* `PoolAlwaysWidens`, by `Wide`: what a search finds was stored (`Met`, because what is not stored has
  no index entries and no vector, `Clean`), so when its rows are read it is in the pool, comes into
  it, or is lost; after that nothing leaves the pool.
* `RelevanceAlwaysWins`, by `RankedWell`: a sort has the rows it was given and none behind a worse one,
  whatever the scores, and recency is between 0 and 100 because the oldest and the newest are
  those of the pool.
* `AlwaysPackedWell`, by `FilledWell`: what is kept and what is left add up to the allowance, and what
  was not kept did not fit in what was left then, which is no less than what is left in the end.
* `TypeCorrect`: the pool has each event once, because what is appended is not in it
  (`PoolsJoin`), and the index at most its cap of tokens and some of either script (`IndexedWell`:
  the tokens that are taken, numbered by their turns, have numbers of their own below the cap).

Sorts are by ranks (`Ordered` of `JsLists`): `AheadOnto` shows that each rank is that of one element. Sums count
(`Total`). The fill goes on item by item; that there is such a function, and what holds of each of its
values, is proved by the least number of which it would not hold (`NoLeast`, from
`EndsExist`), because the library's induction takes an operator.

`DigestPipelineProofs` proves, for any wordings, likenesses, documents, packs, labels, budgets and caps,
any log, any number of runs and any number of facts a reply extracts:

* `Typed`: `Spec => []TypeOK`. `Inv` holds that the published state and the run's copy are `Sound`:
  besides their shape, the caps of the note lists and of the provenance hold (`Within`), and
  what has a provenance is on record (`OnRecord`). Nothing is stated of decisions and todos between two loads, nor
  of a facet's cap: the code lets them exceed it.
* `DecisionsStand`: `Spec => ProtectedStays`, and `DocumentsCorrect`: `Spec => CorrectionsTake`. Both start
  from the state as a run loads it, its history trimmed: an inactive entry protects as long as
  it is there. One
  set of states (`Merging`) is carried through the whole merge, list by list, document by document and
  delta by delta: the registry has only grown (`Extends`), what the state it began with protects is held,
  with no document behind it that was not behind it before or has been merged since (`Behind`; provenance may get lost), or a document took it
  back (`Shields`), and of each document merged so far nothing is left that it alone is
  on record for and does not state (`Corrected`). `DecisionMerged` is the heart: what a turn revokes or replaces is
  unguarded, and what the registry stands behind is guarded (`ShieldedGuarded`). Between the merge and the
  publication the lists and their provenance stay (`Same`), through facts and consolidations.
  What relates the two ends of a run is `PipeKeeps` and `PipeCorrected`.
* `DocumentFactsOutlive`: `Spec => DocumentFactStands`, by `FactsInv`. A fact of a document *stands* on
  an entry that is the first active one like it (`Stands`); what stands in the published state, as it is loaded, stands
  in the run's copy (`PipeStands`), because entries are only added, or retired and superseded
  elsewhere (`Quieter`), and what is published has been pruned of forgotten texts (`Clean`), so the last
  prunes take no document's fact. A restatement of less authority is outranked or goes past the
  entry (`StandsUntouched`); of consolidations, which name each facet once, one at most settles the
  entry, and the others leave the facet alone (`ConsolidationSettles`).

The folds of the merge are recursive functions (`Reduced`); that there is such a function and
what holds of each of its values is `Steps` and `Stays`, again from a least number.

Proving the last of them showed that it did not hold as it was first stated, as no run had
extracted two facts from one reply, or held two like entries in two facets. Hence
its premises `Foremost` and `Mild`, each with a counterexample of TLC's (see *Observed divergences*).

Only model-checked: liveness (`ENABLED` and fairness are out of the prover's reach), that is
`StrandedScopeRecovers`, `JobsSettle` and `DueIsHandled`. What the numbers of a similarity, a
recency or a token count are, and what recursive functions compute beyond what is stated of
them, is not the subject of a theorem.

## Not modelled

* The fast-layer context compiler, the formatting of views, prompts, the parsing
  of the model's replies and of hook input: they lay out or read text. What a
  malformed reply does is modelled (`Reject`, `Refinements`).
* The patterns that read a message, a line or a document, and the similarity of
  two texts: constants of the modules say what they find, any instance may be
  checked, and the proofs hold for all.
* Drift metrics, layer diagnostics, counters and confidences: nothing reads them back.
* Chunked stage 2 in the worker (it is the code `EmbeddedDigest` models).
* How pattern detection (`detect-patterns.ts`) finds a pattern; the rows it writes are as `RuntimeTurn`'s uploads.
* Scope and user administration, authentication, validation, paging of lists,
  documentation routes, MCP and CLI plumbing, the HTTP backend, row codecs and
  migrations, contracts, the AML adapter, evaluation and demo code: single
  statements, or translations between formats, with no state of their own.
* Redis, PostgreSQL, SQLite, BullMQ, Telegram and the model are external: they
  are modelled from how the code uses them, failures included.

## Observed divergences

`digest_backfill` pins one. Modelling showed the following as well, which no run
pins; each can be seen as a behaviour of the module named.

Notes (`ScopeNotes`). A retired entry keeps `promoteToFactRegistry` from adding an
active one, as `isInFactRegistry` looks at `supersededBy` only: a string is then held
with nothing active behind it (`fact-registry.ts:9`, `:396`). A supersession link a
caller wrote is replaced by the run's at publication; the history trim makes
carried entries reappear in another order; `carryOverConcurrentNotes` decides
whether a carried string is already held before a later entry's sync removes it,
so with overlapping runs a caller's note can end active with no string; a
caller's note can be evicted at publication when the cap is exceeded.
The first note of a scope without a snapshot is added without a look at the keys forgotten
before (`memory-facts.service.ts:113`; no run, as `BlindForget` is false in all).

Locks and embedded digests (`EmbeddedLock`, `EmbeddedDigest`). `releaseDigestLock`
deletes by scope: a run that outlived `LOCK_EXPIRY_MINUTES` deletes its successor's
row (`digest-lock.ts:26`; no run, as `Serialized` is checked and proved while none overstays). A first digest with nothing to project a summary from
throws without being counted and is retried for ever (`stage2.ts:434`), although the comment on the
ceiling says of consecutive runs that distilled nothing that the scope moves on "instead of retrying them forever"
(`digest.ts:98`). When all
chunks failed and the retry succeeds degraded, the run still reports itself complete
(`stage2.ts:270`). An event ingested during a run falls behind the digest's stamp
unread (`digest-write.ts:46`). The flag `running` is global, so a run of one scope
makes an attempt on another be skipped. A process that dies between writing a
digest and deleting the `DigestFailure` row leaves a count, and the scope gives up
earlier than "consecutive" says. Two processes can stamp a digest and an event
with one millisecond, and the event is then not pending.

Handoffs (`Handoff`). Two overlapping sets through the API can both stay active
(`memory-facts.service.ts:150`). Once two are active and a third supersedes both,
or after a clear, `why` on the newest walks only part of the stop-points (the
README of `apps/mcp` says every one).

Jobs (`DigestJobs`). A rebuild folds only its first chunk, as every later event is
older than the digest just stamped (`main.ts:474`). Rebuilds read suppressed events.
A digest trigger that meets a running job is skipped, and its events wait for the
next trigger. A crashed worker's job, when it is run again, finds the lock its first
attempt left and is skipped.

Pipeline (`DigestPipeline`). A decision only a document states has no registry
entry, so a stream event may revoke it (`docs/protected-state-merge.md` says
otherwise); a document corrected to have no lines of a kind keeps its old ones; a
resolved question or risk may return; the merge is not idempotent; a goal's
document is the oldest selected one. A document's fact behind another active entry like it is restated
by the conversation: `applyProfileFactsFromDigest` asks the first active entry like the string for its
authority, whatever facet that is of (`merge.ts:455`), so an entry of less authority hides it.
Consolidation writes as many strings as the reply has and never looks at the facet's cap
(`facet-consolidation.ts:94`). Of a list's values the last fifty written keep their provenance (`state.ts:242`): what
a document stated before that is no longer known to be its own, and outlives its correction. A
retired entry guards a decision until the registry has five hundred inactive entries after it (`state.ts:192`); then a turn may
revoke what it guarded.
`supersedeFact` is not confined to a facet: of two facts in one reply, one for an unprotected
facet may supersede the document's entry, and the next then restates its string;
texts with words of negation can make the gate contradict the state with itself;
"events arrive oldest-first" and "events beyond the ceiling are not lost"
(`stage2.ts`) do not hold.

Reminders (`Reminders`). A reminder marked and then not sent is never sent; a
cancellation after the mark does not stop it; a daily reminder that was posted and
not recorded may be posted again.

Turns (`RuntimeTurn`, `WorkingMemory`). Of two overlapping updates the later
overwrites, and two snapshots may have one version; an update replaces the state of
the last one, so a goal older than the events it takes is lost; an item said again
keeps the place it was first said at, and is evicted before newer ones; updates and
recent turns read suppressed events; a document that is written over under its key before the update it asked for
reads is never seen by any (`domain.service.ts:95`); a background failure is swallowed; events of a
turn get no embedding or classification job.

Retrieval (`Retrieval`). `upsertDocument` never clears `suppressedAt`: a forgotten
document stays out however often it is uploaded, though its tokens come back. The
token backfill may race an upload and leave tokens of both texts; a failed index
write after an upload leaves the old tokens, which no backfill heals; an embedding
job of an old text may overwrite the newer vector; a document that was classified as
expiring is purged though its new text would not be. Forgotten facts are returned
until the next digest prunes them. A search may be both `degraded` by its vectors and
of mode "hybrid". "Any relevance gap above ~0.31 still wins" (`index.ts`) holds at
equal recency only; it takes 0.57 in general. The digest and the snapshot of one
answer may be of different runs.

Lists. A page of the API's lists ends with the first row of the next page as cursor,
and the next page starts after it: one row in between is in neither
(`domain.service.ts:106`; `embedded-repos.ts:205` corrects it for the embedded backend).

## Plan

1. Done: `ScopeNotes`, the locks and `Lease`, `EmbeddedDigest`, `Handoff`, with their
   proofs; `DigestJobs`, `DigestPipeline`, `Reminders`, `WorkingMemory`, `RuntimeTurn`,
   `Retrieval`, model-checked.
2. Done, proofs: every safety property that a run checks, and the two refinements of `Lease`.
3. Possible next: the AML adapter, scope administration and the context compiler, which are
   *not modelled*; replies of several facts in a run, which take more time than a run has here.
