------------------------------- MODULE RuntimeTurn -------------------------------
(***************************************************************************)
(* One scope served by one API process: runtime turns and layer-status     *)
(* requests resolve a recall through two TTL caches, a turn is answered    *)
(* from it, and what was said is stored and queued in the background,      *)
(* where working-memory updates race with each other and with the next     *)
(* request.                                                                *)
(*                                                                         *)
(* Time passes in ticks: a cache entry lives TTL of them.  A digest run is *)
(* one step here; DigestJobs says what happens in it.                      *)
(***************************************************************************)
EXTENDS WorkingMemory

CONSTANTS
  Sessions,     \* requests served at the same time
  Requests,     \* see IsRequest
  Uploads,      \* events that come through /memory/events, see IsUpload
  NoKey,        \* an event without a key
  NoRequest,    \* no request in a session
  Workers,      \* working-memory jobs run at the same time
  TTL,          \* life of a cache entry, in ticks (15 seconds)
  Window,       \* ticks within which lines are one turn (5 seconds)
  MaxEntries,   \* capacity of each cache (500)
  Attempts,     \* tries of a queued job (3)
  MaxTurns,     \* bound: turns taken
  MaxUploads,   \* bound: events uploaded
  MaxDigests    \* bound: digests written

Profiles == {"default", "conservative", "document-heavy"}
Tiers == {"ephemeral", "candidate", "stable", "documented"}

\* A message, what the policies' patterns read in it and in each of its lines, and
\* the request's options, of which the document's key may be left out.
\* Messages that differ in their whitespace only are squeezed to one.
IsRequest(q) ==
  /\ q.kind \in {"empty", "thanks", "structured", "wish", "document", "signal", "plain"}
  /\ q.plan \in {"none", "full", "goal", "status"}
  /\ q.long \in BOOLEAN
  /\ q.says # << >> /\ \A i \in DOMAIN q.says : q.says[i] \subseteq Readable
  /\ q.profile \in Profiles /\ q.tier \in Tiers \cup {"auto"}
  /\ q.promote \in BOOLEAN /\ q.eager \in BOOLEAN /\ q.limit \in Nat
  /\ q.digestMode \in {"auto", "force", "skip"}
  /\ q.turn \in BOOLEAN

IsUpload(h) ==
  /\ h.type \in {"stream", "document"} /\ (h.type = "document" => h.key # NoKey)
  /\ h.role \in {"user", "assistant"} /\ h.says \subseteq Readable

\* persistTurnArtifacts' key: the request's, else the hash of the message.
DocumentKey(q) == IF q.key # NoKey THEN q.key ELSE <<"runtime", q.message>>

ASSUME ConstantsAssumption ==
  /\ {TTL, MaxEntries, Attempts} \subseteq Nat \ {0}
  /\ {Window, MaxTurns, MaxUploads, MaxDigests} \subseteq Nat
  /\ \A q \in Requests : IsRequest(q) /\ DocumentKey(q) # NoKey
  /\ \A h \in Uploads : IsUpload(h)
  /\ NoRequest \notin Requests

VARIABLES
  store,      \* events in the order of their createdAt
  lost,       \* what turns had stored and store holds no more
  uploads,    \* events uploaded
  gap,        \* ticks since the user's lines that end store began, if any do
  digest,     \* the latest digest, or 0
  memory,     \* the working-memory snapshot: version (0: none), state, and the events it is made of
  session,    \* requests in progress, with the background work of a turn
  resolved,   \* runtimeResolvedRecallCache, in the order of the writes
  recalled,   \* runtimeRecallCache, likewise
  jobs,       \* working-memory jobs waiting
  update,     \* working-memory jobs running
  digests,    \* digest jobs waiting
  turns       \* turns begun

data   == <<store, lost, uploads, gap, memory>>
caches == <<resolved, recalled>>
queues == <<jobs, digests>>
vars == <<data, digest, session, caches, queues, update, turns>>

-----------------------------------------------------------------------------
(* Policies *)

\* ProfiledMemoryWritePolicy, the default profile included.
TierOf(q) ==
  LET quiet == q.profile = "conservative"
      asDocument == q.kind = "document" \/ (q.long /\ (q.promote \/ q.profile = "document-heavy"))
  IN  IF q.tier # "auto" THEN q.tier
      ELSE IF q.kind \in {"empty", "thanks"} THEN "ephemeral"
      ELSE IF q.kind \in {"structured", "wish"} THEN "stable"
      ELSE IF asDocument THEN "documented"
      ELSE IF q.kind = "signal" THEN (IF quiet THEN "candidate" ELSE "stable")
      ELSE (IF quiet THEN "ephemeral" ELSE "candidate")

WorthDigesting(profile) ==
  CASE profile = "conservative"   -> {"documented"}
    [] profile = "default"        -> {"stable", "documented"}
    [] profile = "document-heavy" -> {"stable", "documented", "candidate"}

\* ProfiledDigestPolicy under the request's digestMode.
Digests(q) ==
  /\ q.digestMode # "skip"
  /\ \/ q.digestMode = "force"
     \/ q.eager /\ TierOf(q) = "candidate"
     \/ TierOf(q) \in WorthDigesting(q.profile)

\* createRuntimeRecallPolicy; an override of 0 is none.
Asked(q) ==
  IF q.limit > 0 THEN q.limit
  ELSE CASE q.profile = "conservative" -> 2 [] q.profile = "default" -> 4 [] OTHER -> 6

\* classifyTurnRetrievalPlan.
LimitOf(q) ==
  CASE q.plan = "none" -> 0
    [] q.plan = "full" \/ (q.plan # "none" /\ q.limit > 0) -> AtLeast(1, Asked(q))
    [] q.plan = "goal" /\ q.limit = 0 -> AtLeast(3, AtMost(4, Asked(q)))
    [] q.plan = "status" /\ q.limit = 0 -> AtLeast(1, AtMost(2, Asked(q)))

RecentLimit(profile) ==
  CASE profile = "conservative" -> 2 [] profile = "default" -> 3 [] profile = "document-heavy" -> 4

-----------------------------------------------------------------------------
(* Recent turns and the recall's keys *)

\* listRecentTurns: lines of the user that come soon after each other are one
\* turn, under the id of the first.  (While store holds at most the 4 * limit
\* events the query takes.)
RecentIds(limit) ==
  LET begins == Filter(store, {i \in DOMAIN store : store[i].begins})
  IN  [i \in DOMAIN Latest(begins, limit) |-> Latest(begins, limit)[i].id]

\* The loads of a request: the digest, working memory (its version, and of its view the
\* goal and the first constraint), and the ids of the recent turns.
Loaded(q) ==
  LET view == IF memory.version = 0 THEN NothingKnown ELSE ViewOf(memory.state)
  IN  << <<digest>>,
         <<memory.version, view.goal, Earliest(view.items["constraints"], 1)>>,
         <<RecentIds(RecentLimit(q.profile))>> >>

NothingLoaded == << << >>, << >>, << >> >>

\* buildRecallCacheKey.
KeyOf(q, loads, text) ==
  [text |-> text, mode |-> q.plan, limit |-> LimitOf(q), digest |-> loads[1],
   version |-> loads[2][1], recent |-> loads[3]]

\* selectRetrieveQuery: the message with its whitespace squeezed, the goal and the first
\* constraint that working memory knows.  (Those of the stable state are of the digest.)
Query(q, loads) == IF q.plan = "none" THEN << >> ELSE <<q.squeezed, loads[2][2], loads[2][3]>>

ResolvedKey(q, loads) == KeyOf(q, loads, <<q.message, Query(q, loads)>>)
RecallKey(q, loads) == KeyOf(q, loads, Query(q, loads))

-----------------------------------------------------------------------------
(* BoundedTtlCache.  An entry knows what is left of its life, and the age of *)
(* the retrieval it stands for.  Expired entries are gone with the tick: get *)
(* does not return them and set purges them before it counts.                *)

Entries(cache, key) == {i \in DOMAIN cache : cache[i].key = key}

AgeIn(cache, key) == cache[CHOOSE i \in Entries(cache, key) : TRUE].age

\* Mutant: over the cap nothing is evicted.
PutUnbounded(cache, key, age) ==
  Push(Without(cache, Entries(cache, key)), [key |-> key, left |-> TTL, age |-> age])

\* set: written last, the least recently written entries are evicted.
Put(cache, key, age) ==
  LET written == Push(Without(cache, Entries(cache, key)), [key |-> key, left |-> TTL, age |-> age])
  IN  Without(written, Least(DOMAIN written, Size(written) - MaxEntries))

\* Mutant: an entry that is read lives on.
AfterGetSliding(cache, key) ==
  [i \in DOMAIN cache |-> IF cache[i].key = key THEN [cache[i] EXCEPT !.left = TTL] ELSE cache[i]]

\* get: leaves the entry, and its life, as they are.
AfterGet(cache, key) == cache

OldestAge == 2 * TTL
Older(cache) ==
  LET aged == [i \in DOMAIN cache |-> [cache[i] EXCEPT !.left = @ - 1, !.age = AtMost(OldestAge, @ + 1)]]
  IN  Filter(aged, {i \in DOMAIN aged : aged[i].left > 0})

-----------------------------------------------------------------------------
(* A request *)

IdleSession == [phase |-> "idle", q |-> NoRequest, turn |-> 0, key |-> <<>>, age |-> 0, part |-> 0]
NoUpdate == [phase |-> "idle", job |-> <<>>, seen |-> << >>, lost |-> {}, version |-> 0]

Started(q) ==
  [IdleSession EXCEPT !.phase = "loading", !.q = q, !.turn = IF q.turn THEN turns + 1 ELSE 0,
                      !.key = NothingLoaded]

Begin(r, q) ==
  /\ session[r].phase = "idle"
  /\ q.turn => turns < MaxTurns
  /\ turns' = IF q.turn THEN turns + 1 ELSE turns
  /\ session' = [session EXCEPT ![r] = Started(q)]
  /\ UNCHANGED <<data, digest, caches, queues, update>>

\* DefaultRecallPolicy.resolve: three queries, in whatever order they are answered...
Load(r, n) ==
  /\ session[r].phase = "loading" /\ session[r].key[n] = << >>
  /\ session' = [session EXCEPT ![r].key[n] = Loaded(session[r].q)[n]]
  /\ UNCHANGED <<data, digest, caches, queues, update, turns>>

\* ... then the caches.  A recall that was cached for one query is cached again under
\* the other's key, and lives a full TTL there.
Resolve(r) ==
  LET s   == session[r]
      q   == s.q
      key == <<ResolvedKey(q, s.key), RecallKey(q, s.key)>>
      known(age) == session' = [session EXCEPT ![r] = [s EXCEPT !.phase = "known", !.key = <<>>, !.age = age]]
  IN  /\ s.phase = "loading" /\ \A n \in 1..3 : s.key[n] # << >>
      /\ \/ /\ Entries(resolved, key[1]) # {}
            /\ known(AgeIn(resolved, key[1]))
            /\ resolved' = AfterGet(resolved, key[1])
            /\ UNCHANGED recalled
         \/ /\ Entries(resolved, key[1]) = {} /\ q.plan = "none"
            /\ known(0)
            /\ resolved' = Put(resolved, key[1], 0)
            /\ UNCHANGED recalled
         \/ /\ Entries(resolved, key[1]) = {} /\ q.plan # "none"
            /\ Entries(recalled, key[2]) # {}
            /\ known(AgeIn(recalled, key[2]))
            /\ resolved' = Put(resolved, key[1], AgeIn(recalled, key[2]))
            /\ recalled' = AfterGet(recalled, key[2])
         \/ /\ Entries(resolved, key[1]) = {} /\ q.plan # "none"
            /\ Entries(recalled, key[2]) = {}
            /\ session' = [session EXCEPT ![r] = [s EXCEPT !.phase = "asking", !.key = key]]
            /\ UNCHANGED caches
      /\ UNCHANGED <<data, digest, queues, update, turns>>

\* The retrieval answers; both caches take it under the keys of the loads, which the
\* call had kept for that.
Retrieve(r) ==
  /\ session[r].phase = "asking"
  /\ recalled' = Put(recalled, session[r].key[2], 0)
  /\ resolved' = Put(resolved, session[r].key[1], 0)
  /\ session' = [session EXCEPT ![r].phase = "known", ![r].key = <<>>, ![r].age = 0]
  /\ UNCHANGED <<data, digest, queues, update, turns>>

Kept(q) == TierOf(q) # "ephemeral"

\* Events a turn leaves: its lines, or the document, then the reply.
Parts(q) == IF TierOf(q) = "documented" THEN 2 ELSE Len(q.says) + 1

\* Mutant: the jobs are queued before what was said is stored.
DutyQueueFirst(s) ==
  IF Kept(s.q) /\ s.part = 0 THEN "update"
  ELSE IF Kept(s.q) /\ s.part - 1 < Parts(s.q) THEN "write"
  ELSE IF Digests(s.q) THEN "digest" ELSE "none"

\* scheduleBackgroundTasks: the lines one by one, the update, the digest.
\* part counts what is done.
Duty(s) ==
  IF Kept(s.q) /\ s.part < Parts(s.q) THEN "write"
  ELSE IF Kept(s.q) /\ s.part = Parts(s.q) THEN "update"
  ELSE IF Digests(s.q) THEN "digest" ELSE "none"

Proceed(s) == IF Duty(s) = "none" THEN IdleSession ELSE [s EXCEPT !.phase = "background", !.key = <<>>, !.age = 0]

\* buildLayerStatus: what the recall holds, compared with the newest event.
AnswerStatus(r) ==
  /\ session[r].phase = "known" /\ ~session[r].q.turn
  /\ session' = [session EXCEPT ![r] = IdleSession]
  /\ UNCHANGED <<data, digest, caches, queues, update, turns>>

\* handleTurn: answered from the views or by the model; the background work begins.
AnswerTurn(r) ==
  /\ session[r].phase = "known" /\ session[r].q.turn
  /\ session' = [session EXCEPT ![r] = Proceed(@)]
  /\ UNCHANGED <<data, digest, caches, queues, update, turns>>

\* An event's row.  holds are the parts of turns whose text it has.
Row(id, type, key, begins, said, holds, uploaded) ==
  [id |-> id, type |-> type, key |-> key, begins |-> begins, holds |-> holds, uploaded |-> uploaded,
   text |-> said.text, says |-> said.says, role |-> said.role]

Held(events) == UNION {events[i].holds : i \in DOMAIN events}

\* What is held no more.
Lose == lost' = lost \cup (Held(store) \ Held(store'))

\* The n-th of the events turn leaves; 0 is its message as a document.
Part(q, turn, n) == <<turn, IF TierOf(q) = "documented" /\ n = 1 THEN 0 ELSE n>>

\* At the end, a line of the user joins the turn whose lines end store.
Joins(said) == said.role = "user" /\ gap <= Window

GapAfter(said) == IF said.role = "assistant" THEN Window + 1 ELSE IF gap <= Window THEN gap ELSE 0

\* upsertDocument: the row under a key, if there is one, keeps its id and its place, and
\* is given the new text.
Under(key) == {i \in DOMAIN store : store[i].key = key}

Rewritten(row, said, holds, uploaded) ==
  Row(row.id, row.type, row.key, row.begins, said,
      IF said.text = row.text THEN row.holds \cup holds ELSE holds, row.uploaded \/ uploaded)

Rewrite(key, said, holds, uploaded) ==
  /\ Under(key) # {}
  /\ store' = [i \in DOMAIN store |->
                 IF i \in Under(key) THEN Rewritten(store[i], said, holds, uploaded) ELSE store[i]]

\* persistTurnArtifacts, one event at a time: each is committed on its own.
Write(r) ==
  LET s     == session[r]
      q     == s.q
      id    == Part(q, s.turn, s.part + 1)
      last  == s.part + 1 = Parts(q)
      whole == [text |-> <<q.message, 1>>, says |-> UNION ToSet(q.says), role |-> "user"]
      line  == [text |-> <<q.message, s.part + 1>>, says |-> q.says[s.part + 1], role |-> "user"]
      reply == [text |-> NoText, says |-> {}, role |-> "assistant"]
      said  == IF last THEN reply ELSE line
  IN  /\ s.phase = "background" /\ Duty(s) = "write"
      /\ \/ /\ TierOf(q) = "documented" /\ ~last
            /\ \/ Rewrite(DocumentKey(q), whole, {id}, FALSE)
               \/ /\ Under(DocumentKey(q)) = {}
                  /\ store' = Append(store, Row(id, "document", DocumentKey(q), FALSE, whole, {id}, FALSE))
            /\ UNCHANGED gap
         \/ /\ TierOf(q) = "documented" => last
            /\ store' = Append(store, Row(id, "stream", NoKey, ~Joins(said), said, {id}, FALSE))
            /\ gap' = GapAfter(said)
      /\ Lose
      /\ session' = [session EXCEPT ![r] = Proceed([s EXCEPT !.part = @ + 1])]
      /\ UNCHANGED <<uploads, memory, digest, caches, queues, update, turns>>

RequestUpdate(r) ==
  LET s == session[r]
  IN  /\ s.phase = "background" /\ Duty(s) = "update"
      /\ jobs' = Append(jobs, [turn |-> s.turn, tries |-> 0,
                               parts |-> {Part(s.q, s.turn, n) : n \in 1..Parts(s.q)}])
      /\ session' = [session EXCEPT ![r] = Proceed([s EXCEPT !.part = @ + 1])]
      /\ UNCHANGED <<data, digest, caches, digests, update, turns>>

RequestDigest(r) ==
  /\ session[r].phase = "background" /\ Duty(session[r]) = "digest"
  /\ digests' = digests + 1
  /\ session' = [session EXCEPT ![r] = IdleSession]
  /\ UNCHANGED <<data, digest, caches, jobs, update, turns>>

\* A retrieval, a query or a model call fails, the last one twice if its answer
\* was empty: the request fails with it.
RequestFails(r) ==
  /\ session[r].phase \in {"loading", "asking", "known"}
  /\ session' = [session EXCEPT ![r] = IdleSession]
  /\ UNCHANGED <<data, digest, caches, queues, update, turns>>

\* A write or a queue fails: the rest of the background work is dropped, and
\* nobody is told.
BackgroundFails(r) ==
  /\ session[r].phase = "background"
  /\ session' = [session EXCEPT ![r] = IdleSession]
  /\ UNCHANGED <<data, digest, caches, queues, update, turns>>

\* The API process goes: its caches and its background work with it.
Restart ==
  /\ session' = [r \in Sessions |-> IdleSession]
  /\ resolved' = << >> /\ recalled' = << >>
  /\ UNCHANGED <<data, digest, queues, update, turns>>

-----------------------------------------------------------------------------
(* Events from elsewhere *)

\* Would lines at place p be apart from those of the turns before and after?
Apart(p) ==
  LET lines == {i \in DOMAIN store : i >= p /\ store[i].type = "stream"}
  IN  IF lines = {} THEN gap > Window ELSE store[CHOOSE i \in lines : \A j \in lines : i <= j].begins

\* /memory/events: a document under a key that is taken is written in its place, a line
\* under one is refused; what happened earlier (occurredAt) is stored behind what happened
\* since (apart from its neighbours: bound of the model).
Upload(h) ==
  LET row(begins) == Row(<<0, uploads + 1>>, h.type, h.key, begins, h, {}, TRUE)
      isNew == h.key = NoKey \/ Under(h.key) = {}
  IN  /\ uploads < MaxUploads
      /\ \/ h.type = "document" /\ Rewrite(h.key, h, {}, TRUE) /\ UNCHANGED gap
         \/ /\ isNew
            /\ store' = Append(store, row(h.type = "stream" /\ ~Joins(h)))
            /\ gap' = IF h.type = "stream" THEN GapAfter(h) ELSE gap
         \/ /\ isNew
            /\ \E p \in DOMAIN store : Apart(p) /\ store' = InsertAt(store, p, row(h.type = "stream"))
            /\ UNCHANGED gap
      /\ Lose
      /\ uploads' = uploads + 1
      /\ UNCHANGED <<memory, digest, session, caches, queues, update, turns>>

\* An uploaded event is classified and given a life; in the end it is deleted.
Expire ==
  /\ \E p \in DOMAIN store : store[p].uploaded /\ store' = RemoveAt(store, p)
  /\ Lose
  /\ UNCHANGED <<uploads, gap, memory, digest, session, caches, queues, update, turns>>

-----------------------------------------------------------------------------
(* Jobs *)

UpdateRead(w) ==
  /\ update[w].phase = "idle" /\ jobs # << >>
  /\ jobs' = Tail(jobs)
  /\ update' = [update EXCEPT ![w] = [NoUpdate EXCEPT !.phase = "events", !.job = Head(jobs),
                                                     !.seen = store, !.lost = lost]]
  /\ UNCHANGED <<data, digest, session, caches, digests, turns>>

\* The version its successor will have is read before the model is asked.
UpdateVersion(w) ==
  /\ update[w].phase = "events"
  /\ update' = [update EXCEPT ![w].phase = "version", ![w].version = memory.version]
  /\ UNCHANGED <<data, digest, session, caches, queues, turns>>

\* The write is unchecked, and replaces the state: nothing of the old one is kept.
UpdateWrite(w) ==
  LET took == Taken(update[w].seen)
      selected == Selected(took)
  IN  /\ update[w].phase = "version"
      /\ \E state \in Refinements(selected, Extracted(selected)) :
           memory' = [version |-> update[w].version + 1, state |-> state, took |-> took]
      /\ update' = [update EXCEPT ![w] = NoUpdate]
      /\ UNCHANGED <<store, lost, uploads, gap, digest, session, caches, queues, turns>>

\* A job that failed goes back to the queue while it has attempts left.
UpdateFails(w) ==
  LET u == update[w]
  IN  /\ u.phase # "idle"
      /\ jobs' = IF u.job.tries + 1 < Attempts THEN Append(jobs, [u.job EXCEPT !.tries = @ + 1]) ELSE jobs
      /\ update' = [update EXCEPT ![w] = NoUpdate]
      /\ UNCHANGED <<data, digest, session, caches, digests, turns>>

Digest ==
  /\ digests > 0 /\ digest < MaxDigests
  /\ digests' = digests - 1
  /\ digest' = digest + 1
  /\ UNCHANGED <<data, session, caches, jobs, update, turns>>

Tick ==
  /\ resolved' = Older(resolved)
  /\ recalled' = Older(recalled)
  /\ gap' = AtMost(Window + 1, gap + 1)
  /\ UNCHANGED <<store, lost, uploads, memory, digest, session, queues, update, turns>>

-----------------------------------------------------------------------------
Init ==
  /\ store = << >> /\ lost = {} /\ uploads = 0 /\ gap = Window + 1
  /\ digest = 0
  /\ memory = [version |-> 0, state |-> NothingKnown, took |-> << >>]
  /\ session = [r \in Sessions |-> IdleSession]
  /\ resolved = << >> /\ recalled = << >>
  /\ jobs = << >> /\ digests = 0
  /\ update = [w \in Workers |-> NoUpdate]
  /\ turns = 0

Serve(r) ==
  \/ \E q \in Requests : Begin(r, q)
  \/ \E n \in 1..3 : Load(r, n)
  \/ Resolve(r) \/ Retrieve(r) \/ AnswerStatus(r) \/ AnswerTurn(r)
  \/ Write(r) \/ RequestUpdate(r) \/ RequestDigest(r)
  \/ RequestFails(r) \/ BackgroundFails(r)

Work(w) == UpdateRead(w) \/ UpdateVersion(w) \/ UpdateWrite(w) \/ UpdateFails(w)

Next ==
  \/ \E r \in Sessions : Serve(r)
  \/ \E w \in Workers : Work(w)
  \/ \E h \in Uploads : Upload(h)
  \/ Expire \/ Digest \/ Tick \/ Restart

Spec == Init /\ [][Next]_vars

-----------------------------------------------------------------------------
(* Properties *)

\* Type invariant: versions and turns in their bounds, and neither cache
\* ever holds more than its capacity, or two entries under one key.
TypeOK ==
  /\ \A i \in DOMAIN store : store[i].id[1] \in 0..MaxTurns /\ store[i].role \in {"user", "assistant"}
  /\ lost \subseteq (1..MaxTurns) \X {0} /\ uploads \in 0..MaxUploads /\ gap \in 0..(Window + 1)
  /\ digest \in 0..MaxDigests /\ digests \in 0..MaxTurns
  /\ memory.version \in 0..MaxTurns
  /\ \A f \in Fields : LET items == memory.state.items[f]
                       IN  Size(items) <= CapOf(f) /\ Cardinality(Values(items)) = Size(items)
  /\ turns \in 0..MaxTurns
  /\ \A r \in Sessions : session[r].phase \in {"idle", "loading", "asking", "known", "background"}
  /\ \A w \in Workers : update[w].phase \in {"idle", "events", "version"}
  /\ \A cache \in {resolved, recalled} :
       /\ Size(cache) <= MaxEntries
       /\ \A i, j \in DOMAIN cache : cache[i].key = cache[j].key => i = j

\* A recall is cached twice, each time for a full TTL: whatever requests, turns,
\* digests and updates come in between, and however often its key is asked
\* for, what a request is answered from was retrieved less than two TTLs ago.
RecallIsRecent == \A r \in Sessions : session[r].age < 2 * TTL

\* A working-memory update sees the turn that asked for it: every line and the reply
\* were stored when it read, however many turns are in progress and whatever was
\* dropped or tried again before.  So was a message that is a document, unless its
\* row had by then been given another text under the same key, or had expired.
UpdateSeesItsTurn ==
  \A w \in Workers :
    update[w].phase # "idle" =>
      \A part \in update[w].job.parts :
        \/ part \in Held(update[w].seen)
        \/ part[2] = 0 /\ part \in update[w].lost

\* What the user wants is not overlooked, however many lines follow: the goal of a
\* snapshot is the last one stated in the events its update took, as they read then,
\* or the model's, whatever is stored, written over, inserted or deleted meanwhile
\* and whichever updates overlap.
GoalIsHeard ==
  LET took   == memory.took
      stated == {i \in DOMAIN took : took[i].role = "user" /\ "goal" \in took[i].says}
  IN  \A i \in stated : (\A j \in stated : j <= i) =>
        memory.state.goal \in {took[i].text} \cup ({p.goal : p \in Patches} \ {NoText})
=============================================================================
