------------------------------- MODULE DigestJobs -------------------------------
(***************************************************************************)
(* The digest queue of one scope: digest jobs and rebuild jobs under the   *)
(* scope's lock, BullMQ's attempts around them, the digests they publish,  *)
(* the collection of old digests, and what the API does meanwhile: events  *)
(* ingested, backfilled or uploaded again, facts forgotten.                *)
(*                                                                         *)
(* A content is an event and the version of its text; the facts a content  *)
(* gives are written as the content itself, so a snapshot's state is the   *)
(* set of contents folded into it.  How the pipeline folds them is the     *)
(* matter of DigestPipeline, and a run that outlives its lock of           *)
(* WorkerLock: here a run ends, or its worker dies, within its key's life. *)
(*                                                                         *)
(* clock counts the writes that stamp a row: every stamp is distinct.      *)
(***************************************************************************)
EXTENDS Integers, FiniteSets, FiniteSetsExt

CONSTANTS
  Streams, Documents,
  Occurred,       \* of some events: the occurredAt a caller may give, long ago
  DigestIds, RebuildIds,   \* the jobs that may be queued
  NoJob,
  Attempts,       \* attempts of a BullMQ job
  Take,           \* DIGEST_MAX_RECENT_EVENTS, and its first-run counterpart
  Chunk,          \* DIGEST_REBUILD_CHUNK_SIZE
  Lookback,       \* DIGEST_MAX_DAYS_LOOKBACK
  Retention,      \* DIGEST_RETENTION_DAYS
  MaxClock, MaxCrashes   \* bounds

Events == Streams \cup Documents
Jobs   == DigestIds \cup RebuildIds

ASSUME JobsAssumption ==
  /\ Streams \cap Documents = {} /\ DigestIds \cap RebuildIds = {}
  /\ NoJob \notin Jobs
  /\ DOMAIN Occurred \subseteq Events
  /\ \A e \in DOMAIN Occurred : Occurred[e] \in Int /\ Occurred[e] < 0
  /\ {Attempts, Take, Chunk} \subseteq Nat \ {0}
  /\ {Lookback, Retention, MaxClock, MaxCrashes} \subseteq Nat

VARIABLES
  clock,
  event,       \* MemoryEvent rows
  digests,     \* Digest rows, each with its snapshot until that is collected
  forgotten,   \* ForgottenFact rows
  unsuppressed,\* forgets committed whose source is not suppressed yet
  lock,        \* digest-lock:<scope>
  job,         \* the jobs of the queue
  run,         \* what the handler of an active job holds in memory
  gc,          \* the data_gc handler
  crashes

vars == <<clock, event, digests, forgotten, unsuppressed, lock, job, run, gc, crashes>>

Versions == 1..2
Contents == Events \X Versions
Text(e)  == <<e, event[e].version>>

NoEvent  == [stored |-> FALSE, at |-> 0, learned |-> 0, changed |-> 0, version |-> 1,
             suppressed |-> FALSE]
Stored   == {e \in Events : event[e].stored}

NoDigest == [at |-> 0, facts |-> {}, held |-> FALSE]
Latest(D) == IF D = {} THEN NoDigest ELSE CHOOSE d \in D : \A o \in D : o.at <= d.at
Snapshots == {d \in digests : d.held}
Published == Latest(Snapshots).facts

\* A batch entry: a content, and the later of its event's createdAt and updatedAt.
Stamp(e) == Max({event[e].at, event[e].changed})
Entry(e) == [content |-> Text(e), stamp |-> Stamp(e)]

NoRun == [pc |-> "none", base |-> NoDigest, prev |-> {}, batches |-> {}, known |-> {}]
NoGc  == [pc |-> "idle", old |-> {}, doomed |-> {}]

Init ==
  /\ clock = 0
  /\ event = [e \in Events |-> NoEvent]
  /\ digests = {} /\ forgotten = {} /\ unsuppressed = {}
  /\ lock = NoJob
  /\ job = [j \in Jobs |-> [status |-> "unused", tries |-> 0, full |-> FALSE]]
  /\ run = [j \in Jobs |-> NoRun]
  /\ gc = NoGc
  /\ crashes = 0

---------------------------------------------------------------------------
(* The API.                                                              *)

Tick == clock < MaxClock /\ clock' = clock + 1

\* createdAt is the caller's occurredAt when there is one; ingestedAt is now.
Ingest(e, backfill) ==
  /\ ~event[e].stored
  /\ backfill => e \in DOMAIN Occurred
  /\ Tick
  /\ event' = [event EXCEPT ![e] =
       [NoEvent EXCEPT !.stored = TRUE, !.learned = clock',
                       !.at = IF backfill THEN Occurred[e] ELSE clock']]
  /\ UNCHANGED <<digests, forgotten, unsuppressed, lock, job, run, gc, crashes>>

\* An upsert by key: the text and updatedAt, nothing else.
UploadAgain(e) ==
  /\ event[e].stored /\ event[e].version + 1 \in Versions
  /\ Tick
  /\ event' = [event EXCEPT ![e].version = @ + 1, ![e].changed = clock']
  /\ UNCHANGED <<digests, forgotten, unsuppressed, lock, job, run, gc, crashes>>

\* forgetFact's transaction: the key is recorded; only a note leaves the snapshot.
Forget(c) ==
  /\ c \in Published \ forgotten
  /\ forgotten' = forgotten \cup {c}
  /\ unsuppressed' = unsuppressed \cup {c[1]}
  /\ UNCHANGED <<clock, event, digests, lock, job, run, gc, crashes>>

\* After it, outside it: the fact's source event leaves every later query.
Suppress(e) ==
  /\ e \in unsuppressed
  /\ unsuppressed' = unsuppressed \ {e}
  /\ event' = [event EXCEPT ![e].suppressed = TRUE]
  /\ UNCHANGED <<clock, digests, forgotten, lock, job, run, gc, crashes>>

\* The API process dies in between.
LoseSuppression(e) ==
  /\ e \in unsuppressed
  /\ crashes < MaxCrashes
  /\ crashes' = crashes + 1
  /\ unsuppressed' = unsuppressed \ {e}
  /\ UNCHANGED <<clock, event, digests, forgotten, lock, job, run, gc>>

\* POST /memory/digest, /memory/digest/rebuild, or the runtime's own request.
Enqueue(j, full) ==
  /\ job[j].status = "unused"
  /\ full => j \in RebuildIds
  /\ job' = [job EXCEPT ![j] = [status |-> "waiting", tries |-> 0, full |-> full]]
  /\ UNCHANGED <<clock, event, digests, forgotten, unsuppressed, lock, run, gc, crashes>>

---------------------------------------------------------------------------
(* The worker: withDigestLock around the body of a job.                  *)

\* Mutant: a rebuild runs without the scope's lock.
MayEnterRebuild(j) == lock = NoJob \/ j \in RebuildIds

MayEnter(j) == lock = NoJob

Start(j) ==
  /\ job[j].status = "waiting"
  /\ MayEnter(j)
  /\ lock' = j
  /\ job' = [job EXCEPT ![j].status = "active", ![j].tries = @ + 1]
  /\ run' = [run EXCEPT ![j] = [NoRun EXCEPT !.pc = "base"]]
  /\ UNCHANGED <<clock, event, digests, forgotten, unsuppressed, gc, crashes>>

\* DigestAlreadyRunningError: the job is done, with nothing done.
Skip(j) ==
  /\ job[j].status = "waiting"
  /\ ~MayEnter(j)
  /\ job' = [job EXCEPT ![j].status = "skipped"]
  /\ UNCHANGED <<clock, event, digests, forgotten, unsuppressed, lock, run, gc, crashes>>

\* The latest digest and the latest snapshot, or the snapshot of the digest for a
\* rebuild; a full rebuild starts from none.  Between the two queries only a
\* collection moves, and never the latest digest (LatestHasState).
ReadBase(j) ==
  /\ run[j].pc = "base"
  /\ LET base == IF job[j].full THEN NoDigest ELSE Latest(digests)
         of   == IF j \in DigestIds THEN Latest(Snapshots)
                 ELSE Latest({d \in Snapshots : d.at = base.at})
     IN  run' = [run EXCEPT ![j].pc = "events", ![j].base = base, ![j].prev = of.facts]
  /\ UNCHANGED <<clock, event, digests, forgotten, unsuppressed, lock, job, gc, crashes>>

\* The k latest by createdAt.
Newest(S, k) == {e \in S : Cardinality({o \in S : event[o].at > event[e].at}) < k}

InWindow(e) ==
  \/ Lookback = 0
  \/ event[e].at >= clock - Lookback \/ event[e].learned >= clock - Lookback

\* What a digest job reads: the window's latest stream events and all its documents.
Window ==
  LET recent == {e \in Stored : InWindow(e) /\ ~event[e].suppressed}
  IN  Newest(recent \cap Streams, Take) \cup (recent \cap Documents)

\* What a rebuild reads: every event since its base, suppressed or not.
History(j) == {e \in Stored : run[j].base.at > 0 => event[e].at >= run[j].base.at}

\* In the order of createdAt, cut into chunks.
Chunks(S) ==
  LET place(e) == Cardinality({o \in S : event[o].at < event[e].at})
      chunks   == {place(e) \div Chunk : e \in S}
  IN  {[first |-> k, entries |-> {Entry(e) : e \in {e \in S : place(e) \div Chunk = k}}] :
         k \in chunks}

\* An empty range is an error: see Fail.
ReadEvents(j) ==
  /\ run[j].pc = "events"
  /\ j \in RebuildIds => History(j) # {}
  /\ run' = [run EXCEPT
       ![j].pc = IF j \in DigestIds THEN "forgotten" ELSE "fold",
       ![j].batches = IF j \in DigestIds
                      THEN {[first |-> 0, entries |-> {Entry(e) : e \in Window}]}
                      ELSE Chunks(History(j))]
  /\ UNCHANGED <<clock, event, digests, forgotten, unsuppressed, lock, job, gc, crashes>>

\* A rebuild does not read them.
ReadForgotten(j) ==
  /\ run[j].pc = "forgotten"
  /\ run' = [run EXCEPT ![j].pc = "fold", ![j].known = forgotten]
  /\ UNCHANGED <<clock, event, digests, forgotten, unsuppressed, lock, job, gc, crashes>>

Batch(r) == CHOOSE b \in r.batches : \A o \in r.batches : b.first <= o.first

\* The pipeline goes no further when nothing it was given is newer than the digest.
HasNew(r) == r.base.at = 0 \/ \E x \in Batch(r).entries : x.stamp > r.base.at

\* A document's facts are those of the version last folded.
Folded(prev, batch) ==
  {c \in prev : ~\E b \in batch : b[1] = c[1] /\ b[2] > c[2]} \cup batch

\* runDigestControlPipeline, as far as this module tells contents apart.
Merged(r) ==
  (IF HasNew(r) THEN Folded(r.prev, {x.content : x \in Batch(r).entries}) ELSE r.prev) \ r.known

\* The rebuild goes on from the digest it has just written; a digest job has one batch.
Publish(j) ==
  /\ run[j].pc = "fold"
  /\ Tick
  /\ LET new  == [at |-> clock', facts |-> Merged(run[j]), held |-> TRUE]
         rest == run[j].batches \ {Batch(run[j])}
     IN  /\ digests' = digests \cup {new}
         /\ run' = [run EXCEPT ![j].pc = IF rest = {} THEN "leave" ELSE "fold",
                               ![j].base = new, ![j].prev = new.facts, ![j].batches = rest]
  /\ UNCHANGED <<event, forgotten, unsuppressed, lock, job, gc, crashes>>

Released(j) == IF lock = j THEN NoJob ELSE lock

\* The body returned: the lock is released, then a digest job writes its log row.
Leave(j) ==
  /\ run[j].pc = "leave"
  /\ lock' = Released(j)
  /\ IF j \in DigestIds
     THEN run' = [run EXCEPT ![j].pc = "log"] /\ UNCHANGED job
     ELSE run' = [run EXCEPT ![j] = NoRun] /\ job' = [job EXCEPT ![j].status = "done"]
  /\ UNCHANGED <<clock, event, digests, forgotten, unsuppressed, gc, crashes>>

Log(j) ==
  /\ run[j].pc = "log"
  /\ job' = [job EXCEPT ![j].status = "done"]
  /\ run' = [run EXCEPT ![j] = NoRun]
  /\ UNCHANGED <<clock, event, digests, forgotten, unsuppressed, lock, gc, crashes>>

\* Mutant: a failed job is queued again for ever.
AfterFailureAlways(j) == "waiting"

\* Mutant: a failed job is left as it was.
AfterFailureNever(j) == "active"

AfterFailure(j) == IF job[j].tries < Attempts THEN "waiting" ELSE "failed"

\* An error of the model or the database, or no event in a rebuild's range; or of
\* the write of the log row, in the same try, when the digest is already published.
\* The row for the failure is written or not: the error goes to BullMQ either way.
Fail(j) ==
  /\ run[j].pc \notin {"none", "leave"}
  /\ lock' = Released(j)
  /\ job' = [job EXCEPT ![j].status = AfterFailure(j)]
  /\ run' = [run EXCEPT ![j] = NoRun]
  /\ UNCHANGED <<clock, event, digests, forgotten, unsuppressed, gc, crashes>>

\* The worker dies: its lock stays.  BullMQ finds the job stalled and queues it again.
Crash(j) ==
  /\ job[j].status = "active"
  /\ crashes < MaxCrashes
  /\ crashes' = crashes + 1
  /\ job' = [job EXCEPT ![j].status = "waiting", ![j].tries = @ - 1]
  /\ run' = [run EXCEPT ![j] = NoRun]
  /\ UNCHANGED <<clock, event, digests, forgotten, unsuppressed, lock, gc>>

\* The key of a dead worker's job reaches the end of its life.
LockExpires ==
  /\ lock # NoJob
  /\ run[lock].pc = "none"
  /\ lock' = NoJob
  /\ UNCHANGED <<clock, event, digests, forgotten, unsuppressed, job, run, gc, crashes>>

---------------------------------------------------------------------------
(* data_gc.                                                              *)

GcReadOld ==
  /\ gc.pc = "idle"
  /\ \E d \in digests : d.at < clock - Retention
  /\ gc' = [gc EXCEPT !.pc = "latest", !.old = {d.at : d \in {d \in digests : d.at < clock - Retention}}]
  /\ UNCHANGED <<clock, event, digests, forgotten, unsuppressed, lock, job, run, crashes>>

\* Mutant: every old digest is collected.
DoomedAll == gc.old

Doomed == gc.old \ {Latest(digests).at}

GcReadLatest ==
  /\ gc.pc = "latest"
  /\ gc' = [gc EXCEPT !.pc = IF Doomed = {} THEN "idle" ELSE "snapshots", !.doomed = Doomed]
  /\ UNCHANGED <<clock, event, digests, forgotten, unsuppressed, lock, job, run, crashes>>

GcSnapshots ==
  /\ gc.pc = "snapshots"
  /\ digests' = {IF d.at \in gc.doomed THEN [at |-> d.at, facts |-> {}, held |-> FALSE] ELSE d : d \in digests}
  /\ gc' = [gc EXCEPT !.pc = "rows"]
  /\ UNCHANGED <<clock, event, forgotten, unsuppressed, lock, job, run, crashes>>

GcRows ==
  /\ gc.pc = "rows"
  /\ digests' = {d \in digests : d.at \notin gc.doomed}
  /\ gc' = NoGc
  /\ UNCHANGED <<clock, event, forgotten, unsuppressed, lock, job, run, crashes>>

\* It throws, or its worker dies, between two of its statements.
GcStops ==
  /\ gc.pc # "idle"
  /\ gc' = NoGc
  /\ UNCHANGED <<clock, event, digests, forgotten, unsuppressed, lock, job, run, crashes>>

---------------------------------------------------------------------------
Api ==
  \/ \E e \in Events, b \in BOOLEAN : Ingest(e, b)
  \/ \E e \in Documents : UploadAgain(e)
  \/ \E c \in Contents : Forget(c)
  \/ \E e \in Events : Suppress(e) \/ LoseSuppression(e)
  \/ \E j \in Jobs, f \in BOOLEAN : Enqueue(j, f)

Read(j) == ReadBase(j) \/ ReadEvents(j) \/ ReadForgotten(j)

Work(j) == Start(j) \/ Skip(j) \/ Read(j) \/ Publish(j) \/ Leave(j) \/ Log(j)

Gc == GcReadOld \/ GcReadLatest \/ GcSnapshots \/ GcRows \/ GcStops

Next ==
  \/ Api
  \/ \E j \in Jobs : Work(j) \/ Crash(j) \/ Fail(j)
  \/ LockExpires
  \/ Gc

\* A worker goes on with the jobs of the queue: what it started it finishes or fails.
Proceed(j) == Work(j) \/ Fail(j)

Fairness == \A j \in Jobs : WF_vars(Proceed(j))

Spec == Init /\ [][Next]_vars /\ Fairness

---------------------------------------------------------------------------
\* Type invariant: rows, jobs and handlers keep their shape; no job takes more tries
\* than its attempts, and no digest is stamped ahead of the clock.
TypeOK ==
  /\ clock \in 0..MaxClock
  /\ event \in [Events -> [stored : BOOLEAN, at : Int, learned : Nat, changed : Nat,
                           version : Versions, suppressed : BOOLEAN]]
  /\ \A d \in digests : d.at \in 1..clock /\ d.facts \subseteq Contents /\ d.held \in BOOLEAN
  /\ forgotten \subseteq Contents
  /\ unsuppressed \subseteq Events
  /\ lock \in Jobs \cup {NoJob}
  /\ job \in [Jobs -> [status : {"unused", "waiting", "active", "done", "skipped", "failed"},
                       tries : 0..Attempts, full : BOOLEAN]]
  /\ \A j \in Jobs : run[j].pc \in {"none", "base", "events", "forgotten", "fold", "leave", "log"}
  /\ gc.pc \in {"idle", "latest", "snapshots", "rows"}
  /\ crashes \in 0..MaxCrashes

\* The latest digest always has its snapshot: a digest and its state are written
\* together, and a collection that overlaps runs, or dies half way, leaves them.
LatestHasState == digests # {} => Latest(digests).held

\* Publishing never loses what the scope's state held, unless it was forgotten, its
\* document was uploaded again, or a full rebuild starts over: no run goes on from a
\* state that another run has meanwhile replaced.  And a digest job never brings back
\* a fact it knew to be forgotten, even one whose event a crash left unsuppressed.
PublishKeeps ==
  [][\A j \in Jobs :
       Publish(j) =>
         /\ \/ job[j].full /\ run[j].base.at = 0
            \/ \A c \in Published \ forgotten :
                 \E d \in Latest(digests').facts : d[1] = c[1] /\ d[2] >= c[2]
         /\ run[j].known \cap Latest(digests').facts = {}]_vars

\* Every job is finished, whatever fails or dies on the way.
JobsSettle ==
  \A j \in Jobs : job[j].status = "waiting" ~> job[j].status \in {"done", "skipped", "failed"}

---------------------------------------------------------------------------
(* What a comment says and the code does not do.                         *)

\* "That is exactly what occurredAt exists for, and ... the combination has to
\* work": history backfilled since the latest digest, which the window admits
\* by ingestedAt, is folded by the run that reads it (unless it is forgotten).
BackfillIsFolded ==
  [][\A j \in DigestIds, e \in Events :
       Publish(j) /\ Entry(e) \in Batch(run[j]).entries /\ event[e].learned > run[j].base.at =>
         Text(e) \in Latest(digests').facts \cup run[j].known]_vars
=============================================================================
