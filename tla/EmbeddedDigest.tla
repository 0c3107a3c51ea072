------------------------------ MODULE EmbeddedDigest ------------------------------
(***************************************************************************)
(* Which events of a scope the embedded backend still has to digest, and   *)
(* what a digest run does about them.  Nothing marks an event as digested: *)
(* an event is pending while it is newer than the newest Digest row, by    *)
(* either of its clocks.  Processes share the SQLite file; they ingest,    *)
(* write first notes and run digests, each SQL statement a step.           *)
(*                                                                         *)
(* EmbeddedLock serializes the runs; here the lock is one variable, freed  *)
(* by its holder or, after a crash, by its expiry.                         *)
(***************************************************************************)
EXTENDS Integers, FiniteSets, FiniteSetsExt

CONSTANTS
  Events,
  Processes,
  NoProcess,
  Start,          \* the wall clock's first millisecond
  MaxTime,        \* bound: the wall clock's last millisecond
  MaxForced,      \* bound: digests demanded while nothing is pending
  RecentMax,      \* DIGEST_CONFIG.maxRecentEvents (50)
  FirstRunMax,    \* DIGEST_CONFIG.firstRunMaxEvents (200)
  MaxFailures,    \* MAX_CONSECUTIVE_STAGE2_FAILURES (3)
  Projectable     \* events (decisions, constraints...) a summary can be projected from

ASSUME DigestAssumption ==
  /\ NoProcess \notin Processes
  /\ Start \in Nat \ {0, 1}
  /\ MaxTime \in Nat
  /\ MaxForced \in Nat
  /\ RecentMax \in Nat \ {0}
  /\ FirstRunMax \in Nat \ {0}
  /\ MaxFailures \in Nat \ {0}
  /\ Projectable \subseteq Events

VARIABLES
  now,       \* Date.now()
  last,      \* of each process: the last value of its monotonic clock nowMs
  stored,    \* the MemoryEvent rows: event -> createdAt, ingestedAt
  writing,   \* of each process: the event it has stamped and not yet inserted
  latest,    \* the newest Digest row and its snapshot: createdAt (0: none), what is folded in
  failures,  \* DigestFailure.count (0: no row)
  lock,      \* the process that has the DigestLock row
  run,       \* of each process: its digest run
  forced,    \* digests demanded so far while nothing was pending
  misses     \* runs since the last written digest whose stage 2 distilled nothing and was counted

vars == <<now, last, stored, writing, latest, failures, lock, run, forced, misses>>

Stamps == [created : Nat, ingested : Nat]

\* The two clocks, for an event or a digest written by p.
NowMs(p) == IF now > last[p] THEN now ELSE last[p] + 1

Newer(e, since) == stored[e].created > since \/ stored[e].ingested > since

Pending == {e \in DOMAIN stored : Newer(e, latest.at)}

-----------------------------------------------------------------------------
(* Ingestion and the first note *)

NotWriting == [event |-> {}, at |-> 0, created |-> 0]

\* p has no statement under way; its run waits in the given phase.
At(p, phase) == run[p].phase = phase /\ writing[p] = NotWriting

\* p can serve a tool call: it is not between two reads of its run either.
CanServe(p) == run[p].phase # "loaded" /\ writing[p] = NotWriting

\* remember(consolidate) or capture: the INSERT's values are computed ...
StampEvent(p, e) ==
  /\ CanServe(p)
  /\ e \notin DOMAIN stored
  /\ \A q \in Processes : e \notin writing[q].event
  /\ writing' = [writing EXCEPT ![p] = [event |-> {e}, at |-> now, created |-> NowMs(p)]]
  /\ last' = [last EXCEPT ![p] = NowMs(p)]
  /\ UNCHANGED <<now, stored, latest, failures, lock, run, forced, misses>>

\* ... and it gets the database's write lock, perhaps later.
StoreEvent(p) ==
  /\ \E e \in writing[p].event, t \in writing[p].at..now :
       stored' = [x \in DOMAIN stored \cup {e} |->
                    IF x = e THEN [created |-> writing[p].created, ingested |-> t] ELSE stored[x]]
  /\ writing' = [writing EXCEPT ![p] = NotWriting]
  /\ UNCHANGED <<now, last, latest, failures, lock, run, forced, misses>>

\* Mutant: the placeholder is stamped with the time it is written.
PlaceholderCreatedNow(t) == t

\* placeholderDigestCreatedAt: just before the earliest event.
PlaceholderCreatedAt(t) ==
  Min({t} \cup {stored[e].ingested - 1 : e \in DOMAIN stored})

\* The first note of a scope without a snapshot writes a placeholder digest.
FirstNote(p) ==
  /\ CanServe(p)
  /\ latest.at = 0
  /\ latest' = [at |-> PlaceholderCreatedAt(NowMs(p)), folded |-> {}]
  /\ last' = [last EXCEPT ![p] = NowMs(p)]
  /\ UNCHANGED <<now, stored, writing, failures, lock, run, forced, misses>>

-----------------------------------------------------------------------------
(* A digest run *)

Idle == [phase |-> "idle", since |-> 0, base |-> {}, window |-> {}, pending |-> {},
         read |-> {}, result |-> "none"]

\* The newest n events.
Newest(n) ==
  {W \in SUBSET DOMAIN stored :
     /\ Cardinality(W) = Min({n, Cardinality(DOMAIN stored)})
     /\ \A x \in W, y \in DOMAIN stored \ W : stored[x].created >= stored[y].created}

\* Mutant: the run does not ask for the lock.
LockIgnored == TRUE

LockFree == lock = NoProcess

\* The triggers (threshold, startup, explicit) want pending events;
\* runScopeDigest does not ask.
Acquire(p) ==
  /\ At(p, "idle")
  /\ LockFree
  /\ \/ Pending # {} /\ UNCHANGED forced
     \/ Pending = {} /\ forced < MaxForced /\ forced' = forced + 1
  /\ lock' = p
  /\ run' = [run EXCEPT ![p] = [Idle EXCEPT !.phase = "locked"]]
  /\ UNCHANGED <<now, last, stored, writing, latest, failures, misses>>

\* The newest digest and its state, and the newest events of the lookback.
Load(p) ==
  /\ At(p, "locked")
  /\ \E W \in Newest(IF latest.at = 0 THEN FirstRunMax ELSE RecentMax) :
       run' = [run EXCEPT ![p] = [Idle EXCEPT !.phase = "loaded", !.since = latest.at,
                                              !.base = latest.folded, !.window = W]]
  /\ UNCHANGED <<now, last, stored, writing, latest, failures, lock, forced, misses>>

\* pendingEventIds: "what this digest is expected to distill".
ReadPending(p) ==
  /\ At(p, "loaded")
  /\ run' = [run EXCEPT ![p] = [run[p] EXCEPT !.phase = "ready", !.pending = Pending]]
  /\ UNCHANGED <<now, last, stored, writing, latest, failures, lock, forced, misses>>

\* The pipeline looks at createdAt alone.
HasNewEvents(p) ==
  run[p].since = 0 \/ \E e \in run[p].window : stored[e].created > run[p].since

\* isPartialRun, and the run that gave up.
IsPartial(pending, chosen, degraded) ==
  degraded \in {"chunks_failed", "gave_up"} \/ ~(pending \subseteq chosen)

\* The pipeline's answer: what it selected, what of it stage 2 read.
Answered(p, chosen, read, degraded) ==
  run' = [run EXCEPT ![p] =
            [Idle EXCEPT !.phase = "answered", !.base = run[p].base, !.pending = run[p].pending, !.read = read,
                         !.result = IF IsPartial(run[p].pending, chosen, degraded) THEN "partial" ELSE "complete"]]

\* no_new_events_since_last_digest: nothing is selected.
NothingNew(p) ==
  /\ At(p, "ready")
  /\ ~HasNewEvents(p)
  /\ Answered(p, {}, {}, "no")
  /\ UNCHANGED <<now, last, stored, writing, latest, failures, lock, forced, misses>>

\* What selection may keep of the window: at least an event, if there is one.
Selections(p) == {S \in SUBSET run[p].window : S = {} => run[p].window = {}}

\* Has stage 2 a previous digest, or a state, to carry forward?
HasFallback(p, chosen) == run[p].since > 0 \/ chosen \cap Projectable # {}

\* Stage 2 reads what was selected in chunks (here: an event each) and skips
\* those the model does not answer usably.
Distill(p) ==
  /\ At(p, "ready")
  /\ HasNewEvents(p)
  /\ \E chosen \in Selections(p) : \E read \in SUBSET chosen :
       /\ read # {} \/ chosen = {}
       /\ Answered(p, chosen, read, IF read = chosen THEN "no" ELSE "chunks_failed")
  /\ UNCHANGED <<now, last, stored, writing, latest, failures, lock, forced, misses>>

\* All of several chunks failed, and the last one, tried again, is parsed but
\* contradicts the protected state: the run is degraded as any such pass is.
RetryContradicts(p) ==
  /\ At(p, "ready")
  /\ HasNewEvents(p)
  /\ \E chosen \in Selections(p) : \E e \in chosen :
       /\ Cardinality(chosen) > 1
       /\ HasFallback(p, chosen)
       /\ Answered(p, chosen, {e}, "no")
  /\ UNCHANGED <<now, last, stored, writing, latest, failures, lock, forced, misses>>

\* One more run that had events to read (those it chose) and distilled nothing.
OneMore(runs, chosen) == IF chosen = {} THEN runs ELSE Min({runs + 1, MaxFailures})

\* Mutant: there is no ceiling.
OneMoreFailureAlways == TRUE

\* Mutant: the ceiling is one run late.
OneMoreFailureLate == failures < MaxFailures

\* One more failure keeps the run below the ceiling.
OneMoreFailure == failures + 1 < MaxFailures

Ended(p) == run' = [run EXCEPT ![p] = [Idle EXCEPT !.phase = "ended"]]

\* recordStage2Failure: one statement, which creates the row or counts up.
RecordFailure == failures' = failures + 1

\* No reply is parseable.  Below the ceiling the run fails and is counted; at
\* the ceiling the previous digest is written again.
DistillNothing(p) ==
  /\ At(p, "ready")
  /\ HasNewEvents(p)
  /\ \E chosen \in Selections(p) :
       /\ HasFallback(p, chosen)
       /\ \/ /\ OneMoreFailure
             /\ RecordFailure
             /\ misses' = OneMore(misses, chosen)
             /\ Ended(p)
          \/ /\ ~OneMoreFailure
             /\ Answered(p, chosen, {}, "gave_up")
             /\ UNCHANGED <<failures, misses>>
  /\ UNCHANGED <<now, last, stored, writing, latest, lock, forced>>

\* No reply is parseable, and there is nothing to carry forward: stage 2
\* throws, and the failure is not counted.
NothingToFallBackOn(p) ==
  /\ At(p, "ready")
  /\ HasNewEvents(p)
  /\ \E chosen \in Selections(p) : ~HasFallback(p, chosen)
  /\ Ended(p)
  /\ UNCHANGED <<now, last, stored, writing, latest, failures, lock, forced, misses>>

\* The model call fails: the run throws, uncounted.
ModelFails(p) ==
  /\ At(p, "ready")
  /\ HasNewEvents(p)
  /\ Ended(p)
  /\ UNCHANGED <<now, last, stored, writing, latest, failures, lock, forced, misses>>

\* createDigestWithSnapshot: the row is the newest if its stamp is.
Write(p) ==
  LET t    == NowMs(p)
      mine == [at |-> t, folded |-> run[p].base \cup run[p].read]
  IN  /\ At(p, "answered")
      /\ last' = [last EXCEPT ![p] = t]
      /\ \/ t >= latest.at /\ latest' = mine
         \/ t <= latest.at /\ latest' = latest
      /\ run' = [run EXCEPT ![p] = [run[p] EXCEPT !.phase = "written"]]
      /\ misses' = 0
      /\ UNCHANGED <<now, stored, writing, failures, lock, forced>>

\* The DigestFailure row is deleted, after the transaction.
ClearFailures(p) ==
  /\ At(p, "written")
  /\ failures' = 0
  /\ run' = [run EXCEPT ![p] = [run[p] EXCEPT !.phase = "ended"]]
  /\ UNCHANGED <<now, last, stored, writing, latest, lock, forced, misses>>

\* The finally block; the caller is told "ran", "ran, partial" or "failed".
Release(p) ==
  /\ At(p, "ended")
  /\ lock' = NoProcess
  /\ run' = [run EXCEPT ![p] = Idle]
  /\ UNCHANGED <<now, last, stored, writing, latest, failures, forced, misses>>

-----------------------------------------------------------------------------

\* The process dies and starts again.
Crash(p) ==
  /\ run[p] # Idle \/ writing[p] # NotWriting
  /\ run' = [run EXCEPT ![p] = Idle]
  /\ writing' = [writing EXCEPT ![p] = NotWriting]
  /\ last' = [last EXCEPT ![p] = 0]
  /\ UNCHANGED <<now, stored, latest, failures, lock, forced, misses>>

\* The row of a dead run is reaped.
LockExpires ==
  /\ \E p \in Processes : lock = p /\ run[p].phase = "idle"
  /\ lock' = NoProcess
  /\ UNCHANGED <<now, last, stored, writing, latest, failures, run, forced, misses>>

\* Bound of the model, but time catches up with every stamp.
Tick ==
  /\ \E t \in {MaxTime, latest.at} \cup {stored[e].created : e \in DOMAIN stored} : now < t
  /\ now' = now + 1
  /\ UNCHANGED <<last, stored, writing, latest, failures, lock, run, forced, misses>>

Init ==
  /\ now = Start
  /\ last = [p \in Processes |-> 0]
  /\ stored = [e \in {} |-> [created |-> 0, ingested |-> 0]]
  /\ writing = [p \in Processes |-> NotWriting]
  /\ latest = [at |-> 0, folded |-> {}]
  /\ failures = 0
  /\ lock = NoProcess
  /\ run = [p \in Processes |-> Idle]
  /\ forced = 0
  /\ misses = 0

Prepare(p) == Load(p) \/ ReadPending(p)

\* The model replies, whatever its replies are worth.
Reply(p) ==
  NothingNew(p) \/ Distill(p) \/ RetryContradicts(p) \/ DistillNothing(p) \/ NothingToFallBackOn(p)

Conclude(p) == Write(p) \/ ClearFailures(p) \/ Release(p)

Next ==
  \/ \E p \in Processes :
       \/ \E e \in Events : StampEvent(p, e)
       \/ StoreEvent(p) \/ FirstNote(p)
       \/ Acquire(p) \/ Prepare(p) \/ Reply(p) \/ ModelFails(p) \/ Conclude(p)
       \/ Crash(p)
  \/ LockExpires \/ Tick

Spec == Init /\ [][Next]_vars

-----------------------------------------------------------------------------
(* Properties *)

Phases == {"idle", "locked", "loaded", "ready", "answered", "written", "ended"}

\* Type invariant.
TypeOK ==
  /\ now \in Nat
  /\ last \in [Processes -> Nat]
  /\ DOMAIN stored \subseteq Events /\ stored \in [DOMAIN stored -> Stamps]
  /\ writing \in [Processes -> [event : SUBSET Events, at : Nat, created : Nat]]
  /\ latest \in [at : Nat, folded : SUBSET Events]
  /\ failures \in 0..MaxFailures
  /\ lock \in Processes \cup {NoProcess}
  /\ run \in [Processes -> [phase : Phases, since : Nat, base : SUBSET Events, window : SUBSET Events,
                            pending : SUBSET Events, read : SUBSET Events,
                            result : {"none", "partial", "complete"}]]
  /\ forced \in 0..MaxForced
  /\ misses \in 0..MaxFailures

\* What is folded into the newest digest stays folded: a run builds on the
\* newest snapshot, and no other run or first note comes between.
FoldedStays == [][latest.folded \subseteq latest'.folded]_vars

\* A first note hides no event from the digest: what was pending is pending,
\* whatever the clocks of the processes say.
FirstNoteKeepsPending ==
  [][(\E p \in Processes : FirstNote(p)) => Pending \subseteq Pending']_vars

\* Of the runs whose stage 2 distills nothing though there is a digest or a
\* state to carry forward, there are never MaxFailures without a digest:
\* whoever runs them, wherever a process dies, and whatever other runs fail
\* between them.  (A run with nothing to carry forward throws uncounted, as
\* often as it is tried: of all runs together MAX_CONSECUTIVE_STAGE2_FAILURES is
\* no ceiling.)
GivesUpInTime == misses < MaxFailures
=============================================================================
