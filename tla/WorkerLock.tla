------------------------------- MODULE WorkerLock -------------------------------
(***************************************************************************)
(* withDigestLock: the worker's digest and rebuild jobs of one scope share *)
(* a Redis key, set with NX and a time to live, and released by a script   *)
(* that deletes the key only if it still holds the job's own token.        *)
(*                                                                         *)
(* A slot of the worker runs one job at a time, so its name stands for the *)
(* job's token.  Nothing stops a job that outlives its key.                *)
(***************************************************************************)
EXTENDS Integers

CONSTANTS
  Scopes,
  Slots,       \* job slots of all worker processes
  DigestTtl,   \* 300 s
  RebuildTtl,  \* 900 s
  NoScope,
  NoSlot

ASSUME LockAssumption ==
  /\ NoSlot \notin Slots
  /\ NoScope \notin Scopes
  /\ DigestTtl \in Nat \ {0}
  /\ RebuildTtl \in Nat \ {0}

Terms == {DigestTtl, RebuildTtl}

VARIABLES
  key,    \* of each scope: the token under digest-lock:<scope>, its remaining life
  job     \* of each slot: its phase, its scope, what is left of its key's life

vars == <<key, job>>

NoKey == [by |-> NoSlot, left |-> 0]
Idle  == [phase |-> "idle", scope |-> NoScope, left |-> 0]

\* Mutant: the key is set without NX.
AbsentUnchecked(s) == TRUE

\* Redis does not return an expired key.
Absent(s) == key[s].left = 0

\* SET NX EX succeeds and the job's body starts.
Acquire(w, s, ttl) ==
  /\ job[w].phase = "idle"
  /\ Absent(s)
  /\ key' = [key EXCEPT ![s] = [by |-> w, left |-> ttl]]
  /\ job' = [job EXCEPT ![w] = [phase |-> "running", scope |-> s, left |-> ttl]]

\* SET NX finds a key: the job is skipped.
Contend(w, s) ==
  /\ job[w].phase = "idle"
  /\ ~Absent(s)
  /\ job' = [job EXCEPT ![w] = [phase |-> "skipped", scope |-> s, left |-> 0]]
  /\ UNCHANGED key

\* It is reported as done, and not queued again.
ReportSkipped(w) ==
  /\ job[w].phase = "skipped"
  /\ job' = [job EXCEPT ![w] = Idle]
  /\ UNCHANGED key

\* Mutant: the release deletes whatever key is there.
OwnKeyAny(w) == ~Absent(job[w].scope)

\* The release script's comparison.
OwnKey(w) == ~Absent(job[w].scope) /\ key[job[w].scope].by = w

\* The body returned or threw; the finally block releases.
Finish(w) ==
  /\ job[w].phase = "running"
  /\ key' = IF OwnKey(w) THEN [key EXCEPT ![job[w].scope] = NoKey] ELSE key
  /\ job' = [job EXCEPT ![w] = Idle]

\* The worker dies: its key is left to its time to live.
Crash(w) ==
  /\ job[w].phase = "running"
  /\ job' = [job EXCEPT ![w] = Idle]
  /\ UNCHANGED key

\* Mutant: a key is set without its time to live.
LessForever(n) == n

Less(n) == IF n > 0 THEN n - 1 ELSE 0

Tick ==
  /\ key' = [s \in Scopes |-> [by |-> key[s].by, left |-> Less(key[s].left)]]
  /\ job' = [w \in Slots |-> [phase |-> job[w].phase, scope |-> job[w].scope, left |-> Less(job[w].left)]]

Init ==
  /\ key = [s \in Scopes |-> NoKey]
  /\ job = [w \in Slots |-> Idle]

Next ==
  \/ \E w \in Slots, s \in Scopes : Contend(w, s) \/ \E ttl \in Terms : Acquire(w, s, ttl)
  \/ \E w \in Slots : ReportSkipped(w) \/ Finish(w) \/ Crash(w)
  \/ Tick

Spec == Init /\ [][Next]_vars

\* Time passes, jobs end, and a scope that goes on being queued is taken
\* whenever it can be.
FairSpec ==
  /\ Spec
  /\ WF_vars(Tick)
  /\ \A w \in Slots : WF_vars(Finish(w)) /\ WF_vars(ReportSkipped(w))
  /\ \A s \in Scopes : SF_vars(\E w \in Slots, ttl \in Terms : Acquire(w, s, ttl))

-----------------------------------------------------------------------------
(* Properties *)

Lives == 0..DigestTtl \cup 0..RebuildTtl

\* Type invariant.
TypeOK ==
  /\ key \in [Scopes -> [by : Slots \cup {NoSlot}, left : Lives]]
  /\ job \in [Slots -> [phase : {"idle", "running", "skipped"},
                        scope : Scopes \cup {NoScope}, left : Lives]]
  /\ \A w \in Slots : job[w].phase = "running" => job[w].scope \in Scopes

\* A job of scope s runs, within the time to live of its key.
InTerm(w, s) == job[w].phase = "running" /\ job[w].scope = s /\ job[w].left > 0

\* "The two can never run concurrently for one scope": jobs that keep within
\* their time to live exclude one another, also after the late release of a
\* job that did not.
ExclusiveInTerm ==
  \A s \in Scopes, w, v \in Slots : InTerm(w, s) /\ InTerm(v, s) => w = v

\* The scope each slot's job is in.
Inside == [w \in Slots |-> IF job[w].phase = "running" THEN job[w].scope ELSE NoScope]

\* The keys are leases: nobody but its job takes a live key away.
Promise == INSTANCE Lease WITH Runs <- Slots, NoRun <- NoSlot, lease <- key, inside <- Inside

\* Every step of the worker's jobs on the lock is a step of a lease: a live key is only
\* ever given up by the job that set it, or lost to its own expiry (the worker's
\* withDigestLock).
IsLease == Promise!Spec

\* A worker that dies does not strand its scope: as long as jobs are queued for
\* it, one of them runs.
StrandedScopeRecovers ==
  \A s \in Scopes :
    (\A w \in Slots : job[w].scope # s \/ job[w].phase # "running") ~> (\E w \in Slots : InTerm(w, s))
=============================================================================
