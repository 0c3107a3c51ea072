----------------------------- MODULE DigestJobsProofs -----------------------------
(***************************************************************************)
(* Proofs about DigestJobs, for any events, jobs, attempts, limits and     *)
(* bounds.  The scope's lock lets one run at a time between its reads and  *)
(* its writes, and what it reads as the latest state is the latest state   *)
(* when it publishes, whatever the collection deletes meanwhile.           *)
(***************************************************************************)
EXTENDS DigestJobs, FiniteSetTheorems, TLAPS

-----------------------------------------------------------------------------
(* The least and the greatest of a set *)

\* A non-empty set of naturals has a least member.
LEMMA LeastOfNats ==
  ASSUME NEW S \in SUBSET Nat, S # {}
  PROVE  \E m \in S : \A n \in S : m <= n
<1> DEFINE T == {1..m : m \in S}
<1>1. T \subseteq FiniteSubsetsOf(Nat)
  BY FS_Interval DEF FiniteSubsetsOf
<1>2. T # {}
  OBVIOUS
<1>3. IsWellFoundedOn(StrictSubsetOrdering(Nat), FiniteSubsetsOf(Nat))
  BY FS_StrictSubsetOrderingWellFounded
<1> HIDE DEF T
<1>4. PICK x \in T : \A y \in T : ~ (<<y, x>> \in StrictSubsetOrdering(Nat))
  BY <1>1, <1>2, <1>3, WFMin
<1>5. PICK m \in S : x = 1..m
  BY DEF T
<1>6. ASSUME NEW n \in S, n < m
      PROVE  FALSE
  <2>1. m \in 1..m /\ m \notin 1..n /\ 1..n \subseteq 1..m
    BY <1>6
  <2>2. 1..n \in T /\ 1..n \in SUBSET Nat /\ 1..m \in SUBSET Nat
    BY DEF T
  <2>3. <<1..n, 1..m>> \in StrictSubsetOrdering(Nat)
    BY <2>1, <2>2 DEF StrictSubsetOrdering
  <2> QED
    BY <1>4, <1>5, <2>2, <2>3
<1> QED
  BY <1>6

Rows == [at : Nat, facts : SUBSET Contents, held : BOOLEAN]

\* d is the row of D that was stamped last.
Last(d, D) == d \in D /\ \A o \in D : o.at <= d.at

\* Among rows stamped up to now there is a last one, and Latest is such a row.
LEMMA LatestIsLast ==
  ASSUME NEW D \in SUBSET Rows, D # {}, NEW n \in Nat, \A d \in D : d.at <= n
  PROVE  Last(Latest(D), D)
<1>1. {n - d.at : d \in D} \in SUBSET Nat /\ {n - d.at : d \in D} # {}
  BY DEF Rows
<1>2. PICK m \in {n - d.at : d \in D} : \A k \in {n - d.at : d \in D} : m <= k
  BY <1>1, LeastOfNats
<1>3. PICK d \in D : m = n - d.at
  BY <1>2
<1>4. \A o \in D : n - d.at <= n - o.at
  BY <1>2, <1>3
<1>5. Last(d, D)
  BY <1>4 DEF Last, Rows
<1> QED
  BY <1>5 DEF Latest, Last

\* Where no two rows have one stamp, it is the only one.
LEMMA LastIsLatest ==
  ASSUME NEW D \in SUBSET Rows, NEW d, Last(d, D), \A o, p \in D : o.at = p.at => o = p
  PROVE  Latest(D) = d
<1>1. d.at \in Nat /\ \A o \in D : o.at \in Nat
  BY DEF Last, Rows
<1>2. \A o \in D : (\A p \in D : p.at <= o.at) => o = d
  BY <1>1 DEF Last
<1> QED
  BY <1>2 DEF Latest, Last

LEMMA MaxOfTwo ==
  ASSUME NEW m \in Int, NEW n \in Int
  PROVE  Max({m, n}) \in Int
<1>1. \E x \in {m, n} : \A y \in {m, n} : x >= y
  OBVIOUS
<1> QED
  BY <1>1 DEF Max

-----------------------------------------------------------------------------
(* Type correctness *)

Entries == [content : Contents, stamp : Int]
Pcs == {"none", "base", "events", "forgotten", "fold", "leave", "log"}
Runs ==
  [pc : Pcs, base : Rows, prev : SUBSET Contents,
   batches : SUBSET [first : Nat, entries : SUBSET Entries], known : SUBSET Contents]

JobRows == [status : {"unused", "waiting", "active", "done", "skipped", "failed"}, tries : 0..Attempts, full : BOOLEAN]

\* A job's tries while it waits and while it is active; only an active job has a run; a
\* run that has read its events has a batch to fold.
Agree(row, r) ==
  /\ row.status = "waiting" => row.tries < Attempts
  /\ row.status = "active" => row.tries > 0
  /\ r.pc # "none" => row.status = "active"
  /\ r.pc \in {"forgotten", "fold"} => r.batches # {}

\* Rows and what the handlers hold in memory; finitely many events are stored.
Typed ==
  /\ TypeOK
  /\ digests \subseteq Rows
  /\ run \in [Jobs -> Runs]
  /\ gc \in [pc : {"idle", "latest", "snapshots", "rows"}, old : SUBSET Nat, doomed : SUBSET Nat]
  /\ \A j \in Jobs : Agree(job[j], run[j])
  /\ \A e \in Events : ~event[e].stored => event[e].version = 1
  /\ IsFiniteSet(Stored)

\* The rows a run is based on.
LEMMA LatestType ==
  ASSUME NEW D \in SUBSET Rows, NEW n \in Nat, \A d \in D : d.at <= n
  PROVE  Latest(D) \in Rows
<1>1. CASE D = {}
  BY <1>1 DEF Latest, NoDigest, Rows
<1>2. CASE D # {}
  BY <1>2, LatestIsLast DEF Last
<1> QED
  BY <1>1, <1>2

\* A batch entry is a content and a stamp.
LEMMA EntryType ==
  ASSUME Typed, NEW e \in Events
  PROVE  Entry(e) \in Entries /\ Entry(e).content = <<e, event[e].version>>
<1>1. Stamp(e) \in Int
  BY MaxOfTwo DEF Stamp, Typed, TypeOK
<1> QED
  BY <1>1 DEF Entry, Text, Entries, Contents, Typed, TypeOK

\* The chunks of a rebuild: there is one if there is an event, and their entries are the events'.
LEMMA ChunksType ==
  ASSUME Typed, NEW S \in SUBSET Stored
  PROVE  /\ Chunks(S) \subseteq [first : Nat, entries : SUBSET Entries]
         /\ S # {} => Chunks(S) # {}
         /\ \A B \in Chunks(S) : \A x \in B.entries : \E e \in S : x = Entry(e)
<1> DEFINE place(e) == Cardinality({o \in S : event[o].at < event[e].at})
<1>1. \A e \in S : place(e) \in Nat
  BY FS_Subset, FS_CardinalityType DEF Typed
<1>2. \A e \in S : place(e) \div Chunk \in Nat
  BY <1>1, JobsAssumption
<1> HIDE DEF place
<1>3. Chunks(S) = {[first |-> k, entries |-> {Entry(e) : e \in {e \in S : place(e) \div Chunk = k}}] :
                     k \in {place(e) \div Chunk : e \in S}}
  BY DEF Chunks, place
<1>4. \A e \in S : Entry(e) \in Entries
  BY EntryType DEF Stored
<1>5. ASSUME NEW B \in Chunks(S)
      PROVE  /\ B \in [first : Nat, entries : SUBSET Entries]
             /\ \A x \in B.entries : \E e \in S : x = Entry(e)
  <2>1. PICK k \in {place(e) \div Chunk : e \in S} :
          B = [first |-> k, entries |-> {Entry(e) : e \in {e \in S : place(e) \div Chunk = k}}]
    BY <1>3
  <2>2. k \in Nat
    BY <1>2
  <2>3. {Entry(e) : e \in {e \in S : place(e) \div Chunk = k}} \in SUBSET Entries
    BY <1>4
  <2> QED
    BY <2>1, <2>2, <2>3
<1>6. ASSUME NEW e \in S
      PROVE  Chunks(S) # {}
  <2>1. [first |-> place(e) \div Chunk,
         entries |-> {Entry(o) : o \in {o \in S : place(o) \div Chunk = place(e) \div Chunk}}] \in Chunks(S)
    BY <1>3
  <2> QED
    BY <2>1
<1> QED
  BY <1>5, <1>6

\* The first batch of a run that has one.
LEMMA BatchType ==
  ASSUME NEW r \in Runs, r.batches # {}
  PROVE  Batch(r) \in r.batches
<1>1. {b.first : b \in r.batches} \in SUBSET Nat /\ {b.first : b \in r.batches} # {}
  BY DEF Runs
<1>2. PICK m \in {b.first : b \in r.batches} : \A n \in {b.first : b \in r.batches} : m <= n
  BY <1>1, LeastOfNats
<1>3. \E b \in r.batches : \A o \in r.batches : b.first <= o.first
  BY <1>2
<1> QED
  BY <1>3 DEF Batch

\* What is published is made of what the run had and what it folds.
LEMMA MergedType ==
  ASSUME NEW r \in Runs, r.batches # {}
  PROVE  Merged(r) \in SUBSET Contents
<1>1. {x.content : x \in Batch(r).entries} \subseteq Contents
  BY BatchType DEF Runs, Entries
<1> QED
  BY <1>1 DEF Merged, Folded, Runs

EventRows ==
  [stored : BOOLEAN, at : Int, learned : Nat, changed : Nat, version : Versions, suppressed : BOOLEAN]

\* Writing a row keeps the rows' types; a row that is stored joins the stored ones.
LEMMA EventWritten ==
  ASSUME Typed, NEW e \in Events, NEW row \in EventRows,
         event' = [event EXCEPT ![e] = row], ~row.stored => row.version = 1
  PROVE  /\ event' \in [Events -> EventRows]
         /\ \A x \in Events : ~event'[x].stored => event'[x].version = 1
         /\ row.stored => Stored' = Stored \cup {e}
         /\ row.stored = event[e].stored => Stored' = Stored
         /\ IsFiniteSet(Stored')
<1>1. event \in [Events -> EventRows]
  BY DEF Typed, TypeOK, EventRows
<1>2. row.stored => Stored' = Stored \cup {e}
  BY <1>1 DEF Stored
<1>3. ~row.stored => Stored' = Stored \ {e}
  BY <1>1 DEF Stored
<1>4. IsFiniteSet(Stored')
  BY <1>2, <1>3, FS_AddElement, FS_RemoveElement DEF Typed, EventRows
<1>5. row.stored = event[e].stored => Stored' = Stored
  BY <1>1 DEF Stored
<1>6. event' \in [Events -> EventRows] /\ \A x \in Events : ~event'[x].stored => event'[x].version = 1
  BY <1>1 DEF Typed
<1> QED
  BY <1>2, <1>4, <1>5, <1>6

\* A step of one job on its row, its run and the lock keeps the types.
LEMMA JobStep ==
  ASSUME Typed, NEW j \in Jobs, NEW row \in JobRows, NEW r \in Runs, Agree(row, r),
         job' = [job EXCEPT ![j] = row], run' = [run EXCEPT ![j] = r],
         lock' \in Jobs \cup {NoJob}, crashes' \in 0..MaxCrashes,
         \/ UNCHANGED <<clock, digests>>
         \/ /\ clock' = clock + 1 /\ clock' \in 0..MaxClock
            /\ \E d \in Rows : digests' = digests \cup {d} /\ d.at = clock',
         UNCHANGED <<event, forgotten, unsuppressed, gc>>
  PROVE  Typed'
<1> USE JobsAssumption DEF Typed, TypeOK
<1>1. job' \in [Jobs -> JobRows] /\ run' \in [Jobs -> Runs]
  BY DEF JobRows
<1>2. \A k \in Jobs : Agree(job'[k], run'[k])
  <2>1. job'[j] = row /\ run'[j] = r /\ \A k \in Jobs : k # j => job'[k] = job[k] /\ run'[k] = run[k]
    OBVIOUS
  <2> QED
    BY <2>1
<1>3. /\ clock' \in 0..MaxClock /\ digests' \subseteq Rows
      /\ \A d \in digests' : d.at \in 1..clock' /\ d.facts \subseteq Contents /\ d.held \in BOOLEAN
  <2>1. CASE UNCHANGED <<clock, digests>>
    BY <2>1
  <2>2. CASE clock' = clock + 1 /\ clock' \in 0..MaxClock
    <3>1. PICK d : d \in Rows /\ (digests' = digests \/ (digests' = digests \cup {d} /\ d.at = clock'))
      BY <2>1, <2>2 DEF NoDigest, Rows
    <3> QED
      BY <2>2, <3>1 DEF Rows
  <2> QED
    BY <2>1, <2>2
<1>4. \A k \in Jobs : run'[k].pc \in Pcs
  BY <1>1 DEF Runs
<1> QED
  BY <1>1, <1>2, <1>3, <1>4 DEF JobRows, Pcs, Stored

\* Every step of the API keeps the types.
LEMMA ApiTyped == Typed /\ Api => Typed'
<1> SUFFICES ASSUME Typed, Api PROVE Typed'
  OBVIOUS
<1> USE JobsAssumption DEF Typed, TypeOK
<1>1. ASSUME NEW e \in Events, NEW b \in BOOLEAN, Ingest(e, b)
      PROVE  Typed'
  <2>1. clock \in Nat /\ clock' = clock + 1 /\ clock' \in 0..MaxClock
    BY <1>1 DEF Ingest, Tick
  <2>2. PICK at \in Int :
          event' = [event EXCEPT ![e] = [NoEvent EXCEPT !.stored = TRUE, !.learned = clock', !.at = at]]
    <3>1. (IF b THEN Occurred[e] ELSE clock') \in Int
      BY <1>1, <2>1 DEF Ingest
    <3> QED
      BY <1>1, <3>1 DEF Ingest
  <2> DEFINE row == [NoEvent EXCEPT !.stored = TRUE, !.learned = clock', !.at = at]
  <2>3. row \in EventRows /\ row.stored /\ event' = [event EXCEPT ![e] = row]
    <3>1. NoEvent \in EventRows
      BY DEF NoEvent, EventRows, Versions
    <3>2. clock' \in Nat
      BY <2>1
    <3>3. row \in EventRows /\ row.stored
      BY <3>1, <3>2 DEF EventRows
    <3> QED
      BY <2>2, <3>3
  <2> HIDE DEF row
  <2>4. /\ event' \in [Events -> EventRows]
        /\ \A x \in Events : ~event'[x].stored => event'[x].version = 1
        /\ IsFiniteSet(Stored')
    BY <2>3, EventWritten
  <2>5. digests' = digests /\ \A d \in digests : d.at \in 1..clock'
    BY <1>1, <2>1 DEF Ingest
  <2> QED
    BY <1>1, <2>1, <2>4, <2>5 DEF Ingest, EventRows
<1>2. ASSUME NEW e \in Documents, UploadAgain(e)
      PROVE  Typed'
  <2>1. clock \in Nat /\ clock' = clock + 1 /\ clock' \in 0..MaxClock
    BY <1>2 DEF UploadAgain, Tick
  <2> DEFINE row == [event[e] EXCEPT !.version = @ + 1, !.changed = clock']
  <2>2. e \in Events /\ event' = [event EXCEPT ![e] = row]
    BY <1>2 DEF UploadAgain, Events
  <2>3. row \in EventRows /\ row.stored
    BY <1>2, <2>1, <2>2 DEF UploadAgain, EventRows
  <2> HIDE DEF row
  <2>4. /\ event' \in [Events -> EventRows]
        /\ \A x \in Events : ~event'[x].stored => event'[x].version = 1
        /\ IsFiniteSet(Stored')
    BY <2>2, <2>3, EventWritten
  <2>5. digests' = digests /\ \A d \in digests : d.at \in 1..clock'
    BY <1>2, <2>1 DEF UploadAgain
  <2> QED
    BY <1>2, <2>1, <2>4, <2>5 DEF UploadAgain, EventRows
<1>3. ASSUME NEW c \in Contents, Forget(c)
      PROVE  Typed'
  <2>1. c[1] \in Events
    BY DEF Contents
  <2> QED
    BY <1>3, <2>1 DEF Forget, Stored
<1>4. ASSUME NEW e \in Events, Suppress(e)
      PROVE  Typed'
  <2> DEFINE row == [event[e] EXCEPT !.suppressed = TRUE]
  <2>1. row \in EventRows /\ event' = [event EXCEPT ![e] = row] /\ (~row.stored => row.version = 1)
    <3>1. event \in [Events -> EventRows] /\ (~event[e].stored => event[e].version = 1)
      BY DEF EventRows
    <3>2. row \in EventRows /\ (~row.stored => row.version = 1)
      <4>1. event[e] \in EventRows
        BY <3>1
      <4>2. row.stored = event[e].stored /\ row.version = event[e].version
        BY <4>1 DEF EventRows
      <4>3. row \in EventRows
        BY <4>1 DEF EventRows
      <4> QED
        BY <3>1, <4>2, <4>3
    <3>3. event' = [event EXCEPT ![e] = row]
      BY <1>4, <3>1 DEF Suppress
    <3> QED
      BY <3>2, <3>3
  <2> HIDE DEF row
  <2>2. /\ event' \in [Events -> EventRows]
        /\ \A x \in Events : ~event'[x].stored => event'[x].version = 1
        /\ IsFiniteSet(Stored')
    BY <2>1, EventWritten
  <2> QED
    BY <1>4, <2>2 DEF Suppress, EventRows
<1>5. ASSUME NEW e \in Events, LoseSuppression(e)
      PROVE  Typed'
  BY <1>5 DEF LoseSuppression, Stored
<1>6. ASSUME NEW j \in Jobs, NEW f \in BOOLEAN, Enqueue(j, f)
      PROVE  Typed'
  <2> DEFINE row == [status |-> "waiting", tries |-> 0, full |-> f]
  <2>1. run[j].pc = "none" /\ run = [run EXCEPT ![j] = run[j]] /\ run[j] \in Runs
    BY <1>6 DEF Enqueue, Agree
  <2>2. row \in JobRows /\ Agree(row, run[j]) /\ job' = [job EXCEPT ![j] = row]
    BY <1>6, <2>1 DEF Enqueue, JobRows, Agree
  <2>3. lock' \in Jobs \cup {NoJob} /\ crashes' \in 0..MaxCrashes
    BY <1>6 DEF Enqueue
  <2> HIDE DEF row
  <2> QED
    BY <1>6, <2>1, <2>2, <2>3, JobStep DEF Enqueue
<1> QED
  BY <1>1, <1>2, <1>3, <1>4, <1>5, <1>6 DEF Api
\* What a run that goes on holds.
LEMMA RunGoesOn ==
  ASSUME NEW r \in Runs, NEW pc \in Pcs, NEW base \in Rows, NEW prev \in SUBSET Contents,
         NEW batches \in SUBSET [first : Nat, entries : SUBSET Entries]
  PROVE  [r EXCEPT !.pc = pc, !.base = base, !.prev = prev, !.batches = batches] \in Runs
<1>1. PICK B : B = [first : Nat, entries : SUBSET Entries]
  OBVIOUS
<1>2. Runs = [pc : Pcs, base : Rows, prev : SUBSET Contents, batches : SUBSET B, known : SUBSET Contents]
  BY <1>1 DEF Runs
<1>3. batches \in SUBSET B
  BY <1>1
<1> QED
  BY <1>2, <1>3

\* What a run has read when it has read its base.
LEMMA ReadBaseRun ==
  ASSUME Typed, NEW j \in Jobs, ReadBase(j)
  PROVE  \E base, of \in Rows :
           /\ base = IF job[j].full THEN NoDigest ELSE Latest(digests)
           /\ of = IF j \in DigestIds THEN Latest(Snapshots) ELSE Latest({d \in Snapshots : d.at = base.at})
           /\ run' = [run EXCEPT ![j] = [run[j] EXCEPT !.pc = "events", !.base = base, !.prev = of.facts]]
           /\ [run[j] EXCEPT !.pc = "events", !.base = base, !.prev = of.facts] \in Runs
<1> DEFINE base == IF job[j].full THEN NoDigest ELSE Latest(digests)
           of == IF j \in DigestIds THEN Latest(Snapshots)
                 ELSE Latest({d \in Snapshots : d.at = base.at})
<1>1. clock \in Nat /\ \A d \in digests : d.at <= clock /\ digests \subseteq Rows
  BY JobsAssumption DEF Typed, TypeOK
<1>2. base \in Rows
  BY <1>1, LatestType DEF NoDigest, Rows
<1>3. of \in Rows
  BY <1>1, LatestType DEF Snapshots
<1>4. run' = [run EXCEPT ![j] = [run[j] EXCEPT !.pc = "events", !.base = base, !.prev = of.facts]]
  BY DEF ReadBase, Typed
<1>5. [run[j] EXCEPT !.pc = "events", !.base = base, !.prev = of.facts] \in Runs
  <2> HIDE DEF base, of
  <2>1. of.facts \in SUBSET Contents
    BY <1>3 DEF Rows
  <2>2. run[j] \in Runs /\ run[j].batches \in SUBSET [first : Nat, entries : SUBSET Entries]
    BY DEF Typed, Runs
  <2>3. "events" \in Pcs
    BY DEF Pcs
  <2>4. [run[j] EXCEPT !.pc = "events", !.base = base, !.prev = of.facts, !.batches = run[j].batches] \in Runs
    BY <1>2, <2>1, <2>2, <2>3, RunGoesOn
  <2>5. [run[j] EXCEPT !.pc = "events", !.base = base, !.prev = of.facts, !.batches = run[j].batches] =
          [run[j] EXCEPT !.pc = "events", !.base = base, !.prev = of.facts]
    BY <2>2 DEF Runs
  <2> QED
    BY <2>4, <2>5
<1> QED
  BY <1>2, <1>3, <1>4, <1>5

\* What a run has read when it has read its events.
LEMMA ReadEventsRun ==
  ASSUME Typed, NEW j \in Jobs, ReadEvents(j)
  PROVE  \E B \in SUBSET [first : Nat, entries : SUBSET Entries], pc \in {"forgotten", "fold"} :
           /\ run' = [run EXCEPT ![j] = [run[j] EXCEPT !.pc = pc, !.batches = B]]
           /\ [run[j] EXCEPT !.pc = pc, !.batches = B] \in Runs
           /\ B # {}
           /\ \A b \in B : \A x \in b.entries : \E e \in Events : x = Entry(e)
<1> DEFINE B == IF j \in DigestIds
                THEN {[first |-> 0, entries |-> {Entry(e) : e \in Window}]}
                ELSE Chunks(History(j))
           pc == IF j \in DigestIds THEN "forgotten" ELSE "fold"
<1>1. /\ B \in SUBSET [first : Nat, entries : SUBSET Entries] /\ B # {}
      /\ \A b \in B : \A x \in b.entries : \E e \in Events : x = Entry(e)
  <2>1. CASE j \in DigestIds
    <3>1. Window \subseteq Events
      BY DEF Window, Newest, Stored
    <3>2. {Entry(e) : e \in Window} \in SUBSET Entries
      BY <3>1, EntryType
    <3>3. B = {[first |-> 0, entries |-> {Entry(e) : e \in Window}]}
      BY <2>1
    <3> HIDE DEF B
    <3>4. B \in SUBSET [first : Nat, entries : SUBSET Entries] /\ B # {}
      BY <3>2, <3>3
    <3> QED
      BY <3>1, <3>3, <3>4
  <2>2. CASE j \notin DigestIds
    <3>1. History(j) \in SUBSET Stored /\ History(j) # {} /\ History(j) \subseteq Events
      BY <2>2 DEF ReadEvents, History, Jobs, Stored
    <3> QED
      BY <2>2, <3>1, ChunksType
  <2> QED
    BY <2>1, <2>2
<1>2. run' = [run EXCEPT ![j] = [run[j] EXCEPT !.pc = pc, !.batches = B]]
  BY DEF ReadEvents, Typed
<1>3. pc \in {"forgotten", "fold"}
  OBVIOUS
<1> HIDE DEF B, pc
<1>4. [run[j] EXCEPT !.pc = pc, !.batches = B] \in Runs
  BY <1>1, <1>3 DEF Typed, Runs, Pcs
<1> QED
  BY <1>1, <1>2, <1>3, <1>4

\* What a run has written, and has left to fold.
LEMMA PublishRun ==
  ASSUME Typed, NEW j \in Jobs, Publish(j)
  PROVE  \E new \in Rows, rest \in SUBSET run[j].batches, pc \in {"leave", "fold"} :
           /\ new = [at |-> clock + 1, facts |-> Merged(run[j]), held |-> TRUE]
           /\ rest = run[j].batches \ {Batch(run[j])} /\ (pc = "fold" <=> rest # {})
           /\ digests' = digests \cup {new} /\ clock' = clock + 1 /\ clock' \in 0..MaxClock
           /\ run' = [run EXCEPT ![j] = [run[j] EXCEPT !.pc = pc, !.base = new, !.prev = new.facts,
                                                       !.batches = rest]]
           /\ [run[j] EXCEPT !.pc = pc, !.base = new, !.prev = new.facts, !.batches = rest] \in Runs
<1> DEFINE new == [at |-> clock', facts |-> Merged(run[j]), held |-> TRUE]
           rest == run[j].batches \ {Batch(run[j])}
           pc == IF rest = {} THEN "leave" ELSE "fold"
<1>1. clock' = clock + 1 /\ clock' \in 0..MaxClock /\ clock \in Nat
  <2>1. Tick /\ clock \in 0..MaxClock
    BY DEF Publish, Typed, TypeOK
  <2> QED
    BY <2>1, JobsAssumption DEF Tick
<1>2. Merged(run[j]) \in SUBSET Contents
  BY MergedType DEF Publish, Typed, Agree
<1>3. new \in Rows
  BY <1>1, <1>2 DEF Rows
<1>4. rest \in SUBSET run[j].batches /\ pc \in {"leave", "fold"} /\ (pc = "fold" <=> rest # {})
  OBVIOUS
<1>5. /\ digests' = digests \cup {new}
      /\ run' = [run EXCEPT ![j] = [run[j] EXCEPT !.pc = pc, !.base = new, !.prev = new.facts, !.batches = rest]]
  BY DEF Publish, Typed
<1>6. [run[j] EXCEPT !.pc = pc, !.base = new, !.prev = new.facts, !.batches = rest] \in Runs
  <2> HIDE DEF new, rest, pc
  <2>1. new.facts \in SUBSET Contents
    BY <1>3 DEF Rows
  <2>2. run[j] \in Runs /\ run[j].batches \in SUBSET [first : Nat, entries : SUBSET Entries]
    BY DEF Typed, Runs
  <2>3. rest \in SUBSET [first : Nat, entries : SUBSET Entries]
    BY <1>4, <2>2
  <2>4. pc \in Pcs
    BY <1>4 DEF Pcs
  <2> QED
    BY <1>3, <2>1, <2>2, <2>3, <2>4, RunGoesOn
<1>7. new = [at |-> clock + 1, facts |-> Merged(run[j]), held |-> TRUE]
  BY <1>1
<1> QED
  BY <1>1, <1>3, <1>4, <1>5, <1>6, <1>7

\* Every step of a run, and its death, keep the types.
LEMMA RunTyped ==
  ASSUME Typed, NEW j \in Jobs, Work(j) \/ Crash(j) \/ Fail(j)
  PROVE  Typed'
<1>0. /\ job \in [Jobs -> JobRows] /\ run \in [Jobs -> Runs] /\ Agree(job[j], run[j])
      /\ NoRun \in Runs /\ NoRun.pc = "none" /\ lock \in Jobs \cup {NoJob} /\ crashes \in 0..MaxCrashes
      /\ Released(j) \in Jobs \cup {NoJob}
      /\ job = [job EXCEPT ![j] = job[j]] /\ run = [run EXCEPT ![j] = run[j]]
  BY DEF NoRun, Runs, Pcs, NoDigest, Rows, JobRows, Typed, TypeOK, Released
<1>1. CASE Start(j)
  <2> DEFINE row == [job[j] EXCEPT !.status = "active", !.tries = @ + 1]
             r == [NoRun EXCEPT !.pc = "base"]
  <2>1. row \in JobRows /\ r \in Runs /\ Agree(row, r)
    <3>1. job[j] \in JobRows /\ job[j].status = "waiting" /\ job[j].tries < Attempts
      BY <1>0, <1>1 DEF Start, Agree
    <3>2. job[j].tries + 1 \in 0..Attempts /\ job[j].tries + 1 > 0
      BY <3>1, JobsAssumption DEF JobRows
    <3>3. row \in JobRows /\ row.status = "active" /\ row.tries = job[j].tries + 1
      BY <3>1, <3>2 DEF JobRows
    <3>4. r \in Runs /\ r.pc = "base"
      BY <1>0 DEF Runs, Pcs
    <3> HIDE DEF row, r
    <3> QED
      BY <3>2, <3>3, <3>4 DEF Agree
  <2>2. job' = [job EXCEPT ![j] = row] /\ run' = [run EXCEPT ![j] = r]
    BY <1>0, <1>1 DEF Start
  <2> HIDE DEF row, r
  <2> QED
    BY <1>0, <1>1, <2>1, <2>2, JobStep DEF Start
<1>2. CASE Skip(j)
  <2> DEFINE row == [job[j] EXCEPT !.status = "skipped"]
  <2>1. row \in JobRows /\ Agree(row, run[j])
    BY <1>0, <1>2 DEF Skip, JobRows, Agree
  <2>2. job' = [job EXCEPT ![j] = row]
    BY <1>0, <1>2 DEF Skip
  <2> HIDE DEF row
  <2> QED
    BY <1>0, <1>2, <2>1, <2>2, JobStep DEF Skip
<1>3. CASE ReadBase(j)
  <2>1. PICK r \in Runs : run' = [run EXCEPT ![j] = r] /\ r.pc = "events"
    <3>1. PICK base, of \in Rows :
            /\ run' = [run EXCEPT ![j] = [run[j] EXCEPT !.pc = "events", !.base = base, !.prev = of.facts]]
            /\ [run[j] EXCEPT !.pc = "events", !.base = base, !.prev = of.facts] \in Runs
      BY <1>3, ReadBaseRun
    <3> QED
      BY <1>0, <3>1 DEF Runs
  <2>2. Agree(job[j], r)
    BY <1>0, <1>3, <2>1 DEF ReadBase, Agree
  <2> QED
    BY <1>0, <1>3, <2>1, <2>2, JobStep DEF ReadBase
<1>4. CASE ReadEvents(j)
  <2>1. PICK r \in Runs : run' = [run EXCEPT ![j] = r] /\ r.batches # {}
    <3>1. PICK B \in SUBSET [first : Nat, entries : SUBSET Entries], pc \in {"forgotten", "fold"} :
            /\ run' = [run EXCEPT ![j] = [run[j] EXCEPT !.pc = pc, !.batches = B]]
            /\ [run[j] EXCEPT !.pc = pc, !.batches = B] \in Runs
            /\ B # {}
      BY <1>4, ReadEventsRun
    <3> QED
      BY <1>0, <3>1 DEF Runs
  <2>2. Agree(job[j], r)
    BY <1>0, <1>4, <2>1 DEF ReadEvents, Agree
  <2> QED
    BY <1>0, <1>4, <2>1, <2>2, JobStep DEF ReadEvents
<1>5. CASE ReadForgotten(j)
  <2> DEFINE r == [run[j] EXCEPT !.pc = "fold", !.known = forgotten]
  <2>1. r \in Runs /\ Agree(job[j], r)
    <3>1. r \in Runs
      BY <1>0 DEF Runs, Pcs, Typed, TypeOK
    <3>2. r.pc = "fold" /\ r.batches = run[j].batches /\ run[j].pc = "forgotten"
      BY <1>0, <1>5 DEF ReadForgotten, Runs
    <3>3. run[j].batches # {}
      BY <1>0, <3>2 DEF Agree
    <3> QED
      BY <1>0, <3>1, <3>2, <3>3 DEF Agree
  <2>2. run' = [run EXCEPT ![j] = r]
    BY <1>0, <1>5 DEF ReadForgotten
  <2> HIDE DEF r
  <2> QED
    BY <1>0, <1>5, <2>1, <2>2, JobStep DEF ReadForgotten
<1>6. CASE Publish(j)
  <2>1. PICK r \in Runs, new \in Rows :
          /\ run' = [run EXCEPT ![j] = r] /\ r.pc \in {"leave", "fold"} /\ (r.pc = "fold" => r.batches # {})
          /\ digests' = digests \cup {new} /\ clock' = clock + 1 /\ clock' \in 0..MaxClock /\ new.at = clock'
    <3>1. PICK new \in Rows, rest \in SUBSET run[j].batches, pc \in {"leave", "fold"} :
            /\ new = [at |-> clock + 1, facts |-> Merged(run[j]), held |-> TRUE]
            /\ rest = run[j].batches \ {Batch(run[j])} /\ (pc = "fold" <=> rest # {})
            /\ digests' = digests \cup {new} /\ clock' = clock + 1 /\ clock' \in 0..MaxClock
            /\ run' = [run EXCEPT ![j] = [run[j] EXCEPT !.pc = pc, !.base = new, !.prev = new.facts,
                                                        !.batches = rest]]
            /\ [run[j] EXCEPT !.pc = pc, !.base = new, !.prev = new.facts, !.batches = rest] \in Runs
      BY <1>6, PublishRun
    <3> DEFINE r == [run[j] EXCEPT !.pc = pc, !.base = new, !.prev = new.facts, !.batches = rest]
    <3>2. r.pc = pc /\ r.batches = rest
      BY <1>0 DEF Runs
    <3>3. new.at = clock'
      BY <3>1
    <3> HIDE DEF r
    <3> QED
      BY <3>1, <3>2, <3>3 DEF r
  <2>2. Agree(job[j], r)
    <3>1. run[j].pc = "fold"
      BY <1>6 DEF Publish
    <3>2. job[j].status = "active" /\ job[j].tries > 0
      BY <1>0, <3>1 DEF Agree
    <3> QED
      BY <2>1, <3>2 DEF Agree
  <2>3. UNCHANGED <<event, forgotten, unsuppressed, lock, job, gc, crashes>>
    BY <1>6 DEF Publish
  <2>4. /\ job' = [job EXCEPT ![j] = job[j]] /\ job[j] \in JobRows
        /\ lock' \in Jobs \cup {NoJob} /\ crashes' \in 0..MaxCrashes
    BY <1>0, <2>3
  <2>5. \E d \in Rows : digests' = digests \cup {d} /\ d.at = clock'
    BY <2>1
  <2>6. UNCHANGED <<event, forgotten, unsuppressed, gc>>
    BY <2>3
  <2> QED
    BY <2>1, <2>2, <2>4, <2>5, <2>6, JobStep
<1>7. CASE Leave(j)
  <2>1. CASE j \in DigestIds
    <3> DEFINE r == [run[j] EXCEPT !.pc = "log"]
    <3>1. r \in Runs /\ Agree(job[j], r)
      BY <1>0, <1>7 DEF Leave, Runs, Pcs, Agree
    <3>2. run' = [run EXCEPT ![j] = r]
      BY <1>0, <1>7, <2>1 DEF Leave
    <3> HIDE DEF r
    <3> QED
      BY <1>0, <1>7, <2>1, <3>1, <3>2, JobStep DEF Leave
  <2>2. CASE j \notin DigestIds
    <3> DEFINE row == [job[j] EXCEPT !.status = "done"]
    <3>1. row \in JobRows /\ Agree(row, NoRun)
      BY <1>0 DEF JobRows, Agree, NoRun
    <3>2. job' = [job EXCEPT ![j] = row]
      BY <1>0, <1>7, <2>2 DEF Leave
    <3> HIDE DEF row
    <3> QED
      BY <1>0, <1>7, <2>2, <3>1, <3>2, JobStep DEF Leave
  <2> QED
    BY <2>1, <2>2
<1>8. ASSUME NEW status \in {"done", "waiting", "failed"},
             job' = [job EXCEPT ![j].status = status], status = "waiting" => job[j].tries < Attempts,
             run' = [run EXCEPT ![j] = NoRun], lock' \in Jobs \cup {NoJob}, crashes' \in 0..MaxCrashes,
             UNCHANGED <<clock, event, digests, forgotten, unsuppressed, gc>>
      PROVE  Typed'
  <2> DEFINE row == [job[j] EXCEPT !.status = status]
  <2>1. row \in JobRows /\ Agree(row, NoRun)
    BY <1>0, <1>8 DEF JobRows, Agree, NoRun
  <2>2. job' = [job EXCEPT ![j] = row]
    BY <1>0, <1>8
  <2> HIDE DEF row
  <2> QED
    BY <1>0, <1>8, <2>1, <2>2, JobStep
<1>9. CASE Log(j)
  BY <1>0, <1>8, <1>9 DEF Log
<1>10. CASE Fail(j)
  <2>1. AfterFailure(j) \in {"waiting", "failed"} /\ (AfterFailure(j) = "waiting" => job[j].tries < Attempts)
    BY DEF AfterFailure
  <2> HIDE DEF AfterFailure
  <2> QED
    BY <1>0, <1>8, <1>10, <2>1 DEF Fail
<1>11. CASE Crash(j)
  <2> DEFINE row == [job[j] EXCEPT !.status = "waiting", !.tries = @ - 1]
  <2>1. row \in JobRows /\ Agree(row, NoRun)
    BY <1>0, <1>11, JobsAssumption DEF Crash, JobRows, Agree, NoRun
  <2>2. job' = [job EXCEPT ![j] = row] /\ crashes' \in 0..MaxCrashes
    <3>1. job' = [job EXCEPT ![j] = row]
      BY <1>0, <1>11 DEF Crash
    <3>2. crashes < MaxCrashes /\ crashes' = crashes + 1 /\ MaxCrashes \in Nat
      BY <1>11, JobsAssumption DEF Crash
    <3> QED
      BY <1>0, <3>1, <3>2
  <2> HIDE DEF row
  <2> QED
    BY <1>0, <1>11, <2>1, <2>2, JobStep DEF Crash
<1> QED
  BY <1>1, <1>2, <1>3, <1>4, <1>5, <1>6, <1>7, <1>9, <1>10, <1>11 DEF Work, Read

\* Every step of the collection, and an expiry, keep the types.
LEMMA GcTyped ==
  ASSUME Typed, Gc \/ LockExpires
  PROVE  Typed'
<1> USE JobsAssumption DEF Typed, TypeOK
<1>1. CASE GcReadOld
  <2>1. {d.at : d \in {d \in digests : d.at < clock - Retention}} \in SUBSET Nat
    BY DEF Rows
  <2> QED
    BY <1>1, <2>1 DEF GcReadOld, Stored
<1>2. CASE GcReadLatest
  <2>1. Doomed \in SUBSET Nat
    BY DEF Doomed
  <2> QED
    BY <1>2, <2>1 DEF GcReadLatest, Stored
<1>3. CASE GcSnapshots
  <2>1. \A d \in digests' : \E o \in digests :
          d.at = o.at /\ (d = o \/ d = [at |-> o.at, facts |-> {}, held |-> FALSE])
    BY <1>3 DEF GcSnapshots
  <2>2. digests' \subseteq Rows /\ \A d \in digests' : d.at \in 1..clock /\ d.facts \subseteq Contents /\ d.held \in BOOLEAN
    <3>1. \A o \in digests : o \in Rows /\ o.at \in 1..clock /\ o.facts \subseteq Contents /\ o.held \in BOOLEAN
      OBVIOUS
    <3>2. ASSUME NEW d \in digests'
          PROVE  d \in Rows /\ d.at \in 1..clock /\ d.facts \subseteq Contents /\ d.held \in BOOLEAN
      <4>1. PICK o \in digests : d.at = o.at /\ (d = o \/ d = [at |-> o.at, facts |-> {}, held |-> FALSE])
        BY <2>1
      <4>2. o \in Rows /\ o.at \in 1..clock /\ o.facts \subseteq Contents /\ o.held \in BOOLEAN
        BY <3>1
      <4>3. o.at \in Nat
        BY <4>2 DEF Rows
      <4>4. [at |-> o.at, facts |-> {}, held |-> FALSE] \in Rows
        BY <4>3 DEF Rows
      <4>5. CASE d = o
        BY <4>2, <4>5
      <4>6. CASE d = [at |-> o.at, facts |-> {}, held |-> FALSE]
        BY <4>2, <4>4, <4>6
      <4> QED
        BY <4>1, <4>5, <4>6
    <3> QED
      BY <3>2
  <2>3. gc' \in [pc : {"idle", "latest", "snapshots", "rows"}, old : SUBSET Nat, doomed : SUBSET Nat]
    BY <1>3 DEF GcSnapshots
  <2> QED
    BY <1>3, <2>2, <2>3 DEF GcSnapshots, Stored
<1>4. CASE GcRows \/ GcStops
  <2>1. digests' \subseteq digests
    BY <1>4 DEF GcRows, GcStops
  <2>2. gc' \in [pc : {"idle", "latest", "snapshots", "rows"}, old : SUBSET Nat, doomed : SUBSET Nat]
    BY <1>4 DEF GcRows, GcStops, NoGc
  <2> QED
    BY <1>4, <2>1, <2>2 DEF GcRows, GcStops, Stored
<1>5. CASE LockExpires
  BY <1>5 DEF LockExpires, Stored
<1> QED
  BY <1>1, <1>2, <1>3, <1>4, <1>5 DEF Gc

LEMMA NextTyped == Typed /\ [Next]_vars => Typed'
<1>1. ASSUME Typed, UNCHANGED vars
      PROVE  Typed'
  BY <1>1 DEF vars, Typed, TypeOK, Stored
<1> QED
  BY <1>1, ApiTyped, RunTyped, GcTyped DEF Next

LEMMA InitTyped == Init => Typed
<1> SUFFICES ASSUME Init PROVE Typed
  OBVIOUS
<1>1. Stored = {}
  BY DEF Init, Stored, NoEvent
<1>2. IsFiniteSet(Stored)
  BY <1>1, FS_EmptySet
<1>3. NoRun \in Runs /\ NoRun.pc = "none"
  BY DEF NoRun, Runs, Pcs, NoDigest, Rows
<1>4. run \in [Jobs -> Runs] /\ \A j \in Jobs : Agree(job[j], run[j]) /\ run[j].pc = "none"
  BY <1>3, JobsAssumption DEF Init, Agree
<1>5. event \in [Events -> EventRows] /\ \A e \in Events : event[e].version = 1
  BY DEF Init, NoEvent, EventRows, Versions
<1>6. job \in [Jobs -> JobRows]
  BY JobsAssumption DEF Init, JobRows
<1>7. gc \in [pc : {"idle", "latest", "snapshots", "rows"}, old : SUBSET Nat, doomed : SUBSET Nat]
  BY DEF Init, NoGc
<1>8. clock \in 0..MaxClock /\ crashes \in 0..MaxCrashes
  BY JobsAssumption DEF Init
<1> QED
  BY <1>2, <1>4, <1>5, <1>6, <1>7, <1>8 DEF Init, Typed, TypeOK, EventRows, JobRows

LEMMA AlwaysTyped == Spec => []Typed
BY InitTyped, NextTyped, PTL DEF Spec

\* Rows, jobs and handlers always keep their shape; no job takes more tries than its
\* attempts, and no digest is stamped ahead of the clock.
THEOREM TypeCorrect == Spec => []TypeOK
<1>1. Typed => TypeOK
  BY DEF Typed
<1> QED
  BY <1>1, AlwaysTyped, PTL
-----------------------------------------------------------------------------
(* The collection *)

\* No two digests have one stamp, the last one has its snapshot, and what the collection
\* is about to delete was stamped before a digest that stays.
Kept ==
  /\ \A d, o \in digests : d.at = o.at => d = o
  /\ \A d \in digests : Last(d, digests) => d.held
  /\ gc.pc = "latest" => gc.old \subseteq {d.at : d \in digests}
  /\ gc.pc \in {"snapshots", "rows"} => \E d \in digests : \A x \in gc.doomed : x < d.at

\* While there are digests, Latest is the one stamped last.
LEMMA LatestDigest ==
  ASSUME Typed, digests # {}
  PROVE  Latest(digests) \in Rows /\ Last(Latest(digests), digests)
<1>1. clock \in Nat /\ digests \in SUBSET Rows /\ \A d \in digests : d.at <= clock
  BY JobsAssumption DEF Typed, TypeOK
<1> QED
  BY <1>1, LatestIsLast DEF Last

\* What a step adds to the digests, and what it takes from them.
LEMMA CollectionKeepsLast ==
  ASSUME Typed, Kept, NEW t, Last(t, digests), GcSnapshots \/ GcRows
  PROVE  Last(t, digests') /\ \A d, o \in digests' : d.at = o.at => d = o
<1>1. /\ t \in digests /\ t.at \in Nat /\ \A d \in digests : d.at \in Nat /\ d.at <= t.at
      /\ gc.doomed \in SUBSET Nat
  BY DEF Last, Typed, Rows
<1>2. PICK d \in digests : \A x \in gc.doomed : x < d.at
  BY DEF Kept, GcSnapshots, GcRows
<1>3. t.at \notin gc.doomed
  BY <1>1, <1>2
<1>4. CASE GcSnapshots
  <2> DEFINE left(r) == IF r.at \in gc.doomed THEN [at |-> r.at, facts |-> {}, held |-> FALSE] ELSE r
  <2>1. digests' = {left(r) : r \in digests}
    BY <1>4 DEF GcSnapshots
  <2>2. \A r \in digests : left(r).at = r.at
    OBVIOUS
  <2>3. left(t) = t
    BY <1>3
  <2> HIDE DEF left
  <2> QED
    BY <1>1, <2>1, <2>2, <2>3 DEF Last, Kept
<1>5. CASE GcRows
  <2>1. digests' = {r \in digests : r.at \notin gc.doomed}
    BY <1>5 DEF GcRows
  <2> QED
    BY <1>1, <1>3, <2>1 DEF Last, Kept
<1> QED
  BY <1>4, <1>5

\* The digest that is published is stamped after all others.
LEMMA PublishedLast ==
  ASSUME Typed, Kept, NEW j \in Jobs, Publish(j)
  PROVE  \E new \in Rows :
           /\ new.facts = Merged(run[j]) /\ new.held
           /\ digests' = digests \cup {new} /\ Last(new, digests')
           /\ \A d \in digests : d.at < new.at
           /\ \A d, o \in digests' : d.at = o.at => d = o
           /\ new.at > 0
<1>1. PICK new \in Rows :
        new = [at |-> clock + 1, facts |-> Merged(run[j]), held |-> TRUE] /\ digests' = digests \cup {new}
  BY PublishRun
<1>2. clock \in Nat /\ \A d \in digests : d.at \in Nat /\ d.at <= clock
  BY JobsAssumption DEF Typed, TypeOK, Rows
<1>3. new.at = clock + 1 /\ new.facts = Merged(run[j]) /\ new.held
  BY <1>1
<1>4. new.at > 0 /\ \A d \in digests : d.at < new.at
  BY <1>2, <1>3
<1>5. new.at \in Nat /\ digests' = digests \cup {new}
  BY <1>1 DEF Rows
<1>6. Last(new, digests')
  BY <1>2, <1>4, <1>5 DEF Last
<1>7. \A d, o \in digests' : d.at = o.at => d = o
  BY <1>2, <1>4, <1>5 DEF Kept
<1> QED
  BY <1>3, <1>4, <1>5, <1>6, <1>7

\* Every step keeps it.
LEMMA NextKept ==
  ASSUME Typed, Kept, [Next]_vars
  PROVE  Kept'
<1>1. ASSUME UNCHANGED <<digests, gc>>
      PROVE  Kept'
  BY <1>1 DEF Kept, Last
<1>2. ASSUME NEW j \in Jobs, Publish(j)
      PROVE  Kept'
  <2>1. PICK new \in Rows :
          /\ new.held /\ digests' = digests \cup {new} /\ \A d \in digests : d.at < new.at
          /\ \A d, o \in digests' : d.at = o.at => d = o
    BY <1>2, PublishedLast
  <2>2. gc' = gc /\ \A d \in digests' : d.at \in Nat
    BY <1>2, <2>1 DEF Publish, Typed, Rows
  <2>3. \A d \in digests' : Last(d, digests') => d.held
    BY <2>1, <2>2 DEF Last
  <2> QED
    BY <2>1, <2>2, <2>3 DEF Kept
<1>3. ASSUME GcReadOld
      PROVE  Kept'
  <2>1. UNCHANGED digests /\ gc'.pc = "latest" /\ gc'.old \subseteq {d.at : d \in digests}
    BY <1>3 DEF GcReadOld, Typed
  <2> QED
    BY <2>1 DEF Kept, Last
<1>4. ASSUME GcReadLatest
      PROVE  Kept'
  <2>1. UNCHANGED digests /\ gc'.pc \in {"idle", "snapshots"} /\ gc'.doomed = Doomed
        /\ (gc'.pc = "snapshots" => Doomed # {})
    BY <1>4 DEF GcReadLatest, Typed
  <2>2. ASSUME Doomed # {}
        PROVE  \E d \in digests : \A x \in Doomed : x < d.at
    <3>1. gc.old \subseteq {d.at : d \in digests} /\ Doomed = gc.old \ {Latest(digests).at}
      BY <1>4 DEF GcReadLatest, Kept, Doomed
    <3>2. digests # {}
      BY <2>2, <3>1
    <3>3. Last(Latest(digests), digests)
      BY <3>2, LatestDigest
    <3>4. \A x \in Doomed : x < Latest(digests).at
      BY <3>1, <3>3 DEF Last, Typed, Rows
    <3> QED
      BY <3>3, <3>4 DEF Last
  <2> QED
    BY <2>1, <2>2 DEF Kept, Last
<1>5. ASSUME GcSnapshots \/ GcRows
      PROVE  Kept'
  <2>1. digests # {}
    BY <1>5 DEF GcSnapshots, GcRows, Kept
  <2>2. PICK t : Last(t, digests)
    BY <2>1, LatestDigest
  <2>3. Last(t, digests') /\ \A d, o \in digests' : d.at = o.at => d = o
    BY <1>5, <2>2, CollectionKeepsLast
  <2>4. t.held
    BY <2>2 DEF Kept, Last
  <2>5. Typed'
    BY NextTyped
  <2>6. \A d \in digests' : Last(d, digests') => d = t
    BY <2>3, <2>5 DEF Last, Typed, Rows
  <2>7. CASE GcSnapshots
    <3>1. gc'.pc = "rows" /\ gc'.doomed = gc.doomed
      BY <2>7 DEF GcSnapshots, Typed
    <3>2. \A x \in gc.doomed : x < t.at
      BY <2>2, <2>7 DEF GcSnapshots, Kept, Last, Typed, Rows
    <3>3. t \in digests'
      BY <2>3 DEF Last
    <3> QED
      BY <2>3, <2>4, <2>6, <3>1, <3>2, <3>3 DEF Kept
  <2>8. CASE GcRows
    BY <2>3, <2>4, <2>6, <2>8 DEF GcRows, NoGc, Kept
  <2> QED
    BY <1>5, <2>7, <2>8
<1>6. ASSUME GcStops
      PROVE  Kept'
  BY <1>6 DEF GcStops, NoGc, Kept, Last
<1>7. ASSUME Api \/ LockExpires \/ UNCHANGED vars
      PROVE  Kept'
  BY <1>1, <1>7 DEF Api, Ingest, UploadAgain, Forget, Suppress, LoseSuppression, Enqueue, LockExpires, vars
<1>8. ASSUME NEW j \in Jobs, Start(j) \/ Skip(j) \/ Read(j) \/ Leave(j) \/ Log(j) \/ Crash(j) \/ Fail(j)
      PROVE  Kept'
  BY <1>1, <1>8 DEF Start, Skip, Read, ReadBase, ReadEvents, ReadForgotten, Leave, Log, Crash, Fail
<1> QED
  BY <1>2, <1>3, <1>4, <1>5, <1>6, <1>7, <1>8 DEF Next, Work, Gc

LEMMA AlwaysKept == Spec => [](Typed /\ Kept)
<1>1. Init => Kept
  BY DEF Init, Kept, NoGc
<1> QED
  BY <1>1, InitTyped, NextTyped, NextKept, PTL DEF Spec

\* However a collection overlaps the runs, and wherever it stops, the latest digest has
\* its snapshot.
THEOREM LatestAlwaysHasState == Spec => []LatestHasState
<1>1. Typed /\ Kept => LatestHasState
  BY LatestDigest DEF Kept, LatestHasState, Last
<1> QED
  BY <1>1, AlwaysKept, PTL
-----------------------------------------------------------------------------
(* The state that serves, and the run that goes on from it *)

\* Of rows with distinct stamps, the last one that has its snapshot serves.
LEMMA LastServes ==
  ASSUME NEW D \in SUBSET Rows, \A o, p \in D : o.at = p.at => o = p, NEW t, Last(t, D), t.held
  PROVE  Latest({d \in D : d.held}) = t
<1>1. Last(t, {d \in D : d.held})
  BY DEF Last
<1> QED
  BY <1>1, LastIsLatest

\* The published state is that of the latest digest; there is none before the first.
LEMMA PublishedIs ==
  ASSUME Typed, Kept
  PROVE  /\ Published \subseteq Contents
         /\ digests = {} => Published = {}
         /\ \A t : Last(t, digests) => Published = t.facts
<1>1. digests \in SUBSET Rows
  BY DEF Typed
<1>2. ASSUME NEW t, Last(t, digests)
      PROVE  Published = t.facts
  <2>1. t.held
    BY <1>2 DEF Kept, Last
  <2>2. Latest({d \in digests : d.held}) = t
    BY <1>1, <1>2, <2>1, LastServes DEF Kept
  <2> QED
    BY <2>2 DEF Published, Snapshots
<1>3. ASSUME digests = {}
      PROVE  Published = {}
  BY <1>3 DEF Published, Snapshots, Latest, NoDigest
<1>4. Published \subseteq Contents
  BY <1>2, <1>3, LatestDigest DEF Rows
<1> QED
  BY <1>2, <1>3, <1>4

\* A collection changes none of it.
LEMMA CollectionKeepsPublished ==
  ASSUME Typed, Kept, GcSnapshots \/ GcRows
  PROVE  Published' = Published
<1>1. digests # {}
  BY DEF GcSnapshots, GcRows, Kept
<1>2. PICK t : Last(t, digests)
  BY <1>1, LatestDigest
<1>3. Last(t, digests') /\ \A d, o \in digests' : d.at = o.at => d = o
  BY <1>2, CollectionKeepsLast
<1>4. t.held
  BY <1>2 DEF Kept, Last
<1>5. digests' \in SUBSET Rows
  <2>1. Typed'
    BY GcTyped DEF Gc
  <2> QED
    BY <2>1 DEF Typed
<1>6. Latest({d \in digests' : d.held}) = t
  BY <1>3, <1>4, <1>5, LastServes
<1>7. Published' = t.facts
  BY <1>6 DEF Published, Snapshots
<1> QED
  BY <1>2, <1>7, PublishedIs

\* A run publishes what it merged.
LEMMA PublishedNew ==
  ASSUME Typed, Kept, NEW j \in Jobs, Publish(j)
  PROVE  Published' = Merged(run[j]) /\ Latest(digests').facts = Merged(run[j])
<1>1. PICK new \in Rows :
        /\ new.facts = Merged(run[j]) /\ new.held
        /\ digests' = digests \cup {new} /\ Last(new, digests')
        /\ \A d, o \in digests' : d.at = o.at => d = o
  BY PublishedLast
<1>2. digests' \in SUBSET Rows
  BY <1>1 DEF Typed
<1>3. Latest(digests') = new /\ Latest({d \in digests' : d.held}) = new
  BY <1>1, <1>2, LastIsLatest, LastServes
<1> QED
  BY <1>1, <1>3 DEF Published, Snapshots

Working == {"base", "events", "forgotten", "fold", "leave"}

\* A run that reads or writes has the scope's lock.
Alone == \A j \in Jobs : run[j].pc \in Working => lock = j

LEMMA NextAlone ==
  ASSUME Typed, Alone, [Next]_vars
  PROVE  Alone'
<1>0. run \in [Jobs -> Runs] /\ NoRun \in Runs /\ NoRun.pc = "none" /\ NoJob \notin Jobs
  BY JobsAssumption DEF Typed, NoRun, Runs, Pcs, NoDigest, Rows
<1>1. ASSUME UNCHANGED <<lock, run>>
      PROVE  Alone'
  BY <1>1 DEF Alone
<1>2. ASSUME NEW j \in Jobs, Start(j)
      PROVE  Alone'
  <2>1. lock = NoJob /\ lock' = j /\ \A k \in Jobs : k # j => run'[k] = run[k]
    BY <1>0, <1>2 DEF Start, MayEnter
  <2> QED
    BY <1>0, <2>1 DEF Alone
<1>3. ASSUME NEW j \in Jobs, Read(j) \/ Publish(j)
      PROVE  Alone'
  <2>1. lock' = lock /\ run[j].pc \in Working /\ \A k \in Jobs : k # j => run'[k] = run[k]
    BY <1>0, <1>3 DEF Read, ReadBase, ReadEvents, ReadForgotten, Publish, Working
  <2> QED
    BY <2>1 DEF Alone
<1>4. ASSUME NEW j \in Jobs, Leave(j) \/ Log(j) \/ Fail(j) \/ Crash(j)
      PROVE  Alone'
  <2>1. /\ lock' \in {lock, Released(j)} /\ run'[j].pc \notin Working
        /\ \A k \in Jobs : k # j => run'[k] = run[k]
    BY <1>0, <1>4 DEF Leave, Log, Fail, Crash, Working, Runs
  <2> QED
    BY <2>1 DEF Alone, Released
<1>5. ASSUME LockExpires
      PROVE  Alone'
  BY <1>5 DEF LockExpires, Alone, Working
<1>6. ASSUME Api \/ Gc \/ UNCHANGED vars \/ \E j \in Jobs : Skip(j)
      PROVE  Alone'
  BY <1>1, <1>6 DEF Api, Ingest, UploadAgain, Forget, Suppress, LoseSuppression, Enqueue, vars, Skip,
     Gc, GcReadOld, GcReadLatest, GcSnapshots, GcRows, GcStops
<1> QED
  BY <1>2, <1>3, <1>4, <1>5, <1>6 DEF Next, Work

\* What a run takes as its base is the state that serves, or nothing in a full rebuild.
LEMMA ReadBaseOnLatest ==
  ASSUME Typed, Kept, NEW j \in Jobs, ReadBase(j)
  PROVE  \/ run'[j].prev = Published
         \/ job[j].full /\ run'[j].base.at = 0 /\ run'[j].prev = {}
<1>1. PICK base, of \in Rows :
        /\ base = IF job[j].full THEN NoDigest ELSE Latest(digests)
        /\ of = IF j \in DigestIds THEN Latest(Snapshots) ELSE Latest({d \in Snapshots : d.at = base.at})
        /\ run' = [run EXCEPT ![j] = [run[j] EXCEPT !.pc = "events", !.base = base, !.prev = of.facts]]
  BY ReadBaseRun
<1>2. run'[j].prev = of.facts /\ run'[j].base = base
  BY <1>1 DEF Typed, Runs
<1>3. CASE j \in DigestIds
  BY <1>1, <1>2, <1>3 DEF Published
<1>4. CASE j \notin DigestIds /\ base.at = 0
  <2>1. {d \in Snapshots : d.at = base.at} = {}
    BY <1>4 DEF Snapshots, Typed, TypeOK
  <2>2. of = NoDigest
    BY <1>1, <1>4, <2>1 DEF Latest
  <2>3. of.facts = {}
    BY <2>2 DEF NoDigest
  <2>4. ~job[j].full => digests = {}
    BY <1>1, <1>4, LatestDigest DEF Last, Typed, TypeOK
  <2> QED
    BY <1>2, <1>4, <2>3, <2>4, PublishedIs
<1>5. CASE j \notin DigestIds /\ base.at # 0
  <2>1. base = Latest(digests) /\ digests # {}
    BY <1>1, <1>5 DEF NoDigest, Latest
  <2>2. Last(base, digests)
    BY <2>1, LatestDigest
  <2>3. base.held
    BY <2>2 DEF Kept, Last
  <2>4. {d \in Snapshots : d.at = base.at} = {base}
    BY <2>2, <2>3 DEF Snapshots, Kept, Last
  <2>5. of = base
    <3>1. Last(base, {base}) /\ {base} \in SUBSET Rows
      BY <1>1 DEF Last, Rows
    <3>2. Latest({base}) = base
      BY <3>1, LastIsLatest
    <3> QED
      BY <1>1, <1>5, <2>4, <3>2
  <2> QED
    BY <1>2, <2>2, <2>5, PublishedIs
<1> QED
  BY <1>3, <1>4, <1>5

\* What a run goes on from is the state that serves, or nothing in a full rebuild; and
\* the facts it knows to be forgotten are.
OnLatest ==
  \A j \in Jobs :
    /\ run[j].pc \in {"events", "forgotten", "fold"} =>
         \/ run[j].prev = Published
         \/ job[j].full /\ run[j].base.at = 0 /\ run[j].prev = {}
    /\ run[j].known \subseteq forgotten

\* A step that publishes nothing and starts no reading keeps it.
LEMMA OnLatestStays ==
  ASSUME OnLatest, Published' = Published, forgotten \subseteq forgotten',
         \A k \in Jobs :
           /\ run'[k].pc \in {"events", "forgotten", "fold"} =>
                /\ run[k].pc \in {"events", "forgotten", "fold"}
                /\ run'[k].prev = run[k].prev /\ run'[k].base = run[k].base
                /\ job[k].full => job'[k].full
           /\ run'[k].known \in {{}, run[k].known, forgotten}
  PROVE  OnLatest'
BY DEF OnLatest

LEMMA NextOnLatest ==
  ASSUME Typed, Kept, Alone, OnLatest, [Next]_vars
  PROVE  OnLatest'
<1>0. /\ run \in [Jobs -> Runs] /\ job \in [Jobs -> JobRows]
      /\ NoRun \in Runs /\ NoRun.pc = "none" /\ NoRun.known = {}
  BY DEF Typed, TypeOK, JobRows, NoRun, Runs, Pcs, NoDigest, Rows
<1>1. ASSUME digests' = digests
      PROVE  Published' = Published
  BY <1>1 DEF Published, Snapshots
<1>2. ASSUME NEW j \in Jobs, Start(j) \/ Skip(j) \/ ReadEvents(j) \/ ReadForgotten(j)
      PROVE  OnLatest'
  <2>1. /\ digests' = digests /\ forgotten' = forgotten
        /\ \A k \in Jobs : job'[k].full = job[k].full /\ (k # j => run'[k] = run[k])
    BY <1>0, <1>2 DEF Start, Skip, ReadEvents, ReadForgotten, JobRows
  <2>2. /\ run'[j].pc \in {"events", "forgotten", "fold"} =>
             /\ run[j].pc \in {"events", "forgotten", "fold"}
             /\ run'[j].prev = run[j].prev /\ run'[j].base = run[j].base
        /\ run'[j].known \in {{}, run[j].known, forgotten}
    BY <1>0, <1>2 DEF Start, Skip, ReadEvents, ReadForgotten, Runs
  <2> QED
    BY <1>1, <2>1, <2>2, OnLatestStays
<1>3. ASSUME NEW j \in Jobs, ReadBase(j)
      PROVE  OnLatest'
  <2>1. /\ Published' = Published /\ forgotten' = forgotten /\ job' = job
        /\ \A k \in Jobs : k # j => run'[k] = run[k]
    BY <1>0, <1>1, <1>3 DEF ReadBase
  <2>2. run'[j].known = run[j].known
    BY <1>0, <1>3 DEF ReadBase, Runs
  <2>3. \/ run'[j].prev = Published
        \/ job[j].full /\ run'[j].base.at = 0 /\ run'[j].prev = {}
    BY <1>3, ReadBaseOnLatest
  <2> QED
    BY <2>1, <2>2, <2>3 DEF OnLatest
<1>4. ASSUME NEW j \in Jobs, Publish(j)
      PROVE  OnLatest'
  <2>1. run'[j].prev = Merged(run[j]) /\ run'[j].known = run[j].known
    <3>1. PICK new \in Rows, rest \in SUBSET run[j].batches, pc \in {"leave", "fold"} :
            /\ new = [at |-> clock + 1, facts |-> Merged(run[j]), held |-> TRUE]
            /\ rest = run[j].batches \ {Batch(run[j])} /\ (pc = "fold" <=> rest # {})
            /\ digests' = digests \cup {new} /\ clock' = clock + 1 /\ clock' \in 0..MaxClock
            /\ run' = [run EXCEPT ![j] = [run[j] EXCEPT !.pc = pc, !.base = new, !.prev = new.facts,
                                                        !.batches = rest]]
            /\ [run[j] EXCEPT !.pc = pc, !.base = new, !.prev = new.facts, !.batches = rest] \in Runs
      BY <1>4, PublishRun
    <3> QED
      BY <1>0, <3>1 DEF Runs
  <2>2. run'[j].prev = Published'
    BY <1>4, <2>1, PublishedNew
  <2>3. \A k \in Jobs : k # j => run'[k] = run[k] /\ run[k].pc \notin Working
    BY <1>0, <1>4 DEF Publish, Alone, Working
  <2>4. forgotten' = forgotten
    BY <1>4 DEF Publish
  <2> QED
    BY <2>1, <2>2, <2>3, <2>4 DEF OnLatest, Working
<1>5. ASSUME NEW j \in Jobs, Leave(j) \/ Log(j) \/ Fail(j) \/ Crash(j)
      PROVE  OnLatest'
  <2>1. /\ digests' = digests /\ forgotten' = forgotten
        /\ \A k \in Jobs : job'[k].full = job[k].full /\ (k # j => run'[k] = run[k])
    BY <1>0, <1>5 DEF Leave, Log, Fail, Crash, JobRows
  <2>2. run'[j].pc \in {"none", "log"} /\ run'[j].known \in {{}, run[j].known}
    BY <1>0, <1>5 DEF Leave, Log, Fail, Crash, Runs
  <2> QED
    BY <1>1, <2>1, <2>2, OnLatestStays
<1>6. ASSUME NEW j \in Jobs, NEW f \in BOOLEAN, Enqueue(j, f)
      PROVE  OnLatest'
  <2>1. run[j].pc = "none" /\ \A k \in Jobs : k # j => job'[k] = job[k]
    BY <1>0, <1>6 DEF Enqueue, Typed, Agree
  <2> QED
    BY <1>1, <1>6, <2>1, OnLatestStays DEF Enqueue
<1>7. ASSUME UNCHANGED <<digests, run, job>>, forgotten \subseteq forgotten'
      PROVE  OnLatest'
  BY <1>1, <1>7, OnLatestStays
<1>8. ASSUME GcSnapshots \/ GcRows
      PROVE  OnLatest'
  <2>1. UNCHANGED <<forgotten, run, job>>
    BY <1>8 DEF GcSnapshots, GcRows
  <2> QED
    BY <1>8, <2>1, OnLatestStays, CollectionKeepsPublished
<1>9. ASSUME GcReadOld \/ GcReadLatest \/ GcStops \/ LockExpires \/ UNCHANGED vars
      PROVE  OnLatest'
  BY <1>7, <1>9 DEF GcReadOld, GcReadLatest, GcStops, LockExpires, vars
<1>10. ASSUME NEW e \in Events, \/ \E b \in BOOLEAN : Ingest(e, b)
                                \/ UploadAgain(e) \/ Suppress(e) \/ LoseSuppression(e)
       PROVE  OnLatest'
  BY <1>7, <1>10 DEF Ingest, UploadAgain, Suppress, LoseSuppression
<1>11. ASSUME NEW c \in Contents, Forget(c)
       PROVE  OnLatest'
  BY <1>7, <1>11 DEF Forget
<1> QED
  BY <1>2, <1>3, <1>4, <1>5, <1>6, <1>8, <1>9, <1>10, <1>11 DEF Next, Work, Read, Gc, Api, Events

-----------------------------------------------------------------------------
(* The versions of a document *)

\* c is not older than b, if they are of one event.
Older(b, c) == b[1] = c[1] => b[2] <= c[2]

\* Written no later than the event's text.
Current(c) == c[2] <= event[c[1]].version

\* What a run has yet to fold.
Given(r) == {x.content : x \in UNION {b.entries : b \in r.batches}}

Folding(j) == run[j].pc \in {"forgotten", "fold"}

\* Nothing published or forgotten is newer than what is published, nor than what a run
\* has yet to fold: a text, once replaced, does not come back.
Ages ==
  /\ \A b \in Published \cup forgotten : Current(b)
  /\ \A b \in Published \cup forgotten, c \in Published : Older(b, c)
  /\ \A j \in Jobs : Folding(j) =>
       \A c \in Given(run[j]) : Current(c) /\ \A b \in Published \cup forgotten \cup Given(run[j]) : Older(b, c)

\* What is merged: what the run had, but for what the batch replaces, and the batch,
\* without what is known to be forgotten; the batch counts as empty if nothing in it is new.
LEMMA MergedIs ==
  ASSUME NEW r \in Runs, r.batches # {}
  PROVE  \E B \in SUBSET Given(r) : Merged(r) = Folded(r.prev, B) \ r.known
<1>1. {x.content : x \in Batch(r).entries} \subseteq Given(r)
  BY BatchType DEF Given
<1>2. Folded(r.prev, {}) = r.prev
  BY DEF Folded
<1> QED
  BY <1>1, <1>2 DEF Merged

LEMMA GivenType ==
  ASSUME NEW r \in Runs
  PROVE  Given(r) \subseteq Contents
BY DEF Given, Runs, Entries

\* A step that publishes nothing and gives no run its batches keeps it.
LEMMA AgesStay ==
  ASSUME Ages, Published' = Published, forgotten' \subseteq forgotten \cup Published,
         Published \cup forgotten \subseteq Contents, \A j \in Jobs : Given(run[j]) \subseteq Contents,
         \A e \in Events : event[e].version \in Nat /\ event'[e].version \in Nat /\ event[e].version <= event'[e].version,
         \A k \in Jobs : run'[k].pc \in {"forgotten", "fold"} =>
           Folding(k) /\ run'[k].batches = run[k].batches
  PROVE  Ages'
<1>1. ASSUME NEW c \in Contents, Current(c)
      PROVE  c[2] <= event'[c[1]].version
  BY <1>1 DEF Current, Contents, Versions
<1>2. \A b \in Published' \cup forgotten' : b \in Published \cup forgotten
  OBVIOUS
<1>3. \A b \in Published' \cup forgotten' : b[2] <= event'[b[1]].version
  BY <1>1, <1>2 DEF Ages
<1>4. \A b \in Published' \cup forgotten', c \in Published' : Older(b, c)
  BY <1>2 DEF Ages
<1>5. ASSUME NEW k \in Jobs, run'[k].pc \in {"forgotten", "fold"}, NEW c \in Given(run'[k])
      PROVE  /\ c[2] <= event'[c[1]].version
             /\ \A b \in Published' \cup forgotten' \cup Given(run'[k]) : Older(b, c)
  <2>1. Folding(k) /\ Given(run'[k]) = Given(run[k])
    BY <1>5 DEF Given
  <2>2. c \in Contents /\ Current(c) /\ \A b \in Published \cup forgotten \cup Given(run[k]) : Older(b, c)
    BY <1>5, <2>1 DEF Ages
  <2> QED
    BY <1>1, <1>2, <2>1, <2>2
<1> QED
  BY <1>3, <1>4, <1>5 DEF Ages, Current, Folding, Older

\* What a run is given when it reads its events is their text of the time.
LEMMA ReadEventsAges ==
  ASSUME Typed, Alone, Ages, NEW j \in Jobs, ReadEvents(j)
  PROVE  Ages'
<1>1. PICK B \in SUBSET [first : Nat, entries : SUBSET Entries], pc \in {"forgotten", "fold"} :
        /\ run' = [run EXCEPT ![j] = [run[j] EXCEPT !.pc = pc, !.batches = B]]
        /\ [run[j] EXCEPT !.pc = pc, !.batches = B] \in Runs
        /\ B # {}
        /\ \A b \in B : \A x \in b.entries : \E e \in Events : x = Entry(e)
  BY ReadEventsRun
<1>2. run'[j].batches = B /\ \A k \in Jobs : k # j => run'[k] = run[k]
  BY <1>1 DEF Typed, Runs
<1>3. \A k \in Jobs : k # j => ~Folding(k)
  BY DEF ReadEvents, Alone, Working, Folding
<1>4. UNCHANGED <<event, forgotten>> /\ Published' = Published
  BY DEF ReadEvents, Published, Snapshots
<1>5. ASSUME NEW c \in Given(run'[j])
      PROVE  \E e \in Events : c = <<e, event[e].version>>
  <2>1. PICK b \in B : \E x \in b.entries : c = x.content
    BY <1>2, <1>5 DEF Given
  <2> QED
    BY <1>1, <2>1, EntryType
<1>6. \A c \in Given(run'[j]) : c[2] = event[c[1]].version /\ c[2] \in Nat
  BY <1>5 DEF Typed, TypeOK, Versions
<1>7. \A b \in Published' \cup forgotten' \cup Given(run'[j]), c \in Given(run'[j]) : Older(b, c)
  BY <1>4, <1>6 DEF Ages, Current, Older
<1>8. /\ \A b \in Published' \cup forgotten' : b[2] <= event'[b[1]].version
      /\ \A b \in Published' \cup forgotten', c \in Published' : Older(b, c)
  BY <1>4 DEF Ages, Current
<1>9. \A c \in Given(run'[j]) : c[2] <= event'[c[1]].version
  BY <1>4, <1>6
<1>10. \A k \in Jobs : run'[k].pc \in {"forgotten", "fold"} => k = j
  BY <1>2, <1>3 DEF Folding
<1> QED
  BY <1>7, <1>8, <1>9, <1>10 DEF Ages, Current, Folding, Older

\* A batch takes the place of older texts only.
LEMMA PublishAges ==
  ASSUME Typed, Kept, Alone, OnLatest, Ages, NEW j \in Jobs, Publish(j)
  PROVE  Ages'
<1>1. run[j] \in Runs /\ run[j].batches # {} /\ Folding(j)
  BY DEF Publish, Typed, Agree, Folding
<1>2. PICK B \in SUBSET Given(run[j]) : Merged(run[j]) = Folded(run[j].prev, B) \ run[j].known
  BY <1>1, MergedIs
<1>3. Published' = Folded(run[j].prev, B) \ run[j].known
  BY <1>2, PublishedNew
<1>4. run[j].prev \subseteq Published
  BY DEF OnLatest, Publish
<1>5. Published' \subseteq Published \cup Given(run[j])
  BY <1>3, <1>4 DEF Folded
<1>6. UNCHANGED <<event, forgotten>>
  BY DEF Publish
<1>7. \A k \in Jobs : run'[k].pc \in {"forgotten", "fold"} => k = j
  BY DEF Publish, Typed, Alone, Working
<1>8. Given(run'[j]) \subseteq Given(run[j])
  <2>1. run'[j].batches \subseteq run[j].batches
    BY <1>1 DEF Publish, Typed, Runs
  <2> QED
    BY <2>1 DEF Given
<1>9. \A b \in Published' \cup forgotten' : b[2] <= event'[b[1]].version
  BY <1>1, <1>5, <1>6 DEF Ages, Current
<1>10. ASSUME NEW b \in Published' \cup forgotten', NEW c \in Published'
       PROVE  Older(b, c)
  <2>1. CASE c \in Given(run[j])
    BY <1>1, <1>5, <1>6, <2>1 DEF Ages
  <2>2. CASE c \in Published /\ b \in Published \cup forgotten
    BY <2>2 DEF Ages
  <2>3. CASE c \notin Given(run[j]) /\ b \notin Published \cup forgotten
    <3>1. b \in B /\ c \in Folded(run[j].prev, B) /\ c \notin B
      BY <1>3, <1>4, <1>6, <2>3 DEF Folded
    <3>2. ~(b[1] = c[1] /\ b[2] > c[2])
      BY <3>1 DEF Folded
    <3>3. b[2] \in Nat /\ c[2] \in Nat
      <4>1. b \in Contents /\ c \in Contents
        BY <1>1, <1>5, <2>3, <3>1, GivenType, PublishedIs
      <4> QED
        BY <4>1 DEF Contents, Versions
    <3> QED
      BY <3>2, <3>3 DEF Older
  <2> QED
    BY <1>5, <2>1, <2>2, <2>3
<1>11. \A c \in Given(run'[j]) :
         /\ c[2] <= event'[c[1]].version
         /\ \A b \in Published' \cup forgotten' \cup Given(run'[j]) : Older(b, c)
  BY <1>1, <1>5, <1>6, <1>8 DEF Ages, Current
<1> QED
  BY <1>7, <1>9, <1>10, <1>11 DEF Ages, Current, Folding, Older

LEMMA NextAges ==
  ASSUME Typed, Kept, Alone, OnLatest, Ages, [Next]_vars
  PROVE  Ages'
<1>0. /\ run \in [Jobs -> Runs] /\ NoRun \in Runs /\ NoRun.pc = "none"
      /\ event \in [Events -> EventRows]
      /\ Published \cup forgotten \subseteq Contents
      /\ \A j \in Jobs : Given(run[j]) \subseteq Contents
      /\ \A e \in Events : event[e].version \in Nat
  BY GivenType, PublishedIs DEF Typed, TypeOK, NoRun, Runs, Pcs, NoDigest, Rows, EventRows, Versions
<1>1. ASSUME digests' = digests
      PROVE  Published' = Published
  BY <1>1 DEF Published, Snapshots
<1>2. ASSUME UNCHANGED <<event, forgotten>>, Published' = Published,
             \A k \in Jobs : run'[k].pc \in {"forgotten", "fold"} => Folding(k) /\ run'[k].batches = run[k].batches
      PROVE  Ages'
  BY <1>0, <1>2, AgesStay
<1>3. ASSUME NEW j \in Jobs, Start(j) \/ Skip(j) \/ ReadBase(j) \/ ReadForgotten(j)
      PROVE  Ages'
  <2>1. /\ UNCHANGED <<event, forgotten, digests>>
        /\ \A k \in Jobs : k # j => run'[k] = run[k]
    BY <1>0, <1>3 DEF Start, Skip, ReadBase, ReadForgotten
  <2>2. run'[j].pc \in {"forgotten", "fold"} => run[j].pc \in {"forgotten", "fold"} /\ run'[j].batches = run[j].batches
    BY <1>0, <1>3 DEF Start, Skip, ReadBase, ReadForgotten, Runs
  <2> QED
    BY <1>1, <1>2, <2>1, <2>2 DEF Folding
<1>4. ASSUME NEW j \in Jobs, Leave(j) \/ Log(j) \/ Fail(j) \/ Crash(j)
      PROVE  Ages'
  <2>1. /\ UNCHANGED <<event, forgotten, digests>>
        /\ run'[j].pc \in {"none", "log"}
        /\ \A k \in Jobs : k # j => run'[k] = run[k]
    BY <1>0, <1>4 DEF Leave, Log, Fail, Crash, Runs
  <2> QED
    BY <1>1, <1>2, <2>1 DEF Folding
<1>5. ASSUME UNCHANGED <<event, forgotten, run>>, Published' = Published
      PROVE  Ages'
  BY <1>2, <1>5 DEF Folding
<1>6. ASSUME GcSnapshots \/ GcRows
      PROVE  Ages'
  BY <1>5, <1>6, CollectionKeepsPublished DEF GcSnapshots, GcRows
<1>7. ASSUME \/ GcReadOld \/ GcReadLatest \/ GcStops \/ LockExpires \/ UNCHANGED vars
             \/ \E e \in Events : LoseSuppression(e)
             \/ \E j \in Jobs, f \in BOOLEAN : Enqueue(j, f)
      PROVE  Ages'
  BY <1>1, <1>5, <1>7 DEF GcReadOld, GcReadLatest, GcStops, LockExpires, LoseSuppression, Enqueue, vars
<1>8. ASSUME NEW c \in Contents, Forget(c)
      PROVE  Ages'
  <2>1. UNCHANGED <<event, run, digests>> /\ forgotten' \subseteq forgotten \cup Published
    BY <1>8 DEF Forget
  <2> QED
    BY <1>0, <1>1, <2>1, AgesStay DEF Folding
<1>9. ASSUME NEW e \in Events, \/ \E b \in BOOLEAN : Ingest(e, b)
                               \/ UploadAgain(e) \/ Suppress(e)
      PROVE  Ages'
  <2>1. UNCHANGED <<forgotten, run, digests>>
    BY <1>9 DEF Ingest, UploadAgain, Suppress
  <2>2. \A o \in Events : o # e => event'[o] = event[o]
    BY <1>0, <1>9 DEF Ingest, UploadAgain, Suppress
  <2>3. event'[e].version \in {event[e].version, event[e].version + 1}
    <3>1. CASE \E b \in BOOLEAN : Ingest(e, b)
      <4>1. event'[e].version = 1
        BY <1>0, <3>1 DEF Ingest, NoEvent
      <4> QED
        BY <3>1, <4>1 DEF Ingest, Typed
    <3>2. CASE UploadAgain(e) \/ Suppress(e)
      BY <1>0, <3>2 DEF UploadAgain, Suppress, EventRows
    <3> QED
      BY <1>9, <3>1, <3>2
  <2>4. \A o \in Events : event'[o].version \in Nat /\ event[o].version <= event'[o].version
    BY <1>0, <2>2, <2>3
  <2> QED
    BY <1>0, <1>1, <2>1, <2>4, AgesStay DEF Folding
<1> QED
  BY <1>3, <1>4, <1>6, <1>7, <1>8, <1>9, ReadEventsAges, PublishAges DEF Next, Work, Read, Gc, Api, Events

-----------------------------------------------------------------------------
(* What publishing keeps *)

Inv == Typed /\ Kept /\ Alone /\ OnLatest /\ Ages

LEMMA AlwaysInv == Spec => []Inv
<1>1. Init => Inv
  <2> SUFFICES ASSUME Init PROVE Inv
    OBVIOUS
  <2>1. Typed /\ Kept
    BY InitTyped DEF Init, Kept, NoGc
  <2>2. \A j \in Jobs : run[j].pc = "none" /\ run[j].known = {}
    BY DEF Init, NoRun
  <2>3. Published = {} /\ forgotten = {}
    BY <2>1, PublishedIs DEF Init
  <2> QED
    BY <2>1, <2>2, <2>3 DEF Inv, Alone, OnLatest, Ages, Working, Folding
<1>2. Inv /\ [Next]_vars => Inv'
  BY NextTyped, NextKept, NextAlone, NextOnLatest, NextAges DEF Inv
<1> QED
  BY <1>1, <1>2, PTL DEF Spec

\* Publishing never loses what the scope's state held, unless it was forgotten, its
\* document was uploaded again, or a full rebuild starts over; and a digest job never
\* brings back a fact it knew to be forgotten.
THEOREM PublishAlwaysKeeps == Spec => PublishKeeps
<1>1. ASSUME Inv, NEW j \in Jobs, Publish(j)
      PROVE  /\ \/ job[j].full /\ run[j].base.at = 0
                \/ \A c \in Published \ forgotten :
                     \E d \in Latest(digests').facts : d[1] = c[1] /\ d[2] >= c[2]
             /\ run[j].known \cap Latest(digests').facts = {}
  <2>1. run[j] \in Runs /\ run[j].batches # {} /\ run[j].pc = "fold"
    BY <1>1 DEF Publish, Inv, Typed, Agree
  <2>2. PICK B \in SUBSET Given(run[j]) : Merged(run[j]) = Folded(run[j].prev, B) \ run[j].known
    BY <2>1, MergedIs
  <2>3. Latest(digests').facts = Folded(run[j].prev, B) \ run[j].known
    BY <1>1, <2>2, PublishedNew DEF Inv
  <2>4. run[j].known \subseteq forgotten
    BY <1>1 DEF Inv, OnLatest
  <2>5. ASSUME run[j].prev = Published, NEW c \in Published \ forgotten
        PROVE  \E d \in Latest(digests').facts : d[1] = c[1] /\ d[2] >= c[2]
    <3>1. c \in Contents /\ c[2] \in Nat
      BY <1>1, <2>5, PublishedIs DEF Inv, Contents, Versions
    <3>2. CASE \E b \in B : b[1] = c[1] /\ b[2] > c[2]
      <4>1. PICK b \in B : b[1] = c[1] /\ b[2] > c[2]
        BY <3>2
      <4>2. b[2] \in Nat
        BY <2>1, GivenType DEF Contents, Versions
      <4>3. b \notin forgotten
        BY <1>1, <2>5, <3>1, <4>1, <4>2 DEF Inv, Ages, Older
      <4>4. b \in Latest(digests').facts
        BY <2>3, <2>4, <4>3 DEF Folded
      <4> QED
        BY <3>1, <4>1, <4>2, <4>4
    <3>3. CASE ~\E b \in B : b[1] = c[1] /\ b[2] > c[2]
      <4>1. c \in Latest(digests').facts
        BY <2>3, <2>4, <2>5, <3>3 DEF Folded
      <4> QED
        BY <3>1, <4>1
    <3> QED
      BY <3>2, <3>3
  <2>6. run[j].prev = Published \/ (job[j].full /\ run[j].base.at = 0)
    BY <1>1, <2>1 DEF Inv, OnLatest
  <2> QED
    BY <2>3, <2>5, <2>6
<1>2. Inv /\ [Next]_vars =>
        [\A j \in Jobs :
           Publish(j) =>
             /\ \/ job[j].full /\ run[j].base.at = 0
                \/ \A c \in Published \ forgotten :
                     \E d \in Latest(digests').facts : d[1] = c[1] /\ d[2] >= c[2]
             /\ run[j].known \cap Latest(digests').facts = {}]_vars
  BY <1>1
<1> QED
  BY <1>2, AlwaysInv, PTL DEF Spec, PublishKeeps
=============================================================================
