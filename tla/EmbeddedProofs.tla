------------------------------ MODULE EmbeddedProofs ------------------------------
(***************************************************************************)
(* Proofs about the embedded backend.  EmbeddedDigest, for any events,      *)
(* processes, clocks, limits and ceilings.  EmbeddedLock (Lock), for any    *)
(* number of scopes, processes and attempts and any expiry: as long as no   *)
(* run outlives its row (~MayOverstay), the row that is released without an *)
(* owner is always the releasing run's own.                                 *)
(***************************************************************************)
EXTENDS EmbeddedDigest, LockRows, FiniteSetTheorems, TLAPS

-----------------------------------------------------------------------------
(* Minima *)

\* A non-empty set of naturals has a least member, and Min is it.
LEMMA MinOfNats ==
  ASSUME NEW S \in SUBSET Nat, S # {}
  PROVE  Min(S) \in S /\ \A n \in S : Min(S) <= n
<1> DEFINE T == {1..m : m \in S}
<1>1. T \subseteq FiniteSubsetsOf(Nat)
  BY FS_Interval DEF FiniteSubsetsOf
<1>2. T # {}
  OBVIOUS
<1>3. IsWellFoundedOn(StrictSubsetOrdering(Nat), FiniteSubsetsOf(Nat))
  BY FS_StrictSubsetOrderingWellFounded
<1> HIDE DEF T
<1>4. PICK x \in T : \A y \in T : ~ (<<y, x>> \in StrictSubsetOrdering(Nat))
  BY <1>1, <1>2, <1>3, WFMin
<1>5. PICK m \in S : x = 1..m
  BY DEF T
<1>6. ASSUME NEW n \in S, n < m
      PROVE  FALSE
  <2>1. 1..n \subseteq 1..m /\ 1..n # 1..m
    <3>1. m \in 1..m /\ m \notin 1..n
      BY <1>6
    <3> QED
      BY <1>6, <3>1
  <2>2. 1..n \in T /\ 1..n \in SUBSET Nat /\ 1..m \in SUBSET Nat
    BY DEF T
  <2>3. <<1..n, 1..m>> \in StrictSubsetOrdering(Nat)
    BY <2>1, <2>2 DEF StrictSubsetOrdering
  <2> QED
    BY <1>4, <1>5, <2>2, <2>3
<1>7. \A n \in S : m <= n
  BY <1>6
<1> QED
  BY <1>7 DEF Min

\* What CountMiss counts never passes the ceiling.
LEMMA MinOfTwo ==
  ASSUME NEW m \in Nat, NEW n \in Nat
  PROVE  Min({m, n}) = IF m <= n THEN m ELSE n
BY MinOfNats

-----------------------------------------------------------------------------
(* Type correctness *)

\* Every stamp is taken from a clock that has started.
Stamped ==
  /\ now > 0
  /\ \A e \in DOMAIN stored : stored[e].ingested > 0
  /\ \A p \in Processes : writing[p].event # {} => writing[p].at > 0

Typed == TypeOK /\ Stamped

\* Processes' own clocks run in the naturals, and have started.
LEMMA NowMsType ==
  ASSUME Typed, NEW p \in Processes
  PROVE  NowMs(p) \in Nat /\ NowMs(p) > 0
BY DEF Typed, TypeOK, Stamped, NowMs

\* The placeholder is stamped with a natural, not after now and before every event.
LEMMA PlaceholderStamp ==
  ASSUME Typed, NEW t \in Nat
  PROVE  /\ PlaceholderCreatedAt(t) \in Nat
         /\ PlaceholderCreatedAt(t) <= t
         /\ \A e \in DOMAIN stored : PlaceholderCreatedAt(t) < stored[e].ingested
<1> DEFINE S == {t} \cup {stored[e].ingested - 1 : e \in DOMAIN stored}
<1>1. \A e \in DOMAIN stored : stored[e].ingested \in Nat /\ stored[e].ingested > 0
  BY DEF Typed, TypeOK, Stamped, Stamps
<1>2. S \in SUBSET Nat /\ S # {}
  BY <1>1
<1>3. Min(S) \in S /\ \A n \in S : Min(S) <= n
  BY <1>2, MinOfNats
<1>4. PlaceholderCreatedAt(t) = Min(S)
  BY DEF PlaceholderCreatedAt
<1> HIDE DEF S
<1>5. PlaceholderCreatedAt(t) \in Nat /\ \A n \in S : PlaceholderCreatedAt(t) <= n
  BY <1>2, <1>3, <1>4
<1>6. PlaceholderCreatedAt(t) <= t
  BY <1>5 DEF S
<1>7. ASSUME NEW e \in DOMAIN stored
      PROVE  PlaceholderCreatedAt(t) < stored[e].ingested
  <2>1. stored[e].ingested - 1 \in S
    BY DEF S
  <2> QED
    BY <2>1, <1>1, <1>5
<1> QED
  BY <1>5, <1>6, <1>7

\* The shape of a run.
Runs ==
  [phase : Phases, since : Nat, base : SUBSET Events, window : SUBSET Events,
   pending : SUBSET Events, read : SUBSET Events, result : {"none", "partial", "complete"}]

\* Every step keeps the types.
LEMMA NextTyped == Typed /\ [Next]_vars => Typed'
<1> SUFFICES ASSUME Typed, [Next]_vars PROVE Typed'
  OBVIOUS
<1>0. /\ Idle \in Runs /\ NotWriting \in [event : SUBSET Events, at : Nat, created : Nat]
      /\ NotWriting.event = {}
  BY DEF Idle, NotWriting, Runs, Phases
<1> USE <1>0, DigestAssumption, NowMsType DEF Typed, TypeOK, Stamped
<1>1. ASSUME NEW p \in Processes, NEW e \in Events, StampEvent(p, e)
      PROVE  Typed'
  <2>1. writing' \in [Processes -> [event : SUBSET Events, at : Nat, created : Nat]]
    BY <1>1 DEF StampEvent
  <2>2. last' \in [Processes -> Nat]
    BY <1>1 DEF StampEvent
  <2>3. \A q \in Processes : writing'[q].event # {} => writing'[q].at > 0
    BY <1>1 DEF StampEvent
  <2> QED
    BY <1>1, <2>1, <2>2, <2>3 DEF StampEvent
<1>2. ASSUME NEW p \in Processes, StoreEvent(p)
      PROVE  Typed'
  <2>1. PICK e \in writing[p].event, t \in writing[p].at..now :
          stored' = [x \in DOMAIN stored \cup {e} |->
                       IF x = e THEN [created |-> writing[p].created, ingested |-> t] ELSE stored[x]]
    BY <1>2 DEF StoreEvent
  <2>2. t \in Nat /\ t > 0 /\ e \in Events /\ writing[p].created \in Nat
    BY <2>1
  <2>3. DOMAIN stored' = DOMAIN stored \cup {e}
    BY <2>1
  <2>4. stored' \in [DOMAIN stored' -> Stamps]
    BY <2>1, <2>2 DEF Stamps
  <2>5. \A x \in DOMAIN stored' : stored'[x].ingested > 0
    BY <2>1, <2>2
  <2>6. writing' \in [Processes -> [event : SUBSET Events, at : Nat, created : Nat]]
        /\ \A q \in Processes : writing'[q].event # {} => writing'[q].at > 0
    BY <1>2 DEF StoreEvent
  <2> QED
    BY <1>2, <2>2, <2>3, <2>4, <2>5, <2>6 DEF StoreEvent
<1>3. ASSUME NEW p \in Processes, FirstNote(p)
      PROVE  Typed'
  <2>1. latest' \in [at : Nat, folded : SUBSET Events]
    BY <1>3, PlaceholderStamp DEF FirstNote
  <2> QED
    BY <1>3, <2>1 DEF FirstNote
<1>4. ASSUME NEW p \in Processes, Acquire(p)
      PROVE  Typed'
  <2>1. run' \in [Processes -> Runs]
    BY <1>4 DEF Acquire, Runs, Phases, Idle
  <2>2. forced' \in 0..MaxForced
    BY <1>4 DEF Acquire
  <2> QED
    BY <1>4, <2>1, <2>2 DEF Acquire, Runs
<1>5. ASSUME NEW p \in Processes, Load(p)
      PROVE  Typed'
  <2>1. PICK W \in SUBSET DOMAIN stored :
          run' = [run EXCEPT ![p] = [Idle EXCEPT !.phase = "loaded", !.since = latest.at,
                                                 !.base = latest.folded, !.window = W]]
    BY <1>5 DEF Load, Newest
  <2>2. [Idle EXCEPT !.phase = "loaded", !.since = latest.at, !.base = latest.folded, !.window = W] \in Runs
    BY <2>1 DEF Runs, Phases
  <2>3. run' \in [Processes -> Runs]
    BY <2>1, <2>2 DEF Runs
  <2> QED
    BY <1>5, <2>3 DEF Load, Runs
<1>6. ASSUME NEW p \in Processes, ReadPending(p)
      PROVE  Typed'
  <2>1. run' \in [Processes -> Runs]
    <3>1. Pending \in SUBSET Events
      BY DEF Pending
    <3>2. [run[p] EXCEPT !.phase = "ready", !.pending = Pending] \in Runs
      BY <3>1 DEF Runs, Phases
    <3> QED
      BY <1>6, <3>2 DEF ReadPending, Runs
  <2> QED
    BY <1>6, <2>1 DEF ReadPending, Runs
<1>7. ASSUME NEW p \in Processes, NEW chosen \in SUBSET run[p].window, NEW read \in SUBSET chosen,
             NEW degraded, Answered(p, chosen, read, degraded)
      PROVE  run' \in [Processes -> Runs]
  <2>1. PICK result \in {"partial", "complete"} :
          run' = [run EXCEPT ![p] = [Idle EXCEPT !.phase = "answered", !.base = run[p].base, !.pending = run[p].pending,
                                                 !.read = read, !.result = result]]
    BY <1>7 DEF Answered
  <2>2. run \in [Processes -> Runs] /\ run[p] \in Runs
    BY DEF Runs
  <2>3. run[p].base \in SUBSET Events /\ run[p].pending \in SUBSET Events /\ read \in SUBSET Events
    BY <1>7, <2>2 DEF Runs
  <2>4. "answered" \in Phases
    BY DEF Phases
  <2>5. [Idle EXCEPT !.phase = "answered", !.base = run[p].base, !.pending = run[p].pending,
                     !.read = read, !.result = result] \in Runs
    BY <2>1, <2>3, <2>4 DEF Runs
  <2> QED
    BY <2>1, <2>2, <2>5
<1>8. ASSUME NEW p \in Processes, NothingNew(p) \/ Distill(p) \/ RetryContradicts(p)
      PROVE  Typed'
  <2>1. \E chosen \in SUBSET run[p].window : \E read \in SUBSET chosen : \E degraded \in {"no", "chunks_failed"} :
          Answered(p, chosen, read, degraded)
    BY <1>8 DEF NothingNew, Distill, RetryContradicts, Selections
  <2>2. run' \in [Processes -> Runs]
    BY <2>1, <1>7
  <2> QED
    BY <1>8, <2>2 DEF NothingNew, Distill, RetryContradicts, Runs
<1>9. ASSUME NEW p \in Processes, Ended(p)
      PROVE  run' \in [Processes -> Runs]
  BY <1>9 DEF Ended, Runs, Phases, Idle
<1>10. ASSUME NEW chosen, NEW runs \in 0..MaxFailures
       PROVE  OneMore(runs, chosen) \in 0..MaxFailures
  <2>1. runs + 1 \in Nat /\ MaxFailures \in Nat
    OBVIOUS
  <2>2. Min({runs + 1, MaxFailures}) = IF runs + 1 <= MaxFailures THEN runs + 1 ELSE MaxFailures
    BY <2>1, MinOfTwo
  <2> QED
    BY <2>2 DEF OneMore
<1>11. ASSUME NEW p \in Processes, DistillNothing(p)
       PROVE  Typed'
  <2>1. PICK chosen \in SUBSET run[p].window :
          \/ OneMoreFailure /\ RecordFailure /\ misses' = OneMore(misses, chosen) /\ Ended(p)
          \/ Answered(p, chosen, {}, "gave_up") /\ UNCHANGED <<failures, misses>>
    BY <1>11 DEF DistillNothing, Selections
  <2>2. run' \in [Processes -> Runs]
    BY <2>1, <1>7, <1>9
  <2>3. failures' \in 0..MaxFailures /\ misses' \in 0..MaxFailures
    BY <2>1, <1>10 DEF OneMoreFailure, RecordFailure
  <2> QED
    BY <1>11, <2>2, <2>3 DEF DistillNothing, Runs
<1>12. ASSUME NEW p \in Processes, NothingToFallBackOn(p) \/ ModelFails(p)
       PROVE  Typed'
  <2>1. run' \in [Processes -> Runs]
    BY <1>9, <1>12 DEF NothingToFallBackOn, ModelFails
  <2> QED
    BY <1>12, <2>1 DEF NothingToFallBackOn, ModelFails, Runs
<1>13. ASSUME NEW p \in Processes, Write(p)
       PROVE  Typed'
  <2>1. run' \in [Processes -> Runs]
    BY <1>13 DEF Write, Runs, Phases
  <2>2. latest' \in [at : Nat, folded : SUBSET Events]
    <3>1. [at |-> NowMs(p), folded |-> run[p].base \cup run[p].read] \in [at : Nat, folded : SUBSET Events]
      OBVIOUS
    <3> QED
      BY <1>13, <3>1 DEF Write
  <2>3. last' \in [Processes -> Nat]
    BY <1>13 DEF Write
  <2> QED
    <3>1. misses' = 0 /\ UNCHANGED <<now, stored, writing, failures, lock, forced>>
      BY <1>13 DEF Write
    <3>2. misses' \in 0..MaxFailures
      BY <3>1
    <3> QED
      BY <2>1, <2>2, <2>3, <3>1, <3>2 DEF Runs
<1>14. ASSUME NEW p \in Processes, ClearFailures(p) \/ Release(p)
       PROVE  Typed'
  <2>0. [run[p] EXCEPT !.phase = "ended"] \in Runs
    BY DEF Runs, Phases
  <2>1. run' \in [Processes -> Runs]
    <3>1. CASE ClearFailures(p)
      BY <2>0, <3>1 DEF ClearFailures, Runs
    <3>2. CASE Release(p)
      BY <3>2 DEF Release, Runs
    <3> QED
      BY <1>14, <3>1, <3>2
  <2> QED
    BY <1>14, <2>1 DEF ClearFailures, Release, Runs
<1>15. ASSUME NEW p \in Processes, Crash(p)
       PROVE  Typed'
  <2>1. run' \in [Processes -> Runs]
    BY <1>15 DEF Crash, Runs
  <2>2. writing' \in [Processes -> [event : SUBSET Events, at : Nat, created : Nat]]
        /\ \A q \in Processes : writing'[q].event # {} => writing'[q].at > 0
    BY <1>15 DEF Crash
  <2> QED
    BY <1>15, <2>1, <2>2 DEF Crash, Runs
<1>16. ASSUME LockExpires \/ Tick
       PROVE  Typed'
  BY <1>16 DEF LockExpires, Tick
<1>17. ASSUME UNCHANGED vars
       PROVE  Typed'
  BY <1>17 DEF vars
<1> QED
  BY <1>1, <1>2, <1>3, <1>4, <1>5, <1>6, <1>8, <1>11, <1>12, <1>13, <1>14, <1>15, <1>16, <1>17
     DEF Next, Prepare, Reply, Conclude

\* The initial state is typed, and its clock has started.
LEMMA InitTyped == Init => Typed
BY DigestAssumption DEF Init, Typed, TypeOK, Stamped, NotWriting, Idle, Phases, Stamps

LEMMA AlwaysTyped == Spec => []Typed
BY InitTyped, NextTyped, PTL DEF Spec

\* Rows, stamps, counts and runs always keep their shape.
THEOREM TypeCorrect == Spec => []TypeOK
<1>1. Typed => TypeOK
  BY DEF Typed
<1> QED
  BY <1>1, AlwaysTyped, PTL

-----------------------------------------------------------------------------
(* What is folded in stays folded in *)

\* Has p read the state it builds on, and not yet written?
Building(p) == run[p].phase \in {"loaded", "ready", "answered"}

\* A run has the lock, and the state it builds on is the newest: only a first note comes
\* in between, and it finds nothing folded.
OnNewest ==
  /\ \A p \in Processes : run[p].phase # "idle" => lock = p
  /\ \A p \in Processes : Building(p) => run[p].base = latest.folded
  /\ latest.at = 0 => latest.folded = {}

\* The run that answers has its phase and its base as before.
LEMMA AnsweredRun ==
  ASSUME Typed, NEW p \in Processes, NEW chosen, NEW read, NEW degraded,
         Answered(p, chosen, read, degraded)
  PROVE  /\ run'[p].phase = "answered" /\ run'[p].base = run[p].base
         /\ \A q \in Processes : q # p => run'[q] = run[q]
BY DEF Answered, Typed, TypeOK, Idle

\* A run whose stage 2 gave no answer has ended.
LEMMA EndedRun ==
  ASSUME Typed, NEW p \in Processes, Ended(p)
  PROVE  run'[p].phase = "ended" /\ \A q \in Processes : q # p => run'[q] = run[q]
BY DEF Ended, Typed, TypeOK, Idle

\* What the model's replies do to the runs: one of them answers or ends.
LEMMA RepliedRun ==
  ASSUME Typed, NEW p \in Processes, Reply(p) \/ ModelFails(p)
  PROVE  /\ run[p].phase = "ready"
         /\ run'[p].phase \in {"answered", "ended"}
         /\ run'[p].phase = "answered" => run'[p].base = run[p].base
         /\ \A q \in Processes : q # p => run'[q] = run[q]
         /\ UNCHANGED <<lock, latest, stored>>
<1>1. /\ run[p].phase = "ready"
      /\ \/ \E chosen, read, degraded : Answered(p, chosen, read, degraded)
         \/ Ended(p)
      /\ UNCHANGED <<lock, latest, stored>>
  BY DEF Reply, NothingNew, Distill, RetryContradicts, DistillNothing, NothingToFallBackOn, ModelFails, At
<1> QED
  BY <1>1, AnsweredRun, EndedRun

\* Every step keeps a run on the newest state, and none undoes what is folded in.
LEMMA NextOnNewest ==
  ASSUME Typed, OnNewest, [Next]_vars
  PROVE  OnNewest' /\ latest.folded \subseteq latest'.folded
<1> DEFINE Goal == OnNewest' /\ latest.folded \subseteq latest'.folded
<1> USE DEF OnNewest, Building
<1>0. Processes # {} => run \in [Processes -> Runs] /\ NoProcess \notin Processes
  BY DigestAssumption DEF Typed, TypeOK, Runs
<1>1. ASSUME NEW p \in Processes, \/ \E e \in Events : StampEvent(p, e)
                                  \/ StoreEvent(p)
      PROVE  Goal
  BY <1>1 DEF StampEvent, StoreEvent
<1>2. ASSUME NEW p \in Processes, FirstNote(p)
      PROVE  Goal
  <2>1. latest'.folded = {} /\ latest.folded = {}
    BY <1>2 DEF FirstNote
  <2> QED
    BY <1>2, <2>1 DEF FirstNote
<1>3. ASSUME NEW p \in Processes, Acquire(p)
      PROVE  Goal
  <2>1. run'[p].phase = "locked" /\ \A q \in Processes : q # p => run'[q] = run[q]
    BY <1>0, <1>3 DEF Acquire, Idle
  <2>2. \A q \in Processes : run[q].phase = "idle"
    BY <1>0, <1>3 DEF Acquire, LockFree
  <2> QED
    BY <1>3, <2>1, <2>2 DEF Acquire
<1>4. ASSUME NEW p \in Processes, Load(p)
      PROVE  Goal
  <2>1. /\ run'[p].phase = "loaded" /\ run'[p].base = latest.folded
        /\ \A q \in Processes : q # p => run'[q] = run[q]
    BY <1>0, <1>4 DEF Load, Idle
  <2> QED
    BY <1>4, <2>1 DEF Load, At
<1>5. ASSUME NEW p \in Processes, ReadPending(p)
      PROVE  Goal
  <2>1. /\ run'[p].phase = "ready" /\ run'[p].base = run[p].base
        /\ \A q \in Processes : q # p => run'[q] = run[q]
    BY <1>0, <1>5 DEF ReadPending, Runs
  <2> QED
    BY <1>5, <2>1 DEF ReadPending, At
<1>6. ASSUME NEW p \in Processes, Reply(p) \/ ModelFails(p)
      PROVE  Goal
  BY <1>6, RepliedRun
<1>7. ASSUME NEW p \in Processes, Write(p)
      PROVE  Goal
  <2>1. /\ run'[p].phase = "written" /\ \A q \in Processes : q # p => run'[q] = run[q]
        /\ run[p].phase = "answered" /\ lock' = lock
    BY <1>0, <1>7 DEF Write, At, Runs
  <2>2. \A q \in Processes : ~ Building(q)'
    BY <2>1, <1>0
  <2>3. \/ latest' = latest
        \/ latest' = [at |-> NowMs(p), folded |-> run[p].base \cup run[p].read]
    BY <1>7 DEF Write
  <2>4. latest.folded \subseteq latest'.folded
    BY <2>1, <2>3
  <2>5. latest'.at = 0 => latest'.folded = {}
    BY <2>3, NowMsType
  <2> QED
    BY <2>1, <2>2, <2>4, <2>5
<1>8. ASSUME NEW p \in Processes, ClearFailures(p) \/ Release(p)
      PROVE  Goal
  <2>1. /\ run'[p].phase \in {"ended", "idle"} /\ run[p].phase \in {"written", "ended"}
        /\ \A q \in Processes : q # p => run'[q] = run[q]
        /\ latest' = latest
        /\ run'[p].phase = "ended" => lock' = lock
    BY <1>0, <1>8 DEF ClearFailures, Release, At, Runs, Idle
  <2> QED
    BY <2>1
<1>9. ASSUME NEW p \in Processes, Crash(p)
      PROVE  Goal
  <2>1. run'[p].phase = "idle" /\ \A q \in Processes : q # p => run'[q] = run[q]
    BY <1>0, <1>9 DEF Crash, Idle
  <2> QED
    BY <1>9, <2>1 DEF Crash
<1>10. ASSUME LockExpires
       PROVE  Goal
  BY <1>10 DEF LockExpires
<1>11. ASSUME Tick \/ UNCHANGED vars
       PROVE  Goal
  BY <1>11 DEF Tick, vars
<1> QED
  BY <1>1, <1>2, <1>3, <1>4, <1>5, <1>6, <1>7, <1>8, <1>9, <1>10, <1>11 DEF Next, Prepare, Conclude

\* Whatever runs, first notes, crashes and expiries come in between, no step takes an
\* event out of what the newest digest has folded in.
THEOREM FoldedAlwaysStays == Spec => FoldedStays
<1>1. Init => OnNewest
  BY DEF Init, OnNewest, Building, Idle
<1>2. Typed /\ OnNewest /\ [Next]_vars => OnNewest'
  BY NextOnNewest
<1>3. Typed /\ OnNewest /\ [Next]_vars => [latest.folded \subseteq latest'.folded]_vars
  BY NextOnNewest
<1> QED
  BY <1>1, <1>2, <1>3, AlwaysTyped, PTL DEF Spec, FoldedStays

-----------------------------------------------------------------------------
(* First notes *)

\* A first note hides no event, since its placeholder is stamped before every one that is stored.
THEOREM FirstNoteAlwaysKeepsPending == Spec => FirstNoteKeepsPending
<1>1. ASSUME Typed, NEW p \in Processes, FirstNote(p)
      PROVE  Pending \subseteq Pending'
  <2>1. NowMs(p) \in Nat
    BY <1>1, NowMsType
  <2>2. stored' = stored /\ latest'.at = PlaceholderCreatedAt(NowMs(p))
    BY <1>1 DEF FirstNote
  <2>3. \A e \in DOMAIN stored : stored[e].ingested > latest'.at
    BY <1>1, <2>1, <2>2, PlaceholderStamp DEF Typed, TypeOK, Stamps
  <2> QED
    BY <2>2, <2>3 DEF Pending, Newer
<1>2. Typed => [(\E p \in Processes : FirstNote(p)) => Pending \subseteq Pending']_vars
  BY <1>1
<1> QED
  BY <1>2, AlwaysTyped, PTL DEF Spec, FirstNoteKeepsPending

-----------------------------------------------------------------------------
(* The failure ceiling *)

\* Every run that distilled nothing and had something to carry forward is among the recorded
\* failures, and these are below the ceiling; once a digest is written there is none, until its row is deleted too.
Counted ==
  /\ misses <= failures /\ failures < MaxFailures
  /\ \A p \in Processes : run[p].phase = "written" => misses = 0

\* Every step keeps the count; a run that throws does not touch it.
LEMMA NextCounted ==
  ASSUME Typed, OnNewest, Counted, [Next]_vars
  PROVE  Counted'
<1>0. /\ Processes # {} => run \in [Processes -> Runs] /\ NoProcess \notin Processes
      /\ MaxFailures \in Nat /\ misses \in Nat /\ failures \in Nat
  BY DigestAssumption DEF Typed, TypeOK, Runs
<1> USE DEF Counted
<1>1. ASSUME NEW p \in Processes, UNCHANGED <<misses, failures>>,
             run'[p].phase # "written", \A q \in Processes : q # p => run'[q] = run[q]
      PROVE  Counted'
  BY <1>1
<1>2. ASSUME NEW p \in Processes, \/ \E e \in Events : StampEvent(p, e)
                                  \/ StoreEvent(p) \/ FirstNote(p)
      PROVE  Counted'
  BY <1>2 DEF StampEvent, StoreEvent, FirstNote
<1>3. ASSUME NEW p \in Processes, \/ Acquire(p) \/ Load(p) \/ ReadPending(p) \/ Release(p) \/ Crash(p)
      PROVE  Counted'
  <2>1. /\ run'[p].phase # "written" /\ \A q \in Processes : q # p => run'[q] = run[q]
        /\ UNCHANGED <<misses, failures>>
    <3>1. CASE Acquire(p)
      BY <1>0, <3>1 DEF Acquire, Idle
    <3>2. CASE Load(p)
      BY <1>0, <3>2 DEF Load, Idle
    <3>3. CASE ReadPending(p)
      BY <1>0, <3>3 DEF ReadPending, Runs
    <3>4. CASE Release(p) \/ Crash(p)
      BY <1>0, <3>4 DEF Release, Crash, Idle
    <3> QED
      BY <1>3, <3>1, <3>2, <3>3, <3>4
  <2> QED
    BY <1>1, <2>1
<1>4. ASSUME NEW p \in Processes, NothingNew(p) \/ Distill(p) \/ RetryContradicts(p) \/ ModelFails(p)
      PROVE  Counted'
  <2>1. UNCHANGED <<misses, failures>>
    BY <1>4 DEF NothingNew, Distill, RetryContradicts, ModelFails
  <2> QED
    BY <1>1, <1>4, <2>1, RepliedRun DEF Reply
<1>5. ASSUME NEW p \in Processes, DistillNothing(p) \/ NothingToFallBackOn(p)
      PROVE  \A q \in Processes : run'[q].phase # "written"
  <2>1. run[p].phase = "ready" /\ run'[p].phase # "written"
        /\ \A q \in Processes : q # p => run'[q] = run[q]
    BY <1>5, RepliedRun DEF Reply
  <2>2. \A q \in Processes : q # p => run[q].phase # "written"
    BY <2>1 DEF OnNewest
  <2> QED
    BY <2>1, <2>2
<1>6. ASSUME NEW p \in Processes, DistillNothing(p)
      PROVE  Counted'
  <2>1. PICK chosen : \/ OneMoreFailure /\ RecordFailure /\ misses' = OneMore(misses, chosen)
                      \/ UNCHANGED <<failures, misses>>
    BY <1>6 DEF DistillNothing
  <2>2. CASE OneMoreFailure /\ RecordFailure /\ misses' = OneMore(misses, chosen)
    <3>1. failures' = failures + 1 /\ failures' < MaxFailures
      BY <2>2 DEF OneMoreFailure, RecordFailure
    <3>2. Min({misses + 1, MaxFailures}) = misses + 1
      <4>1. misses + 1 \in Nat /\ misses + 1 <= MaxFailures
        BY <1>0
      <4> QED
        BY <1>0, <4>1, MinOfTwo
    <3>3. misses' \in {misses, misses + 1}
      BY <2>2, <3>2 DEF OneMore
    <3> QED
      BY <1>0, <1>5, <1>6, <3>1, <3>3
  <2>3. CASE UNCHANGED <<failures, misses>>
    BY <1>5, <1>6, <2>3
  <2> QED
    BY <2>1, <2>2, <2>3
<1>7. ASSUME NEW p \in Processes, NothingToFallBackOn(p)
      PROVE  Counted'
  <2>1. UNCHANGED <<misses, failures>>
    BY <1>7 DEF NothingToFallBackOn
  <2> QED
    BY <1>5, <1>7, <2>1
<1>8. ASSUME NEW p \in Processes, Write(p)
      PROVE  Counted'
  BY <1>0, <1>8 DEF Write
<1>9. ASSUME NEW p \in Processes, ClearFailures(p)
      PROVE  Counted'
  <2>1. misses = 0
    BY <1>9 DEF ClearFailures, At
  <2>2. misses' = 0 /\ failures' = 0 /\ MaxFailures > 0
    BY <1>9, <2>1, DigestAssumption DEF ClearFailures
  <2> QED
    BY <2>2
<1>10. ASSUME LockExpires \/ Tick \/ UNCHANGED vars
       PROVE  Counted'
  BY <1>10 DEF LockExpires, Tick, vars
<1> QED
  BY <1>2, <1>3, <1>4, <1>6, <1>7, <1>8, <1>9, <1>10 DEF Next, Prepare, Reply, Conclude

\* Of the runs that distilled nothing though there was a digest or a state to carry
\* forward, there are never MaxFailures without a digest being written: whoever runs them,
\* wherever processes die, and whatever other runs fail or throw between them.
THEOREM AlwaysGivesUpInTime == Spec => []GivesUpInTime
<1>1. Init => OnNewest /\ Counted
  BY DigestAssumption DEF Init, OnNewest, Building, Counted, Idle
<1>2. Typed /\ OnNewest /\ Counted /\ [Next]_vars => (OnNewest /\ Counted)'
  BY NextOnNewest, NextCounted
<1>3. Typed /\ Counted => GivesUpInTime
  BY DigestAssumption DEF Typed, TypeOK, Counted, GivesUpInTime
<1> QED
  BY <1>1, <1>2, <1>3, AlwaysTyped, PTL DEF Spec

-----------------------------------------------------------------------------
(* The lock: type correctness *)

CONSTANTS ProcessOf, MayOverstay

VARIABLE running

Lock == INSTANCE EmbeddedLock

\* Counting down stays among the lives.
LEMMA LessIsALife ==
  ASSUME NEW n \in Lock!Lives
  PROVE  Lock!Less(n) \in Lock!Lives /\ n \in Nat /\ Expiry \in Lock!Lives /\ 0 \in Lock!Lives
BY LockAssumption DEF Lock!Less, Lock!Lives

\* Every step keeps the types.
LEMMA NextLockTyped == Lock!TypeOK /\ [Lock!Next]_Lock!vars => Lock!TypeOK'
<1> SUFFICES ASSUME Lock!TypeOK, [Lock!Next]_Lock!vars PROVE Lock!TypeOK'
  OBVIOUS
<1>0. Expiry \in Lock!Lives /\ 0 \in Lock!Lives /\ Lock!NoRow \in [by : Attempts \cup {NoAttempt}, left : Lock!Lives]
      /\ Lock!Idle \in [phase : Lock!Phases, scope : Scopes \cup {NoScope}, direct : BOOLEAN, left : Lock!Lives]
  BY LockAssumption DEF Lock!Lives, Lock!NoRow, Lock!Idle, Lock!Phases
<1> USE <1>0, LockAssumption DEF Lock!TypeOK, Lock!Phases
<1>1. ASSUME NEW a \in Attempts, NEW s \in Scopes, Lock!SkipRunning(a, s)
      PROVE  Lock!TypeOK'
  BY <1>1 DEF Lock!SkipRunning
<1>2. ASSUME NEW a \in Attempts, NEW s \in Scopes, NEW direct \in BOOLEAN, Lock!Reap(a, s, direct)
      PROVE  Lock!TypeOK'
  BY <1>2 DEF Lock!Reap
<1>3. ASSUME NEW a \in Attempts, Lock!Insert(a)
      PROVE  Lock!TypeOK'
  <2>1. row' \in [Scopes -> [by : Attempts \cup {NoAttempt}, left : Lock!Lives]]
    BY <1>3 DEF Lock!Insert
  <2>2. attempt' \in [Attempts -> [phase : Lock!Phases, scope : Scopes \cup {NoScope}, direct : BOOLEAN, left : Lock!Lives]]
    BY <1>3 DEF Lock!Insert
  <2> QED
    BY <1>3, <2>1, <2>2 DEF Lock!Insert
<1>4. ASSUME NEW a \in Attempts, Lock!SkipLocked(a)
      PROVE  Lock!TypeOK'
  BY <1>4 DEF Lock!SkipLocked
<1>5. ASSUME NEW a \in Attempts, Lock!Begin(a)
      PROVE  Lock!TypeOK'
  <2>1. running' \in [Processes -> BOOLEAN]
    BY <1>5 DEF Lock!Begin
  <2> QED
    BY <1>5, <2>1 DEF Lock!Begin
<1>6. ASSUME NEW a \in Attempts, Lock!Finish(a) \/ Lock!ReleaseFails(a)
      PROVE  Lock!TypeOK'
  <2>0. running' = [running EXCEPT ![ProcessOf[a]] = running[ProcessOf[a]] /\ attempt[a].direct]
    BY <1>6 DEF Lock!Finish, Lock!ReleaseFails
  <2>1. running' \in [Processes -> BOOLEAN]
    BY <2>0
  <2>2. row' \in [Scopes -> [by : Attempts \cup {NoAttempt}, left : Lock!Lives]]
    BY <1>6 DEF Lock!Finish, Lock!ReleaseFails
  <2>3. attempt' \in [Attempts -> [phase : Lock!Phases, scope : Scopes \cup {NoScope}, direct : BOOLEAN, left : Lock!Lives]]
    BY <1>6 DEF Lock!Finish, Lock!ReleaseFails
  <2> QED
    BY <2>1, <2>2, <2>3
<1>7. ASSUME NEW a \in Attempts, Lock!InsertFails(a) \/ Lock!Return(a)
      PROVE  Lock!TypeOK'
  BY <1>7 DEF Lock!InsertFails, Lock!Return
<1>8. ASSUME NEW p \in Processes, Lock!Crash(p)
      PROVE  Lock!TypeOK'
  BY <1>8 DEF Lock!Crash
<1>9. ASSUME Lock!Tick
      PROVE  Lock!TypeOK'
  BY <1>9, LessIsALife DEF Lock!Tick
<1>10. ASSUME UNCHANGED Lock!vars
       PROVE  Lock!TypeOK'
  BY <1>10 DEF Lock!vars
<1> QED
  BY <1>1, <1>2, <1>3, <1>4, <1>5, <1>6, <1>7, <1>8, <1>9, <1>10 DEF Lock!Next, Lock!Call, Lock!Continue

\* Rows, flags and attempts always have the shape the code gives them.
THEOREM LockTypeCorrect == Lock!Spec => []Lock!TypeOK
<1>1. Lock!Init => Lock!TypeOK
  BY LockAssumption DEF Lock!Init, Lock!TypeOK, Lock!NoRow, Lock!Idle, Lock!Lives, Lock!Phases
<1> QED
  BY <1>1, NextLockTyped, PTL DEF Lock!Spec

-----------------------------------------------------------------------------
(* Serialization *)

\* A run that has not ended has the row of its scope, with the same life left.
RowIsHeld ==
  \A s \in Scopes, a \in Attempts :
    Holds(a, s) => row[s] = [by |-> a, left |-> attempt[a].left] /\ attempt[a].left > 0

\* Every step keeps a run and its row together.
LEMMA NextRowIsHeld ==
  ASSUME ~MayOverstay, Lock!TypeOK, RowIsHeld, [Lock!Next]_Lock!vars
  PROVE  RowIsHeld'
<1> SUFFICES ASSUME NEW s \in Scopes, NEW b \in Attempts, Holds(b, s)'
             PROVE  row'[s] = [by |-> b, left |-> attempt'[b].left] /\ attempt'[b].left > 0
  BY DEF RowIsHeld
<1> DEFINE Kept == row'[s] = [by |-> b, left |-> attempt'[b].left] /\ attempt'[b].left > 0
<1>0. ASSUME Holds(b, s), row'[s] = row[s], attempt'[b] = attempt[b]
      PROVE  Kept
  BY <1>0 DEF RowIsHeld
<1>1. ASSUME NEW a \in Attempts, NEW t \in Scopes, Lock!SkipRunning(a, t)
      PROVE  Kept
  BY <1>0, <1>1 DEF Lock!SkipRunning, Holds, Lock!TypeOK
<1>2. ASSUME NEW a \in Attempts, NEW t \in Scopes, NEW direct \in BOOLEAN, Lock!Reap(a, t, direct)
      PROVE  Kept
  <2>1. Holds(b, s) /\ attempt'[b] = attempt[b]
    BY <1>2 DEF Lock!Reap, Holds, Lock!TypeOK
  <2>2. row[s] = [by |-> b, left |-> attempt[b].left] /\ attempt[b].left > 0
    BY <2>1 DEF RowIsHeld
  <2>3. row'[s] = row[s]
    BY <1>2, <2>2 DEF Lock!Reap, Lock!Expired
  <2> QED
    BY <1>0, <2>1, <2>3
<1>3. ASSUME NEW a \in Attempts, Lock!Insert(a)
      PROVE  Kept
  <2>1. CASE a = b
    BY <1>3, <2>1, LockAssumption DEF Lock!Insert, Holds, Lock!TypeOK
  <2>2. CASE a # b
    <3>1. Holds(b, s) /\ attempt'[b] = attempt[b]
      BY <1>3, <2>2 DEF Lock!Insert, Holds, Lock!TypeOK
    <3>2. row[s] = [by |-> b, left |-> attempt[b].left]
      BY <3>1 DEF RowIsHeld
    <3>3. Lock!Present(s)
      BY <3>2, LockAssumption DEF Lock!Present
    <3>4. row'[s] = row[s]
      BY <1>3, <3>3 DEF Lock!Insert, Lock!TypeOK
    <3> QED
      BY <1>0, <3>1, <3>4
  <2> QED
    BY <2>1, <2>2
<1>4. ASSUME NEW a \in Attempts, Lock!SkipLocked(a)
      PROVE  Kept
  BY <1>0, <1>4 DEF Lock!SkipLocked, Holds, Lock!TypeOK
<1>5. ASSUME NEW a \in Attempts, Lock!Begin(a)
      PROVE  Kept
  <2>1. Holds(b, s) /\ attempt'[b].left = attempt[b].left /\ row' = row
    BY <1>5 DEF Lock!Begin, Holds, Lock!TypeOK
  <2> QED
    BY <2>1 DEF RowIsHeld
<1>6. ASSUME NEW a \in Attempts, Lock!Finish(a)
      PROVE  Kept
  <2>1. a # b /\ Holds(b, s) /\ attempt'[b] = attempt[b]
    BY <1>6 DEF Lock!Finish, Holds, Lock!TypeOK, Lock!Idle
  <2>2. row[s] = [by |-> b, left |-> attempt[b].left]
    BY <2>1 DEF RowIsHeld
  <2>3. attempt[a].scope # s
    <3> SUFFICES ASSUME attempt[a].scope = s PROVE FALSE
      OBVIOUS
    <3>1. Holds(a, s)
      BY <1>6 DEF Lock!Finish, Holds
    <3>2. row[s] = [by |-> a, left |-> attempt[a].left]
      BY <3>1 DEF RowIsHeld
    <3>3. row[s].by = a /\ row[s].by = b
      BY <2>2, <3>2
    <3> QED
      BY <2>1, <3>3
  <2>4. row'[s] = row[s]
    BY <1>6, <2>3 DEF Lock!Finish, Lock!TypeOK
  <2> QED
    BY <1>0, <2>1, <2>4
<1>7. ASSUME NEW a \in Attempts, Lock!InsertFails(a) \/ Lock!ReleaseFails(a) \/ Lock!Return(a)
      PROVE  Kept
  <2>1. CASE Lock!InsertFails(a)
    BY <1>0, <2>1 DEF Lock!InsertFails, Holds, Lock!TypeOK, Lock!Idle
  <2>2. CASE Lock!ReleaseFails(a)
    BY <1>0, <2>2 DEF Lock!ReleaseFails, Holds, Lock!TypeOK, Lock!Idle
  <2>3. CASE Lock!Return(a)
    BY <1>0, <2>3 DEF Lock!Return, Holds, Lock!TypeOK, Lock!Idle
  <2> QED
    BY <1>7, <2>1, <2>2, <2>3
<1>8. ASSUME NEW p \in Processes, Lock!Crash(p)
      PROVE  Kept
  BY <1>0, <1>8 DEF Lock!Crash, Holds, Lock!TypeOK, Lock!Idle
<1>9. ASSUME Lock!Tick
      PROVE  Kept
  <2>1. Holds(b, s) /\ attempt'[b].left = Lock!Less(attempt[b].left)
    BY <1>9 DEF Lock!Tick, Holds
  <2>2. attempt[b].left > 1
    BY <1>9, <2>1 DEF Lock!Tick, Holds
  <2>3. row[s] = [by |-> b, left |-> attempt[b].left]
    BY <2>1 DEF RowIsHeld
  <2>4. Lock!Less(attempt[b].left) > 0
    <3>1. attempt[b].left \in Nat
      BY LessIsALife DEF Lock!TypeOK
    <3> QED
      BY <2>2, <3>1 DEF Lock!Less
  <2>5. row'[s] = [by |-> b, left |-> Lock!Less(attempt[b].left)]
    BY <1>9, <2>3 DEF Lock!Tick
  <2> QED
    BY <2>1, <2>4, <2>5
<1>10. ASSUME UNCHANGED Lock!vars
       PROVE  Kept
  BY <1>0, <1>10 DEF Lock!vars, Holds
<1> QED
  BY <1>1, <1>2, <1>3, <1>4, <1>5, <1>6, <1>7, <1>8, <1>9, <1>10 DEF Lock!Next, Lock!Call, Lock!Continue

\* As long as no run outlives its row, a run has its row throughout.
LEMMA RowAlwaysHeld ==
  ASSUME ~MayOverstay
  PROVE  Lock!Spec => []RowIsHeld
<1>1. Lock!Init => RowIsHeld
  BY DEF Lock!Init, RowIsHeld, Holds, Lock!Idle
<1>2. Lock!TypeOK /\ RowIsHeld /\ [Lock!Next]_Lock!vars => RowIsHeld'
  BY NextRowIsHeld
<1> QED
  BY <1>1, <1>2, LockTypeCorrect, PTL DEF Lock!Spec

\* "Serializes digest runs for one scope across every process sharing the same
\* SQLite file" (digest-lock.ts), with any number of them crashing, failing to
\* release, and ignoring the flag, as long as none outlives its row.
THEOREM RunsAreSerialized ==
  ASSUME ~MayOverstay
  PROVE  Lock!Spec => []Serialized
<1>1. ASSUME RowIsHeld, NEW s \in Scopes, NEW a \in Attempts, NEW b \in Attempts, Holds(a, s), Holds(b, s)
      PROVE  a = b
  <2>1. row[s] = [by |-> a, left |-> attempt[a].left] /\ row[s] = [by |-> b, left |-> attempt[b].left]
    BY <1>1 DEF RowIsHeld
  <2>2. row[s].by = a /\ row[s].by = b
    BY <2>1
  <2> QED
    BY <2>2
<1>2. RowIsHeld => Serialized
  BY <1>1 DEF Serialized
<1> QED
  BY <1>2, RowAlwaysHeld, PTL

-----------------------------------------------------------------------------
(* The rows are leases *)

\* Nothing is left of a row that is not there.
NoRowIsOver == \A s \in Scopes : ~Lock!Present(s) => row[s].left = 0

\* Every step leaves nothing of a row it removes.
LEMMA NextNoRowIsOver == Lock!TypeOK /\ NoRowIsOver /\ [Lock!Next]_Lock!vars => NoRowIsOver'
<1> SUFFICES ASSUME Lock!TypeOK, NoRowIsOver, [Lock!Next]_Lock!vars,
                    NEW s \in Scopes, ~Lock!Present(s)'
             PROVE  row'[s].left = 0
  BY DEF NoRowIsOver
<1> USE DEF NoRowIsOver, Lock!Present
<1>1. ASSUME NEW a \in Attempts, NEW t \in Scopes, NEW direct \in BOOLEAN, Lock!Reap(a, t, direct)
      PROVE  row'[s].left = 0
  BY <1>1 DEF Lock!Reap, Lock!NoRow
<1>2. ASSUME NEW a \in Attempts, Lock!Insert(a)
      PROVE  row'[s].left = 0
  BY <1>2, LockAssumption DEF Lock!Insert, Lock!TypeOK
<1>3. ASSUME NEW a \in Attempts, Lock!Finish(a)
      PROVE  row'[s].left = 0
  BY <1>3 DEF Lock!Finish, Lock!NoRow, Lock!TypeOK
<1>4. ASSUME Lock!Tick
      PROVE  row'[s].left = 0
  BY <1>4 DEF Lock!Tick, Lock!Less
<1>5. ASSUME UNCHANGED row
      PROVE  row'[s].left = 0
  BY <1>5
<1> QED
  BY <1>1, <1>2, <1>3, <1>4, <1>5
  DEF Lock!Next, Lock!Call, Lock!Continue, Lock!vars, Lock!SkipRunning, Lock!SkipLocked, Lock!Begin, Lock!Return, Lock!InsertFails, Lock!ReleaseFails, Lock!Crash

\* Some runs leave and no row changes.
LEMMA Vanishing ==
  ASSUME NEW R \in SUBSET Attempts, row' = row,
         Inside' = [b \in Attempts |-> IF b \in R THEN NoScope ELSE Inside[b]]
  PROVE  Promise!Next
<1>1. Promise!Vanish(R)
  BY DEF Promise!Vanish
<1> QED
  BY <1>1 DEF Promise!Next

\* Each step of the lock is a step of the promise, or changes neither the rows
\* nor who is inside.
LEMMA NextPromised ==
  ASSUME ~MayOverstay, Lock!TypeOK, RowIsHeld, NoRowIsOver, [Lock!Next]_Lock!vars
  PROVE  [Promise!Next]_<<row, Inside>>
<1> USE DEF Promise!Next
<1>1. ASSUME NEW a \in Attempts, NEW s \in Scopes, NEW direct \in BOOLEAN, Lock!Reap(a, s, direct)
      PROVE  Promise!Next
  <2> DEFINE Old == {t \in Scopes : Lock!Expired(t)}
  <2>1. \A t \in Old : row[t].left = 0
    BY DEF Lock!Expired
  <2>2. row' = [t \in Scopes |-> IF t \in Old THEN Promise!Free ELSE row[t]]
    BY <1>1 DEF Lock!Reap, Lock!NoRow, Promise!Free
  <2>3. UNCHANGED Inside
    BY <1>1 DEF Lock!Reap, Inside, Lock!TypeOK
  <2>4. Promise!Lapse(Old)
    BY <2>1, <2>2, <2>3 DEF Promise!Lapse
  <2>5. Old \in SUBSET Scopes
    OBVIOUS
  <2> HIDE DEF Old
  <2> QED
    BY <2>4, <2>5
<1>2. ASSUME NEW a \in Attempts, Lock!Insert(a)
      PROVE  [Promise!Next]_<<row, Inside>>
  <2>1. Inside' = [Inside EXCEPT ![a] = attempt[a].scope] /\ Inside[a] = NoScope
    BY <1>2 DEF Lock!Insert, Inside, Lock!TypeOK
  <2>2. CASE attempt[a].scope \in Scopes
    <3>1. Promise!Enter(attempt[a].scope, a, Expiry)
      BY <1>2, <2>1, <2>2 DEF Lock!Insert, NoRowIsOver, Promise!Enter
    <3> QED
      BY <2>2, <3>1
  <2>3. CASE attempt[a].scope \notin Scopes
    <3>1. row' = row /\ Inside' = Inside
      BY <1>2, <2>1, <2>3 DEF Lock!Insert, Inside, Lock!TypeOK
    <3> QED
      BY <3>1
  <2> QED
    BY <2>2, <2>3
<1>3. ASSUME NEW a \in Attempts, Lock!Finish(a)
      PROVE  [Promise!Next]_<<row, Inside>>
  <2>1. Inside' = [Inside EXCEPT ![a] = NoScope] /\ Inside[a] = attempt[a].scope
    BY <1>3 DEF Lock!Finish, Inside, Lock!Idle, Lock!TypeOK
  <2>2. CASE attempt[a].scope \in Scopes
    <3>1. Holds(a, attempt[a].scope)
      BY <1>3 DEF Lock!Finish, Holds
    <3>2. row[attempt[a].scope] = [by |-> a, left |-> attempt[a].left]
      BY <2>2, <3>1 DEF RowIsHeld
    <3>3. Promise!GiveBack(attempt[a].scope, a)
      BY <1>3, <2>1, <3>2 DEF Lock!Finish, Lock!NoRow, Promise!GiveBack, Promise!Free
    <3> QED
      BY <2>2, <3>3
  <2>3. CASE attempt[a].scope \notin Scopes
    <3>1. row' = row /\ Inside' = Inside
      BY <1>3, <2>1, <2>3 DEF Lock!Finish, Inside, Lock!TypeOK
    <3> QED
      BY <3>1
  <2> QED
    BY <2>2, <2>3
<1>4. ASSUME Lock!Tick
      PROVE  Promise!Next
  <2>1. \A s \in Scopes : [by |-> row[s].by, left |-> Lock!Less(row[s].left)] = Promise!Aged(row[s])
    BY DEF Lock!Less, Promise!Aged
  <2>2. UNCHANGED Inside
    BY <1>4 DEF Lock!Tick, Inside
  <2>3. Promise!Tick
    BY <1>4, <2>1, <2>2 DEF Lock!Tick, Promise!Tick
  <2> QED
    BY <2>3
<1>5. ASSUME NEW a \in Attempts, Lock!ReleaseFails(a)
      PROVE  Promise!Next
  <2>1. row' = row /\ attempt' = [attempt EXCEPT ![a] = Lock!Idle]
    BY <1>5 DEF Lock!ReleaseFails
  <2>2. Inside' = [b \in Attempts |-> IF b \in {a} THEN NoScope ELSE Inside[b]]
    BY <2>1 DEF Inside, Lock!Idle, Lock!TypeOK
  <2> QED
    BY <2>1, <2>2, Vanishing
<1>6. ASSUME NEW p \in Processes, Lock!Crash(p)
      PROVE  Promise!Next
  <2> DEFINE Dead == {a \in Attempts : ProcessOf[a] = p}
  <2>1. row' = row /\ attempt' = [a \in Attempts |-> IF a \in Dead THEN Lock!Idle ELSE attempt[a]]
    BY <1>6 DEF Lock!Crash
  <2>2. Dead \in SUBSET Attempts
    OBVIOUS
  <2> HIDE DEF Dead
  <2>3. Inside' = [b \in Attempts |-> IF b \in Dead THEN NoScope ELSE Inside[b]]
    BY <2>1 DEF Inside, Lock!Idle
  <2> QED
    BY <2>1, <2>2, <2>3, Vanishing
<1>7. ASSUME NEW a \in Attempts, NEW s \in Scopes, Lock!SkipRunning(a, s)
      PROVE  UNCHANGED <<row, Inside>>
  BY <1>7 DEF Lock!SkipRunning, Inside, Lock!TypeOK
<1>8. ASSUME NEW a \in Attempts, Lock!SkipLocked(a) \/ Lock!Begin(a) \/ Lock!Return(a) \/ Lock!InsertFails(a)
      PROVE  UNCHANGED <<row, Inside>>
  BY <1>8 DEF Lock!SkipLocked, Lock!Begin, Lock!Return, Lock!InsertFails, Inside, Lock!Idle, Lock!TypeOK
<1>9. ASSUME UNCHANGED Lock!vars
      PROVE  UNCHANGED <<row, Inside>>
  BY <1>9 DEF Lock!vars, Inside
<1> QED
  BY <1>1, <1>2, <1>3, <1>4, <1>5, <1>6, <1>7, <1>8, <1>9 DEF Lock!Next, Lock!Call, Lock!Continue

\* The DigestLock rows implement the promise, as long as no run outlives its
\* row: a row goes with its own run, or expired.
THEOREM Implements ==
  ASSUME ~MayOverstay
  PROVE  Lock!Spec => IsLease
<1>1. Lock!Init => Promise!Init
  BY DEF Lock!Init, Lock!NoRow, Lock!Idle, Inside, Promise!Init, Promise!Free
<1>2. Lock!TypeOK /\ RowIsHeld /\ NoRowIsOver /\ [Lock!Next]_Lock!vars => [Promise!Next]_<<row, Inside>>
  BY NextPromised
<1>3. Lock!Init => NoRowIsOver
  BY DEF Lock!Init, Lock!NoRow, NoRowIsOver
<1> QED
  BY <1>1, <1>2, <1>3, NextNoRowIsOver, RowAlwaysHeld, LockTypeCorrect, PTL DEF Lock!Spec, IsLease, Promise!Spec
=============================================================================
