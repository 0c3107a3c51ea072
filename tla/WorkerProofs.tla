----------------------------- MODULE WorkerProofs -----------------------------
(***************************************************************************)
(* Proofs about what the worker's handlers share.  WorkerLock, for every    *)
(* number of scopes and job slots and any times to live: a job within its   *)
(* term is the owner of its scope's key.  Reminders (Reminder), for any     *)
(* reminders, batches and failures: what keeps a reminder from being sent   *)
(* twice is that a single handler sends, one worker with                    *)
(* REMINDER_CONCURRENCY at its default of 1.                                *)
(***************************************************************************)
EXTENDS WorkerLock, Delivery, TLAPS

-----------------------------------------------------------------------------
(* The lock: type correctness *)

\* Counting down stays among the lives.
LEMMA LessIsALife ==
  ASSUME NEW n \in Lives
  PROVE  Less(n) \in Lives /\ n \in Nat
BY LockAssumption DEF Less, Lives

\* Type correctness holds initially.
LEMMA InitTyped == Init => TypeOK
BY LockAssumption DEF Init, TypeOK, NoKey, Idle, Lives

\* Every step keeps the types.
LEMMA NextTyped == TypeOK /\ [Next]_vars => TypeOK'
<1> SUFFICES ASSUME TypeOK, [Next]_vars PROVE TypeOK'
  OBVIOUS
<1> USE DEF TypeOK
<1>1. ASSUME NEW w \in Slots, NEW s \in Scopes, NEW ttl \in Terms, Acquire(w, s, ttl)
      PROVE  TypeOK'
  <2>1. ttl \in Lives /\ 0 \in Lives
    BY LockAssumption DEF Terms, Lives
  <2> QED
    BY <1>1, <2>1 DEF Acquire
<1>2. ASSUME NEW w \in Slots, NEW s \in Scopes, Contend(w, s)
      PROVE  TypeOK'
  BY <1>2, LockAssumption DEF Contend, Lives
<1>3. ASSUME NEW w \in Slots, ReportSkipped(w)
      PROVE  TypeOK'
  BY <1>3, LockAssumption DEF ReportSkipped, Idle, Lives
<1>4. ASSUME NEW w \in Slots, Finish(w)
      PROVE  TypeOK'
  BY <1>4, LockAssumption DEF Finish, Idle, NoKey, Lives
<1>5. ASSUME NEW w \in Slots, Crash(w)
      PROVE  TypeOK'
  BY <1>5, LockAssumption DEF Crash, Idle, Lives
<1>6. ASSUME Tick
      PROVE  TypeOK'
  BY <1>6, LessIsALife DEF Tick
<1>7. ASSUME UNCHANGED vars
      PROVE  TypeOK'
  BY <1>7 DEF vars
<1> QED
  BY <1>1, <1>2, <1>3, <1>4, <1>5, <1>6, <1>7 DEF Next

\* Keys and jobs always have the shape the lock's code gives them.
THEOREM TypeCorrect == Spec => []TypeOK
BY InitTyped, NextTyped, PTL DEF Spec

-----------------------------------------------------------------------------
(* The lock: mutual exclusion within the term *)

\* A job within its term has the key, and both have the same life left.
TermIsKey ==
  \A s \in Scopes, w \in Slots : InTerm(w, s) => key[s] = [by |-> w, left |-> job[w].left]

\* Every step keeps a job's term and its key together.
LEMMA NextTermIsKey == TypeOK /\ TermIsKey /\ [Next]_vars => TermIsKey'
<1> SUFFICES ASSUME TypeOK, TermIsKey, [Next]_vars,
                    NEW s \in Scopes, NEW w \in Slots, InTerm(w, s)'
             PROVE  key'[s] = [by |-> w, left |-> job'[w].left]
  BY DEF TermIsKey
<1> USE DEF TypeOK, TermIsKey, InTerm
<1>1. ASSUME NEW v \in Slots, NEW t \in Scopes, NEW ttl \in Terms, Acquire(v, t, ttl)
      PROVE  key'[s] = [by |-> w, left |-> job'[w].left]
  BY <1>1 DEF Acquire, Absent
<1>2. ASSUME NEW v \in Slots, NEW t \in Scopes, Contend(v, t)
      PROVE  key'[s] = [by |-> w, left |-> job'[w].left]
  BY <1>2 DEF Contend
<1>3. ASSUME NEW v \in Slots, ReportSkipped(v)
      PROVE  key'[s] = [by |-> w, left |-> job'[w].left]
  BY <1>3 DEF ReportSkipped, Idle
<1>4. ASSUME NEW v \in Slots, Finish(v)
      PROVE  key'[s] = [by |-> w, left |-> job'[w].left]
  <2>1. w # v /\ job'[w] = job[w]
    BY <1>4 DEF Finish, Idle
  <2>2. key[s] = [by |-> w, left |-> job[w].left]
    BY <2>1
  <2>3. job[v].scope = s => ~OwnKey(v)
    BY <2>1, <2>2 DEF OwnKey
  <2> QED
    BY <1>4, <2>1, <2>2, <2>3 DEF Finish
<1>5. ASSUME NEW v \in Slots, Crash(v)
      PROVE  key'[s] = [by |-> w, left |-> job'[w].left]
  BY <1>5 DEF Crash, Idle
<1>6. ASSUME Tick
      PROVE  key'[s] = [by |-> w, left |-> job'[w].left]
  <2>1. job[w].phase = "running" /\ job[w].scope = s /\ job'[w].left = Less(job[w].left)
    BY <1>6 DEF Tick
  <2>2. job[w].left > 0
    BY <2>1, LessIsALife DEF Less
  <2>3. key[s] = [by |-> w, left |-> job[w].left]
    BY <2>1, <2>2
  <2> QED
    BY <1>6, <2>1, <2>3 DEF Tick
<1>7. ASSUME UNCHANGED vars
      PROVE  key'[s] = [by |-> w, left |-> job'[w].left]
  BY <1>7 DEF vars
<1> QED
  BY <1>1, <1>2, <1>3, <1>4, <1>5, <1>6, <1>7 DEF Next

\* "The two can never run concurrently for one scope" (rebuild-job.ts), of jobs
\* that keep within the time to live of their key, whatever late releases and
\* crashes there were before.
THEOREM Exclusive == Spec => []ExclusiveInTerm
<1>1. Init => TermIsKey
  BY DEF Init, TermIsKey, InTerm, Idle
<1>2. ASSUME TermIsKey, NEW s \in Scopes, NEW w \in Slots, NEW v \in Slots, InTerm(w, s), InTerm(v, s)
      PROVE  w = v
  <2>1. key[s] = [by |-> w, left |-> job[w].left] /\ key[s] = [by |-> v, left |-> job[v].left]
    BY <1>2 DEF TermIsKey
  <2>2. key[s].by = w /\ key[s].by = v
    BY <2>1
  <2> QED
    BY <2>2
<1>3. TermIsKey => ExclusiveInTerm
  BY <1>2 DEF ExclusiveInTerm
<1> QED
  BY <1>1, <1>3, TypeCorrect, NextTermIsKey, PTL DEF Spec

-----------------------------------------------------------------------------
(* The lock: its keys are leases *)

\* Each step of the lock is a step of the promise, or changes neither the keys
\* nor who is inside.
LEMMA NextPromised == TypeOK /\ [Next]_vars => [Promise!Next]_<<key, Inside>>
<1> SUFFICES ASSUME TypeOK, [Next]_vars PROVE [Promise!Next]_<<key, Inside>>
  OBVIOUS
<1> USE DEF Promise!Next
<1>1. ASSUME NEW w \in Slots, NEW s \in Scopes, NEW ttl \in Terms, Acquire(w, s, ttl)
      PROVE  Promise!Next
  <2>1. Inside' = [Inside EXCEPT ![w] = s] /\ Inside[w] = NoScope
    BY <1>1 DEF Acquire, Inside, TypeOK
  <2>2. Promise!Enter(s, w, ttl)
    BY <1>1, <2>1 DEF Acquire, Absent, Promise!Enter
  <2> QED
    BY <2>2
<1>2. ASSUME NEW w \in Slots, Finish(w), OwnKey(w)
      PROVE  Promise!Next
  <2>1. job[w].scope \in Scopes
    BY <1>2 DEF Finish, TypeOK
  <2>2. Inside' = [Inside EXCEPT ![w] = NoScope] /\ Inside[w] = job[w].scope
    BY <1>2 DEF Finish, Inside, Idle, TypeOK
  <2>3. Promise!GiveBack(job[w].scope, w)
    BY <1>2, <2>2 DEF Finish, OwnKey, NoKey, Promise!GiveBack, Promise!Free
  <2> QED
    BY <2>1, <2>3
<1>3. ASSUME Tick
      PROVE  Promise!Next
  <2>1. \A s \in Scopes : [by |-> key[s].by, left |-> Less(key[s].left)] = Promise!Aged(key[s])
    BY DEF Less, Promise!Aged
  <2>2. UNCHANGED Inside
    BY <1>3 DEF Tick, Inside
  <2>3. Promise!Tick
    BY <1>3, <2>1, <2>2 DEF Tick, Promise!Tick
  <2> QED
    BY <2>3
<1>4. ASSUME NEW w \in Slots, Crash(w) \/ (Finish(w) /\ ~OwnKey(w))
      PROVE  Promise!Next
  <2>1. key' = key /\ job' = [job EXCEPT ![w] = Idle]
    BY <1>4 DEF Crash, Finish
  <2>2. Inside' = [v \in Slots |-> IF v \in {w} THEN NoScope ELSE Inside[v]]
    BY <2>1 DEF Inside, Idle, TypeOK
  <2>3. Promise!Vanish({w})
    BY <2>1, <2>2 DEF Promise!Vanish
  <2> QED
    BY <2>3
<1>5. ASSUME NEW w \in Slots, NEW s \in Scopes, Contend(w, s)
      PROVE  UNCHANGED <<key, Inside>>
  BY <1>5 DEF Contend, Inside, TypeOK
<1>6. ASSUME NEW w \in Slots, ReportSkipped(w)
      PROVE  UNCHANGED <<key, Inside>>
  BY <1>6 DEF ReportSkipped, Inside, Idle, TypeOK
<1>7. ASSUME UNCHANGED vars
      PROVE  UNCHANGED <<key, Inside>>
  BY <1>7 DEF vars, Inside
<1> QED
  BY <1>1, <1>2, <1>3, <1>4, <1>5, <1>6, <1>7 DEF Next

\* withDigestLock implements the promise: a key goes only with the job that set
\* it, or when its time to live is over.
THEOREM Implements == Spec => IsLease
<1>1. Init => Promise!Init
  BY DEF Init, NoKey, Idle, Inside, Promise!Init, Promise!Free
<1> QED
  BY <1>1, NextPromised, TypeCorrect, PTL DEF Spec, IsLease, Promise!Spec

-----------------------------------------------------------------------------
(* Reminders: type correctness *)

CONSTANTS Senders, NoReminder, BatchSize, MaxBatches, MaxCrashes

VARIABLES reminder, sender, daily, crashes

Reminder == INSTANCE Reminders

Statuses == {"none", "scheduled", "due", "sent", "cancelled", "collected"}
SenderStates ==
  [pc : {"asleep", "batch", "mark", "send"}, batch : SUBSET Reminders,
   at : Reminders \cup {NoReminder}, batches : Nat]

\* Rows, counts and handlers keep their shape; a handler sends what it has marked.
Typed ==
  /\ reminder \in [Reminders -> Statuses]
  /\ delivered \in [Reminders -> Nat]
  /\ sender \in [Senders -> SenderStates]
  /\ daily \subseteq Reminders
  /\ \A w \in Senders : sender[w].pc = "send" => sender[w].at \in Reminders

\* Every step keeps the types.
LEMMA NextReminderTyped == Typed /\ [Reminder!Next]_Reminder!vars => Typed'
<1> SUFFICES ASSUME Typed, [Reminder!Next]_Reminder!vars PROVE Typed'
  OBVIOUS
<1>0. Reminder!Asleep \in SenderStates
  BY DEF Reminder!Asleep, SenderStates
<1> USE <1>0 DEF Typed, Statuses, SenderStates
<1>1. ASSUME NEW r \in Reminders, Reminder!Create(r) \/ Reminder!BecomeDue(r) \/ Reminder!Cancel(r) \/ Reminder!DailyRecord(r)
      PROVE  Typed'
  BY <1>1 DEF Reminder!Create, Reminder!BecomeDue, Reminder!Cancel, Reminder!DailyRecord
<1>2. ASSUME NEW w \in Senders, Reminder!Wake(w)
      PROVE  Typed'
  BY <1>2 DEF Reminder!Wake, Reminder!Asleep
<1>3. ASSUME NEW w \in Senders, Reminder!ReadBatch(w)
      PROVE  Typed'
  BY <1>3 DEF Reminder!ReadBatch, Reminder!Batches, Reminder!Due, Reminder!Asleep
<1>4. ASSUME NEW w \in Senders, Reminder!Mark(w)
      PROVE  Typed'
  BY <1>4 DEF Reminder!Mark
<1>5. ASSUME NEW w \in Senders, Reminder!MarkFails(w)
      PROVE  Typed'
  BY <1>5 DEF Reminder!MarkFails, Reminder!Asleep
<1>6. ASSUME NEW w \in Senders, Reminder!Send(w)
      PROVE  Typed'
  BY <1>6 DEF Reminder!Send, Reminder!AfterSend, Reminder!Asleep
<1>7. ASSUME NEW w \in Senders, Reminder!SendFails(w)
      PROVE  Typed'
  <2>1. delivered' \in [Reminders -> Nat]
    BY <1>7 DEF Reminder!SendFails
  <2> QED
    BY <1>7, <2>1 DEF Reminder!SendFails, Reminder!Asleep
<1>8. ASSUME NEW T \in SUBSET Reminders, Reminder!DailyPost(T)
      PROVE  Typed'
  BY <1>8 DEF Reminder!DailyPost
<1>9. ASSUME Reminder!DailyFails \/ Reminder!CollectReminders
      PROVE  Typed'
  BY <1>9 DEF Reminder!DailyFails, Reminder!CollectReminders
<1>10. ASSUME UNCHANGED Reminder!vars
       PROVE  Typed'
  BY <1>10 DEF Reminder!vars
<1> QED
  BY <1>1, <1>2, <1>3, <1>4, <1>5, <1>6, <1>7, <1>8, <1>9, <1>10 DEF Reminder!Next, Reminder!Sending

\* Rows, counts and handlers always keep their shape.
THEOREM RemindersTypeCorrect == Reminder!Spec => []Typed
<1>1. Reminder!Init => Typed
  BY DEF Reminder!Init, Typed, Statuses, SenderStates, Reminder!Asleep
<1> QED
  BY <1>1, NextReminderTyped, PTL DEF Reminder!Spec

-----------------------------------------------------------------------------
(* Reminders: delivery *)

\* What may still be sent: what waits for its time or for a handler, the rest of a
\* handler's batch, and what the handler has marked and not sent.
Unsent(r) ==
  \/ reminder[r] \in {"none", "scheduled", "due"}
  \/ \E w \in Senders : r \in sender[w].batch
  \/ \E w \in Senders : sender[w].pc = "send" /\ sender[w].at = r

\* A batch holds no reminder twice, and what is marked has left it; what is marked and
\* not sent is not to be read as due again; nothing that may still be sent was sent.
NotSentYet ==
  /\ \A w \in Senders : sender[w].pc = "send" =>
       /\ sender[w].at \notin sender[w].batch
       /\ reminder[sender[w].at] \in {"sent", "cancelled", "collected"}
  /\ \A r \in Reminders : Unsent(r) => delivered[r] = 0

\* The strengthened invariant of DeliveredOnce.
Delivering == Typed /\ NotSentYet /\ DeliveredOnce

\* One worker, whose REMINDER_CONCURRENCY is 1.
OneSender == \A v, w \in Senders : v = w

\* Every step keeps it.
LEMMA NextNotSentYet ==
  ASSUME OneSender, Delivering, [Reminder!Next]_Reminder!vars
  PROVE  NotSentYet' /\ DeliveredOnce'
<1> USE DEF Delivering, NotSentYet, DeliveredOnce, Unsent, Typed, SenderStates, Statuses
<1>1. ASSUME NEW r \in Reminders, Reminder!Create(r) \/ Reminder!BecomeDue(r) \/ Reminder!Cancel(r) \/ Reminder!DailyRecord(r)
      PROVE  NotSentYet' /\ DeliveredOnce'
  BY <1>1 DEF Reminder!Create, Reminder!BecomeDue, Reminder!Cancel, Reminder!DailyRecord
<1>2. ASSUME NEW w \in Senders, Reminder!Wake(w)
      PROVE  NotSentYet' /\ DeliveredOnce'
  BY <1>2 DEF Reminder!Wake, Reminder!Asleep
<1>3. ASSUME NEW w \in Senders, Reminder!ReadBatch(w)
      PROVE  NotSentYet' /\ DeliveredOnce'
  BY <1>3 DEF Reminder!ReadBatch, Reminder!Batches, Reminder!Due, Reminder!Asleep
<1>4. ASSUME NEW w \in Senders, Reminder!Mark(w)
      PROVE  NotSentYet' /\ DeliveredOnce'
  BY <1>4 DEF Reminder!Mark, OneSender
<1>5. ASSUME NEW w \in Senders, Reminder!MarkFails(w)
      PROVE  NotSentYet' /\ DeliveredOnce'
  BY <1>5 DEF Reminder!MarkFails, Reminder!Asleep
<1>6. ASSUME NEW w \in Senders, Reminder!Send(w)
      PROVE  NotSentYet' /\ DeliveredOnce'
  BY <1>6 DEF Reminder!Send, Reminder!AfterSend, Reminder!Asleep, OneSender
<1>7. ASSUME NEW w \in Senders, Reminder!SendFails(w)
      PROVE  NotSentYet' /\ DeliveredOnce'
  BY <1>7 DEF Reminder!SendFails, Reminder!Asleep, OneSender
<1>8. ASSUME NEW T \in SUBSET Reminders, Reminder!DailyPost(T)
      PROVE  NotSentYet' /\ DeliveredOnce'
  BY <1>8 DEF Reminder!DailyPost
<1>9. ASSUME Reminder!DailyFails \/ Reminder!CollectReminders
      PROVE  NotSentYet' /\ DeliveredOnce'
  BY <1>9 DEF Reminder!DailyFails, Reminder!CollectReminders
<1>10. ASSUME UNCHANGED Reminder!vars
       PROVE  NotSentYet' /\ DeliveredOnce'
  BY <1>10 DEF Reminder!vars
<1> QED
  BY <1>1, <1>2, <1>3, <1>4, <1>5, <1>6, <1>7, <1>8, <1>9, <1>10 DEF Reminder!Next, Reminder!Sending

\* With one handler that sends (REMINDER_CONCURRENCY), no reminder is delivered twice:
\* whatever fails, dies, is cancelled or is collected while a batch is sent.
THEOREM AtMostOnce == ASSUME OneSender PROVE Reminder!Spec => []DeliveredOnce
<1>1. Reminder!Init => Delivering
  BY DEF Reminder!Init, Delivering, Typed, NotSentYet, Unsent, DeliveredOnce, Statuses, SenderStates, Reminder!Asleep
<1>2. Delivering /\ [Reminder!Next]_Reminder!vars => Delivering'
  BY NextReminderTyped, NextNotSentYet DEF Delivering
<1>3. Delivering => DeliveredOnce
  BY DEF Delivering
<1> QED
  BY <1>1, <1>2, <1>3, PTL DEF Reminder!Spec
=============================================================================
