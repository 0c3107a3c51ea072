-------------------------------- MODULE Reminders --------------------------------
(***************************************************************************)
(* Reminders: created and cancelled over the API, sent by the worker's     *)
(* send_reminders job, collected by data_gc; and the daily reminders,      *)
(* which are posted first and recorded as sent afterwards.                 *)
(*                                                                         *)
(* REMINDER_CONCURRENCY is 1: one handler sends, for whichever job woke    *)
(* it.  A handler that dies leaves its job stalled, and BullMQ runs it     *)
(* again; every tick would do as well.                                     *)
(***************************************************************************)
EXTENDS Delivery, FiniteSets

CONSTANTS
  Senders, NoReminder,
  BatchSize, MaxBatches,        \* REMINDER_BATCH_SIZE, REMINDER_MAX_BATCHES
  MaxCrashes                    \* a bound

ASSUME RemindersAssumption ==
  /\ NoReminder \notin Reminders
  /\ {BatchSize, MaxBatches} \subseteq Nat \ {0}
  /\ MaxCrashes \in Nat

VARIABLES
  reminder,   \* Reminder rows: their status; a scheduled one whose dueAt has come is due
  sender,     \* of each reminder handler: what is left of its batch, batches done
  daily,      \* the daily_remind handler, and the texts it still has to record
  crashes

vars == <<reminder, delivered, sender, daily, crashes>>

Asleep == [pc |-> "asleep", batch |-> {}, at |-> NoReminder, batches |-> 0]

Init ==
  /\ reminder = [r \in Reminders |-> "none"]
  /\ delivered = [r \in Reminders |-> 0]
  /\ sender = [w \in Senders |-> Asleep]
  /\ daily = {}
  /\ crashes = 0

---------------------------------------------------------------------------
\* The row, then a send_reminders job; the sender is awake within a minute anyhow.
Create(r) ==
  /\ reminder[r] = "none" /\ r \notin daily
  /\ reminder' = [reminder EXCEPT ![r] = "scheduled"]
  /\ UNCHANGED <<delivered, sender, daily, crashes>>

BecomeDue(r) ==
  /\ reminder[r] = "scheduled"
  /\ reminder' = [reminder EXCEPT ![r] = "due"]
  /\ UNCHANGED <<delivered, sender, daily, crashes>>

\* Whatever its status is: a reminder already sent becomes cancelled.
Cancel(r) ==
  /\ reminder[r] \in {"scheduled", "due", "sent"}
  /\ reminder' = [reminder EXCEPT ![r] = "cancelled"]
  /\ UNCHANGED <<delivered, sender, daily, crashes>>

\* Mutant: the query forgets the status, and finds what was sent or cancelled too.
DueWhatever == {r \in Reminders : reminder[r] \in {"due", "sent", "cancelled"}}

Due == {r \in Reminders : reminder[r] = "due"}

\* Mutant: a batch that is not full is left for later.
BatchesFull == {B \in SUBSET Due : Cardinality(B) = BatchSize} \cup {{}}

\* The earliest due, up to a batch: any of that many.
Batches ==
  {B \in SUBSET Due : Cardinality(B) = BatchSize \/ (Cardinality(B) < BatchSize /\ B = Due)}

\* The tick, or the job the API queued.
Wake(w) ==
  /\ sender[w].pc = "asleep"
  /\ sender' = [sender EXCEPT ![w] = [Asleep EXCEPT !.pc = "batch"]]
  /\ UNCHANGED <<reminder, delivered, daily, crashes>>

ReadBatch(w) ==
  /\ sender[w].pc = "batch"
  /\ \E B \in Batches :
       sender' = [sender EXCEPT ![w] =
         IF B = {} THEN Asleep
         ELSE [pc |-> "mark", batch |-> B, at |-> NoReminder, batches |-> sender[w].batches + 1]]
  /\ UNCHANGED <<reminder, delivered, daily, crashes>>

\* Sent before it is sent, and whatever its status is by now.
Mark(w) ==
  /\ sender[w].pc = "mark"
  /\ \E r \in sender[w].batch :
       /\ reminder[r] # "collected"
       /\ reminder' = [reminder EXCEPT ![r] = "sent"]
       /\ sender' = [sender EXCEPT ![w].pc = "send", ![w].at = r, ![w].batch = @ \ {r}]
  /\ UNCHANGED <<delivered, daily, crashes>>

\* After the batch's last reminder: another batch, if it was full and one is left.
AfterSend(w) ==
  IF sender[w].batch # {} THEN [sender[w] EXCEPT !.pc = "mark"]
  ELSE IF sender[w].batches < MaxBatches THEN [sender[w] EXCEPT !.pc = "batch"] ELSE Asleep

Send(w) ==
  /\ sender[w].pc = "send"
  /\ delivered' = [delivered EXCEPT ![sender[w].at] = @ + 1]
  /\ sender' = [sender EXCEPT ![w] = AfterSend(w)]
  /\ UNCHANGED <<reminder, daily, crashes>>

\* A reminder of the batch was cancelled and collected: its update finds no row.
MarkFails(w) ==
  /\ sender[w].pc = "mark"
  /\ \E r \in sender[w].batch : reminder[r] = "collected"
  /\ sender' = [sender EXCEPT ![w] = Asleep]
  /\ UNCHANGED <<reminder, delivered, daily, crashes>>

\* Telegram cannot be reached, or its answer is lost, or the worker dies: the rest of
\* the batch waits, and the reminder that was marked is not sent again.
SendFails(w) ==
  /\ sender[w].pc \in {"mark", "send"}
  /\ crashes < MaxCrashes
  /\ crashes' = crashes + 1
  /\ \E sent \in IF sender[w].pc = "send" THEN {0, 1} ELSE {0} :
       delivered' = [r \in Reminders |-> IF r = sender[w].at THEN delivered[r] + sent ELSE delivered[r]]
  /\ sender' = [sender EXCEPT ![w] = Asleep]
  /\ UNCHANGED <<reminder, daily>>

\* daily_remind posts its texts to the scope's webhook, then records each as a row that
\* is sent already, so that the model is told not to repeat it.
DailyPost(T) ==
  /\ daily = {} /\ T # {} /\ Cardinality(T) <= 2
  /\ \A r \in T : reminder[r] = "none"
  /\ daily' = T
  /\ UNCHANGED <<reminder, delivered, sender, crashes>>

DailyRecord(r) ==
  /\ r \in daily
  /\ reminder' = [reminder EXCEPT ![r] = "sent"]
  /\ daily' = daily \ {r}
  /\ UNCHANGED <<delivered, sender, crashes>>

\* What is not recorded may be said again tomorrow.
DailyFails ==
  /\ daily # {} /\ crashes < MaxCrashes
  /\ crashes' = crashes + 1
  /\ daily' = {}
  /\ UNCHANGED <<reminder, delivered, sender>>

\* data_gc: rows that are sent or cancelled, after their retention.
CollectReminders ==
  /\ \E r \in Reminders : reminder[r] \in {"sent", "cancelled"}
  /\ reminder' = [r \in Reminders |->
       IF reminder[r] \in {"sent", "cancelled"} THEN "collected" ELSE reminder[r]]
  /\ UNCHANGED <<delivered, sender, daily, crashes>>

---------------------------------------------------------------------------
Sending(w) == ReadBatch(w) \/ Mark(w) \/ MarkFails(w) \/ Send(w)

Next ==
  \/ \E r \in Reminders : Create(r) \/ BecomeDue(r) \/ Cancel(r) \/ DailyRecord(r)
  \/ \E w \in Senders : Wake(w) \/ Sending(w) \/ SendFails(w)
  \/ \E T \in SUBSET Reminders : DailyPost(T)
  \/ DailyFails
  \/ CollectReminders

\* The tick comes every minute, and the worker goes on with what it started.
Fairness == \A w \in Senders : WF_vars(Wake(w)) /\ WF_vars(Sending(w))

Spec == Init /\ [][Next]_vars /\ Fairness

---------------------------------------------------------------------------
\* A reminder that is due does not stay scheduled, however many batches fail before it.
DueIsHandled == \A r \in Reminders : r \in Due ~> r \notin Due
=============================================================================
