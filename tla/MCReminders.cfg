SPECIFICATION Spec
CONSTANTS
  r1 = r1
  r2 = r2
  r3 = r3
  w1 = w1
  Reminders = {r1, r2, r3}
  Senders = {w1}
  NoReminder = NoReminder
  BatchSize = 2
  MaxBatches = 2
  MaxCrashes = 2
INVARIANTS
  DeliveredOnce
PROPERTIES
  DueIsHandled
CHECK_DEADLOCK FALSE
