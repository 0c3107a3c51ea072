-------------------------------- MODULE Delivery --------------------------------
(***************************************************************************)
(* What a user sees of the reminders: how many times each one arrives in   *)
(* Telegram (Reminders says how they are sent).                            *)
(***************************************************************************)
EXTENDS Integers

CONSTANT Reminders

VARIABLE delivered   \* how many times each was sent to Telegram

\* A reminder is delivered at most once: neither a death between marking and sending,
\* nor a failure half way through a batch, nor the job that runs again after it, nor a
\* cancellation in between makes it go out twice.
DeliveredOnce == \A r \in Reminders : delivered[r] <= 1
=============================================================================
