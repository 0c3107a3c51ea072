-------------------------------- MODULE LockRows --------------------------------
(***************************************************************************)
(* The DigestLock rows of the embedded backend and the attempts that go by *)
(* them, as a caller of acquireDigestLock sees them, and what they promise *)
(* whatever the processes do in between (EmbeddedLock).                    *)
(***************************************************************************)
EXTENDS Integers

CONSTANTS
  Scopes,
  Attempts,     \* the digest attempts that can be under way
  Expiry,       \* LOCK_EXPIRY_MINUTES (30)
  NoScope,
  NoAttempt

ASSUME LockAssumption ==
  /\ NoAttempt \notin Attempts
  /\ NoScope \notin Scopes
  /\ Expiry \in Nat \ {0}

VARIABLES
  row,       \* of each scope: who inserted its row (not stored) and its remaining life
  attempt    \* of each attempt: phase, scope, whether by runScopeDigest, what is left

\* Attempt a has the row of scope s, or had it, and has not ended.
Holds(a, s) == attempt[a].phase \in {"locked", "digesting"} /\ attempt[a].scope = s

\* "Serializes digest runs for one scope across every process sharing the same
\* SQLite file": two runs of a scope, both younger than the expiry, are one.
Serialized ==
  \A s \in Scopes, a, b \in Attempts :
    Holds(a, s) /\ Holds(b, s) /\ attempt[a].left > 0 /\ attempt[b].left > 0 => a = b

\* The scope each attempt's run is in.
Inside ==
  [a \in Attempts |-> IF attempt[a].phase \in {"locked", "digesting"} THEN attempt[a].scope ELSE NoScope]

\* The rows are leases, as long as no run overstays: a row goes with its own
\* run, or expired.
Promise == INSTANCE Lease WITH
  Runs <- Attempts, Terms <- {Expiry}, NoRun <- NoAttempt, lease <- row, inside <- Inside

\* Every step of the embedded attempts on the lock row is a step of a lease: a live row is
\* only ever given up by the attempt that wrote it, or lost to its own expiry.
IsLease == Promise!Spec
=============================================================================
