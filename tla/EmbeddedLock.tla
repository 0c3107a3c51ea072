------------------------------ MODULE EmbeddedLock ------------------------------
(***************************************************************************)
(* The digest lock of the embedded backend: a DigestLock row per scope, in *)
(* the SQLite file that several processes share, and in front of it one    *)
(* flag per process (`running`).  An attempt is one call of                *)
(* runDigestAttempt, or of runScopeDigest, which takes the row and ignores *)
(* the flag.                                                               *)
(*                                                                         *)
(* JavaScript runs one attempt of a process at a time between two awaits;  *)
(* processes interleave at every SQL statement.                            *)
(***************************************************************************)
EXTENDS LockRows

CONSTANTS
  Processes,
  ProcessOf,    \* the process of each attempt
  MayOverstay   \* may a run outlive the expiry of its row?

ASSUME ProcessAssumption ==
  /\ ProcessOf \in [Attempts -> Processes]
  /\ MayOverstay \in BOOLEAN

VARIABLE running   \* of each process: the single-flight flag

vars == <<row, running, attempt>>

NoRow == [by |-> NoAttempt, left |-> 0]
Idle  == [phase |-> "idle", scope |-> NoScope, direct |-> FALSE, left |-> 0]

\* Mutant: the INSERT replaces the row that is there.
PresentNever(s) == FALSE

Present(s) == row[s].by # NoAttempt

\* Between the two statements of acquireDigestLock nothing else runs in the
\* process.
Undisturbed(a) ==
  \A b \in Attempts \ {a} : ProcessOf[b] = ProcessOf[a] => attempt[b].phase # "reaped"

\* Mutant: no row is ever treated as abandoned.
ExpiredNever(s) == FALSE

\* Mutant: the first statement deletes rows of any age.
ExpiredAny(s) == TRUE

\* Is there no row of s, or one older than the expiry?
Expired(s) == row[s].left = 0

\* runDigestAttempt: a run of this process is under way, of whichever scope.
SkipRunning(a, s) ==
  /\ attempt[a].phase = "idle"
  /\ Undisturbed(a)
  /\ running[ProcessOf[a]]
  /\ attempt' = [attempt EXCEPT ![a] = [phase |-> "skipped", scope |-> s, direct |-> FALSE, left |-> 0]]
  /\ UNCHANGED <<row, running>>

\* acquireDigestLock, first statement: expired rows go, of every scope.
Reap(a, s, direct) ==
  /\ attempt[a].phase = "idle"
  /\ Undisturbed(a)
  /\ direct \/ ~running[ProcessOf[a]]
  /\ row' = [t \in Scopes |-> IF Expired(t) THEN NoRow ELSE row[t]]
  /\ attempt' = [attempt EXCEPT ![a] = [phase |-> "reaped", scope |-> s, direct |-> direct, left |-> 0]]
  /\ UNCHANGED running

\* Second statement: INSERT OR IGNORE, and the row was not there.
Insert(a) ==
  LET s == attempt[a].scope
  IN  /\ attempt[a].phase = "reaped"
      /\ ~Present(s)
      /\ row' = [row EXCEPT ![s] = [by |-> a, left |-> Expiry]]
      /\ attempt' = [attempt EXCEPT ![a] = [phase |-> "locked", scope |-> s,
                                            direct |-> attempt[a].direct, left |-> Expiry]]
      /\ UNCHANGED running

\* The row was there: another attempt is digesting the scope.
SkipLocked(a) ==
  /\ attempt[a].phase = "reaped"
  /\ Present(attempt[a].scope)
  /\ attempt' = [attempt EXCEPT ![a] = [phase |-> "skipped", scope |-> attempt[a].scope,
                                        direct |-> attempt[a].direct, left |-> 0]]
  /\ UNCHANGED <<row, running>>

\* After the await on the lock: the flag is set and the pipeline starts.
Begin(a) ==
  /\ attempt[a].phase = "locked"
  /\ Undisturbed(a)
  /\ running' = [running EXCEPT ![ProcessOf[a]] = running[ProcessOf[a]] \/ ~attempt[a].direct]
  /\ attempt' = [attempt EXCEPT ![a] = [phase |-> "digesting", scope |-> attempt[a].scope,
                                        direct |-> attempt[a].direct, left |-> attempt[a].left]]
  /\ UNCHANGED row

\* The pipeline returned or threw.  The flag is cleared, and the scope's row is
\* deleted, whoever inserted it.
Finish(a) ==
  LET p == ProcessOf[a]
  IN  /\ attempt[a].phase = "digesting"
      /\ Undisturbed(a)
      /\ running' = [running EXCEPT ![p] = running[p] /\ attempt[a].direct]
      /\ row' = [row EXCEPT ![attempt[a].scope] = NoRow]
      /\ attempt' = [attempt EXCEPT ![a] = Idle]

\* The INSERT fails: the file stays busy past its timeout.
InsertFails(a) ==
  /\ attempt[a].phase = "reaped"
  /\ attempt' = [attempt EXCEPT ![a] = Idle]
  /\ UNCHANGED <<row, running>>

\* The same for the DELETE of the release: the flag is cleared, the row stays.
ReleaseFails(a) ==
  LET p == ProcessOf[a]
  IN  /\ attempt[a].phase = "digesting"
      /\ Undisturbed(a)
      /\ running' = [running EXCEPT ![p] = running[p] /\ attempt[a].direct]
      /\ attempt' = [attempt EXCEPT ![a] = Idle]
      /\ UNCHANGED row

\* The skipped attempt returns to its caller.
Return(a) ==
  /\ attempt[a].phase = "skipped"
  /\ attempt' = [attempt EXCEPT ![a] = Idle]
  /\ UNCHANGED <<row, running>>

\* The process dies; its rows stay.
Crash(p) ==
  /\ \E a \in Attempts : ProcessOf[a] = p /\ attempt[a] # Idle
  /\ running' = [running EXCEPT ![p] = FALSE]
  /\ attempt' = [a \in Attempts |-> IF ProcessOf[a] = p THEN Idle ELSE attempt[a]]
  /\ UNCHANGED row

Less(n) == IF n > 0 THEN n - 1 ELSE 0

\* Bound of the model: unless MayOverstay, a run ends while its row is honored.
Tick ==
  /\ MayOverstay \/ \A a \in Attempts : attempt[a].phase \in {"locked", "digesting"} => attempt[a].left > 1
  /\ row' = [s \in Scopes |-> [by |-> row[s].by, left |-> Less(row[s].left)]]
  /\ attempt' = [a \in Attempts |->
                   [phase |-> attempt[a].phase, scope |-> attempt[a].scope,
                    direct |-> attempt[a].direct, left |-> Less(attempt[a].left)]]
  /\ UNCHANGED running

Init ==
  /\ row = [s \in Scopes |-> NoRow]
  /\ running = [p \in Processes |-> FALSE]
  /\ attempt = [a \in Attempts |-> Idle]

Call(a, s) == SkipRunning(a, s) \/ \E direct \in BOOLEAN : Reap(a, s, direct)

Continue(a) == Insert(a) \/ SkipLocked(a) \/ Begin(a) \/ Finish(a) \/ Return(a)

Next ==
  \/ \E a \in Attempts, s \in Scopes : Call(a, s)
  \/ \E a \in Attempts : Continue(a) \/ InsertFails(a) \/ ReleaseFails(a)
  \/ \E p \in Processes : Crash(p)
  \/ Tick

Spec == Init /\ [][Next]_vars

\* Time passes, an attempt goes on (strongly: the event loop serves it between
\* others of its process), and a scope with events to digest goes on being tried
\* (startup, threshold, explicit demand).
FairSpec ==
  /\ Spec
  /\ SF_vars(Tick)
  /\ \A a \in Attempts : SF_vars(Continue(a))
  /\ \A s \in Scopes : SF_vars(\E a \in Attempts : Reap(a, s, FALSE))
  /\ \A s \in Scopes : SF_vars(\E a \in Attempts : attempt[a].scope = s /\ Insert(a))

-----------------------------------------------------------------------------
(* Properties *)

Lives == 0..Expiry
Phases == {"idle", "skipped", "reaped", "locked", "digesting"}

\* Type invariant.
TypeOK ==
  /\ row \in [Scopes -> [by : Attempts \cup {NoAttempt}, left : Lives]]
  /\ running \in [Processes -> BOOLEAN]
  /\ attempt \in [Attempts -> [phase : Phases, scope : Scopes \cup {NoScope}, direct : BOOLEAN, left : Lives]]

\* A row left by a process that died, or could not release it, does not leave
\* its scope "with no digest catch-up forever": as long as the scope is tried, a
\* run gets it.
StrandedScopeRecovers ==
  \A s \in Scopes : (\A a \in Attempts : ~Holds(a, s)) ~> (\E a \in Attempts : Holds(a, s))
=============================================================================
