---------------------------------- MODULE Lease ----------------------------------
(***************************************************************************)
(* What a digest lock promises.  A run enters a free scope and gets a      *)
(* lease on it, for a term.  The lease ends with its own run leaving, or   *)
(* when nothing of its term is left, and in no other way: nobody else's    *)
(* leaving, entering or dying takes it away.                               *)
(***************************************************************************)
EXTENDS Integers

CONSTANTS Scopes, Runs, Terms, NoRun, NoScope

VARIABLES
  lease,    \* of each scope: the run that has it, what is left of its term
  inside    \* of each run: the scope it is in

Free == [by |-> NoRun, left |-> 0]

Init ==
  /\ lease = [s \in Scopes |-> Free]
  /\ inside = [r \in Runs |-> NoScope]

Enter(s, r, t) ==
  /\ inside[r] = NoScope
  /\ lease[s].left = 0
  /\ lease' = [lease EXCEPT ![s] = [by |-> r, left |-> t]]
  /\ inside' = [inside EXCEPT ![r] = s]

\* The run leaves and its lease ends.
GiveBack(s, r) ==
  /\ inside[r] = s
  /\ lease[s].by = r
  /\ lease' = [lease EXCEPT ![s] = Free]
  /\ inside' = [inside EXCEPT ![r] = NoScope]

\* Some runs leave, or die, and no lease changes.
Vanish(R) ==
  /\ inside' = [r \in Runs |-> IF r \in R THEN NoScope ELSE inside[r]]
  /\ UNCHANGED lease

\* The ended leases of some scopes are cleared.
Lapse(S) ==
  /\ \A s \in S : lease[s].left = 0
  /\ lease' = [s \in Scopes |-> IF s \in S THEN Free ELSE lease[s]]
  /\ UNCHANGED inside

Aged(l) == [by |-> l.by, left |-> IF l.left > 0 THEN l.left - 1 ELSE 0]

Tick ==
  /\ lease' = [s \in Scopes |-> Aged(lease[s])]
  /\ UNCHANGED inside

Next ==
  \/ \E s \in Scopes, r \in Runs : (\E t \in Terms : Enter(s, r, t)) \/ GiveBack(s, r)
  \/ \E R \in SUBSET Runs : Vanish(R)
  \/ \E S \in SUBSET Scopes : Lapse(S)
  \/ Tick

Spec == Init /\ [][Next]_<<lease, inside>>
=============================================================================
