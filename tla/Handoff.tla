---------------------------------- MODULE Handoff ----------------------------------
(***************************************************************************)
(* Session handoffs of a scope: rows that say where a session stopped, each *)
(* closed by the next one or by a clear, and never deleted.  Callers write  *)
(* them in transactions: in PostgreSQL at READ COMMITTED, where a statement *)
(* sees what was committed when it started, waits for the rows others have  *)
(* updated and looks at them again; in SQLite under BEGIN IMMEDIATE, where  *)
(* there is one writer at a time.                                           *)
(***************************************************************************)
EXTENDS Integers, FiniteSets

CONSTANTS Callers, Handoffs, NoHandoff

ASSUME HandoffAssumption == NoHandoff \notin Handoffs

VARIABLES
  backend,       \* which of the two this scope is kept in: "api", "embedded"
  stored,        \* the committed SessionHandoff rows
  supersededBy,  \* of each row: the handoff that closed it
  retired,       \* the rows a clear has closed
  txn            \* of each caller: its transaction

vars == <<backend, stored, supersededBy, retired, txn>>

\* own: the row it inserts; todo: the rows its update has found and not yet
\* come to; locked: those it has updated; before (a ghost): the rows that were
\* committed when it began.
Transactions ==
  [phase  : {"idle", "inserted", "updating"},
   own    : Handoffs \cup {NoHandoff},
   todo   : SUBSET Handoffs,
   locked : SUBSET Handoffs,
   before : SUBSET Handoffs]

NoTransaction ==
  [phase |-> "idle", own |-> NoHandoff, todo |-> {}, locked |-> {}, before |-> {}]

\* The state's types: handoffs and the transactions' own views of them.
TypeOK ==
  /\ backend \in {"api", "embedded"}
  /\ stored \subseteq Handoffs
  /\ supersededBy \in [Handoffs -> Handoffs \cup {NoHandoff}]
  /\ retired \subseteq stored
  /\ txn \in [Callers -> Transactions]

Init ==
  /\ backend \in {"api", "embedded"}
  /\ stored = {}
  /\ supersededBy = [h \in Handoffs |-> NoHandoff]
  /\ retired = {}
  /\ txn = [c \in Callers |-> NoTransaction]

-----------------------------------------------------------------------------
(* Reading *)

Closed(h) == supersededBy[h] # NoHandoff \/ h \in retired

Active == {h \in stored : ~Closed(h)}

\* The entry the map from superseder to superseded ends up with.
Predecessor(h) ==
  IF \E g \in stored : supersededBy[g] = h
  THEN CHOOSE g \in stored : supersededBy[g] = h
  ELSE NoHandoff

\* A walk is at a row, and has seen some.
Walks == Handoffs \X SUBSET Handoffs

\* Back to the oldest ancestor...
Root[w \in Walks] ==
  LET h == Predecessor(w[1])
  IN  IF h = NoHandoff \/ h \in w[2] THEN w[1] ELSE Root[<<h, w[2] \cup {h}>>]

\* ...then forward along supersededBy.
Forward[w \in Walks] ==
  LET h == supersededBy[w[1]]
  IN  IF h \in stored \ (w[2] \cup {w[1]})
      THEN {w[1]} \cup Forward[<<h, w[2] \cup {w[1]}>>]
      ELSE {w[1]}

\* Mutant: the walk back is left out.
ForwardOnly(h) == Forward[<<h, {}>>]

\* What "why" answers for a handoff.
Chain(h) == Forward[<<Root[<<h, {h}>>], {}>>]

-----------------------------------------------------------------------------
(* Writing *)

\* Mutant: a plain BEGIN, which takes the write lock with the first write.
CanBeginDeferred(c) == txn[c].phase = "idle"

\* BEGIN IMMEDIATE waits for the other writers.
CanBegin(c) ==
  /\ txn[c].phase = "idle"
  /\ backend = "embedded" => \A d \in Callers : txn[d].phase = "idle"

\* A set begins: it inserts its row, under a fresh id.
Insert(c, h) ==
  /\ CanBegin(c)
  /\ h \notin stored
  /\ \A d \in Callers : txn[d].own # h
  /\ txn' = [txn EXCEPT ![c] =
               [phase |-> "inserted", own |-> h, todo |-> {}, locked |-> {}, before |-> stored]]
  /\ UNCHANGED <<backend, stored, supersededBy, retired>>

\* Mutant: rows that are closed are updated too.
TargetsClosedToo(c) == {h \in stored \cup {txn[c].own} : h # txn[c].own}

\* Mutant: the row just inserted is not excepted.
TargetsOwnToo(c) == {h \in stored \cup ({txn[c].own} \ {NoHandoff}) : ~Closed(h)}

\* Mutant: only one open row is looked up and updated.
TargetsOne(c) ==
  {h \in Active \ {txn[c].own} : h = CHOOSE g \in Active \ {txn[c].own} : TRUE}

\* The rows the caller's update is about, as far as it sees: the open ones, its
\* own excepted.
Targets(c) ==
  {h \in stored \cup {txn[c].own} : h # txn[c].own /\ ~Closed(h)}

\* Its update statement starts and finds its rows.
Supersede(c) ==
  /\ txn[c].phase = "inserted"
  /\ txn' = [txn EXCEPT ![c] =
               [phase |-> "updating", own |-> txn[c].own, todo |-> Targets(c),
                locked |-> {}, before |-> txn[c].before]]
  /\ UNCHANGED <<backend, stored, supersededBy, retired>>

\* A clear is one statement.
Clear(c) ==
  /\ CanBegin(c)
  /\ txn' = [txn EXCEPT ![c] =
               [phase |-> "updating", own |-> NoHandoff, todo |-> Targets(c), locked |-> {}, before |-> stored]]
  /\ UNCHANGED <<backend, stored, supersededBy, retired>>

\* The statement comes to a row: it waits until no other transaction has it
\* updated, and looks at it again.
UpdateRow(c, h) ==
  /\ h \in txn[c].todo
  /\ \A d \in Callers \ {c} : h \notin txn[d].locked
  /\ txn' = [txn EXCEPT ![c] =
               [phase |-> "updating", own |-> txn[c].own, todo |-> txn[c].todo \ {h},
                locked |-> txn[c].locked \cup ({h} \cap Targets(c)), before |-> txn[c].before]]
  /\ UNCHANGED <<backend, stored, supersededBy, retired>>

Commit(c) ==
  /\ txn[c].phase = "updating"
  /\ txn[c].todo = {}
  /\ IF txn[c].own = NoHandoff
     THEN /\ retired' = retired \cup txn[c].locked
          /\ UNCHANGED <<stored, supersededBy>>
     ELSE /\ stored' = stored \cup {txn[c].own}
          /\ supersededBy' = [h \in Handoffs |-> IF h \in txn[c].locked THEN txn[c].own ELSE supersededBy[h]]
          /\ UNCHANGED retired
  /\ txn' = [txn EXCEPT ![c] = NoTransaction]
  /\ UNCHANGED backend

\* Mutant: the insert and the update are no transaction, so that what has been
\* updated stays so.
AbortKeepsUpdates(c) ==
  /\ txn[c].phase # "idle"
  /\ supersededBy' = [h \in Handoffs |-> IF h \in txn[c].locked THEN txn[c].own ELSE supersededBy[h]]
  /\ txn' = [txn EXCEPT ![c] = NoTransaction]
  /\ UNCHANGED <<backend, stored, retired>>

\* The process dies, the connection is lost, or the transaction is the victim
\* of a deadlock: nothing of it remains.
Abort(c) ==
  /\ txn[c].phase # "idle"
  /\ txn' = [txn EXCEPT ![c] = NoTransaction]
  /\ UNCHANGED <<backend, stored, supersededBy, retired>>

Next ==
  \E c \in Callers :
    \/ \E h \in Handoffs : Insert(c, h) \/ UpdateRow(c, h)
    \/ Supersede(c)
    \/ Clear(c)
    \/ Commit(c)
    \/ Abort(c)

Spec == Init /\ [][Next]_vars

-----------------------------------------------------------------------------
(* Properties *)

\* The embedded backend has at most one handoff to continue from, whichever of
\* its processes write and die.
OneActive ==
  backend = "embedded" => \A g, h \in Active : g = h

\* Supersession ends: no handoffs supersede each other in a circle, and none is
\* superseded by one that is not stored, however the transactions overlap.  So
\* unless all were cleared there is one to continue from.
ChainsEnd ==
  \A S \in SUBSET Handoffs : (S # {} /\ S \subseteq stored) => \E h \in S : supersededBy[h] \notin S

\* A row is superseded by one that is stored: a set is stored with what it
\* closes or leaves no trace.
LinksResolve ==
  \A h \in Handoffs : supersededBy[h] \in stored \cup {NoHandoff}

\* "Never deleted": a row that is closed stays as it was closed.  Two sets, or
\* a set and a clear, that meet on one row do not both close it.
ClosedOnce ==
  [][/\ stored \subseteq stored'
     /\ \A h \in stored : Closed(h) =>
          /\ supersededBy'[h] = supersededBy[h]
          /\ h \in retired' <=> h \in retired]_vars

\* A handoff that was committed before a set or a clear began is closed when
\* that has committed: by it, or by another that overlapped it.
BeforeIsClosed ==
  [][\A c \in Callers : Commit(c) => \A h \in txn[c].before : Closed(h)']_vars

\* "why walks every stop-point this project has ever recorded": in the embedded
\* backend, as long as none was cleared.
WhyWalksAll ==
  (backend = "embedded" /\ retired = {}) => \A h \in stored : Chain(h) = stored
=============================================================================
