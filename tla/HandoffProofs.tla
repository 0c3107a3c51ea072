------------------------------- MODULE HandoffProofs -------------------------------
(***************************************************************************)
(* Proofs about Handoff, for any callers and handoffs and either backend.  *)
(***************************************************************************)
EXTENDS Handoff, TLAPS

-----------------------------------------------------------------------------
(* Type correctness *)

\* A commit closes and stores only rows there are; the transactions of others
\* are as they were.
LEMMA CommitTyped ==
  ASSUME TypeOK, \A c \in Callers : txn[c].locked \subseteq stored,
         NEW c \in Callers, Commit(c)
  PROVE  TypeOK'
<1>0. txn[c] \in Transactions
  BY DEF TypeOK
<1>1. stored' \subseteq Handoffs /\ retired' \subseteq stored'
  BY <1>0 DEF TypeOK, Commit, Transactions
<1>2. supersededBy' \in [Handoffs -> Handoffs \cup {NoHandoff}]
  BY <1>0 DEF TypeOK, Commit, Transactions
<1>3. txn' \in [Callers -> Transactions]
  BY DEF TypeOK, Commit, Transactions, NoTransaction
<1>4. backend' \in {"api", "embedded"}
  BY DEF TypeOK, Commit
<1> QED
  BY <1>1, <1>2, <1>3, <1>4 DEF TypeOK

\* What every transaction keeps to: it looks at and updates stored rows only;
\* those it has updated are open, and nobody else's; the row it inserts is not
\* stored and its own.
Orderly ==
  /\ \A c \in Callers :
       /\ txn[c].todo \subseteq stored
       /\ txn[c].before \subseteq stored
       /\ \A h \in txn[c].locked : h \in stored /\ ~Closed(h)
       /\ txn[c].own \notin stored
       /\ txn[c].phase = "inserted" => txn[c].own \in Handoffs /\ txn[c].todo = {}
       /\ txn[c].phase = "idle" => txn[c] = NoTransaction
  /\ \A c, d \in Callers : c # d =>
       /\ txn[c].locked \cap txn[d].locked = {}
       /\ txn[c].own = txn[d].own => txn[c].own = NoHandoff
  /\ \A h \in Handoffs : supersededBy[h] # NoHandoff => h \in stored
  /\ LinksResolve

\* A transaction is a record of its parts.
LEMMA Parts ==
  ASSUME TypeOK, NEW c \in Callers
  PROVE  /\ txn[c] \in Transactions
         /\ txn[c].phase \in {"idle", "inserted", "updating"}
         /\ txn[c].own \in Handoffs \cup {NoHandoff}
         /\ txn[c].todo \subseteq Handoffs
         /\ txn[c].locked \subseteq Handoffs
         /\ txn[c].before \subseteq Handoffs
BY DEF TypeOK, Transactions

\* The targets of an update are open rows.
LEMMA TargetsOpen ==
  ASSUME TypeOK, Orderly, NEW c \in Callers,
         txn[c].own = NoHandoff \/ txn[c].own \in Handoffs
  PROVE  /\ Targets(c) \subseteq stored
         /\ \A h \in stored : h \in Targets(c) <=> ~Closed(h)
BY DEF Targets, Orderly

\* Every step keeps the types.
LEMMA NextTyped == TypeOK /\ Orderly /\ [Next]_vars => TypeOK'
<1> SUFFICES ASSUME TypeOK, Orderly, [Next]_vars PROVE TypeOK'
  OBVIOUS
<1>1. ASSUME NEW c \in Callers, NEW h \in Handoffs, Insert(c, h)
      PROVE  TypeOK'
  BY <1>1 DEF Insert, TypeOK, Transactions
<1>2. ASSUME NEW c \in Callers, NEW h \in Handoffs, UpdateRow(c, h)
      PROVE  TypeOK'
  <2>1. txn' \in [Callers -> Transactions]
    BY <1>2, Parts DEF UpdateRow, TypeOK, Transactions
  <2> QED
    BY <1>2, <2>1 DEF UpdateRow, TypeOK
<1>3. ASSUME NEW c \in Callers, Supersede(c)
      PROVE  TypeOK'
  <2>1. Targets(c) \subseteq Handoffs
    BY TargetsOpen, Parts DEF TypeOK
  <2>2. txn' \in [Callers -> Transactions]
    BY <1>3, <2>1, Parts DEF Supersede, TypeOK, Transactions
  <2> QED
    BY <1>3, <2>2 DEF Supersede, TypeOK
<1>4. ASSUME NEW c \in Callers, Clear(c)
      PROVE  TypeOK'
  <2>1. Targets(c) \subseteq Handoffs
    BY TargetsOpen, Parts DEF TypeOK
  <2> QED
    BY <1>4, <2>1 DEF Clear, TypeOK, Transactions
<1>5. ASSUME NEW c \in Callers, Commit(c)
      PROVE  TypeOK'
  BY <1>5, CommitTyped DEF Orderly
<1>6. ASSUME NEW c \in Callers, Abort(c)
      PROVE  TypeOK'
  BY <1>6 DEF Abort, TypeOK, Transactions, NoTransaction
<1>7. ASSUME UNCHANGED vars
      PROVE  TypeOK'
  BY <1>7 DEF vars, TypeOK
<1> QED
  BY <1>1, <1>2, <1>3, <1>4, <1>5, <1>6, <1>7 DEF Next

-----------------------------------------------------------------------------
(* The order transactions keep *)

\* While no row is committed or closed, it is enough to look at the transaction
\* that takes the step.
LEMMA OrderlyStep ==
  ASSUME TypeOK, Orderly, NEW c \in Callers,
         UNCHANGED <<stored, supersededBy, retired>>,
         NEW STATE t, txn' = [txn EXCEPT ![c] = t],
         t.todo \subseteq stored, t.before \subseteq stored,
         \A h \in t.locked : h \in stored /\ ~Closed(h),
         t.own \notin stored,
         t.phase = "inserted" => t.own \in Handoffs /\ t.todo = {},
         t.phase = "idle" => t = NoTransaction,
         \A d \in Callers \ {c} : /\ t.locked \cap txn[d].locked = {}
                                  /\ t.own = txn[d].own => t.own = NoHandoff
  PROVE  Orderly'
<1>1. txn'[c] = t /\ \A d \in Callers \ {c} : txn'[d] = txn[d]
  BY DEF TypeOK
<1>2. \A h : Closed(h)' <=> Closed(h)
  BY DEF Closed
<1>3. \A d \in Callers :
        /\ txn'[d].todo \subseteq stored
        /\ txn'[d].before \subseteq stored
        /\ \A h \in txn'[d].locked : h \in stored /\ ~Closed(h)
        /\ txn'[d].own \notin stored
        /\ txn'[d].phase = "inserted" => txn'[d].own \in Handoffs /\ txn'[d].todo = {}
        /\ txn'[d].phase = "idle" => txn'[d] = NoTransaction
  BY <1>1 DEF Orderly
<1>4. \A d, e \in Callers : d # e =>
        /\ txn'[d].locked \cap txn'[e].locked = {}
        /\ txn'[d].own = txn'[e].own => txn'[d].own = NoHandoff
  BY <1>1 DEF Orderly
<1> QED
  BY <1>2, <1>3, <1>4 DEF Orderly, LinksResolve

\* A commit closes its own rows, which are nobody else's, and stores its own
\* row, which nobody else inserts.
LEMMA CommitOrderly ==
  ASSUME TypeOK, Orderly, NEW c \in Callers, Commit(c)
  PROVE  Orderly'
<1> DEFINE t == txn[c]
<1>0. t.own \in Handoffs \cup {NoHandoff} /\ t.locked \subseteq stored /\ stored \subseteq stored'
  BY Parts DEF Orderly, Commit
<1>1. txn'[c] = NoTransaction /\ \A d \in Callers \ {c} : txn'[d] = txn[d]
  BY DEF TypeOK, Commit
<1>2. \A h \in stored : h \notin t.locked => (Closed(h)' <=> Closed(h))
  BY DEF Commit, Closed, TypeOK
<1>3. stored' \subseteq stored \cup {t.own} /\ (t.own = NoHandoff => stored' = stored)
  BY DEF Commit
<1>4. NoHandoff \notin stored'
  BY <1>0, <1>3, HandoffAssumption DEF TypeOK
<1>5. ASSUME NEW d \in Callers \ {c}
      PROVE  /\ txn'[d].todo \subseteq stored'
             /\ txn'[d].before \subseteq stored'
             /\ \A h \in txn'[d].locked : h \in stored' /\ ~Closed(h)'
             /\ txn'[d].own \notin stored'
             /\ txn'[d].phase = "inserted" => txn'[d].own \in Handoffs /\ txn'[d].todo = {}
             /\ txn'[d].phase = "idle" => txn'[d] = NoTransaction
  <2>1. txn'[d] = txn[d] /\ c # d
    BY <1>1
  <2>2. txn[d].locked \cap t.locked = {} /\ (txn[d].own = t.own => t.own = NoHandoff)
    BY <2>1 DEF Orderly
  <2>3. \A h \in txn[d].locked : h \in stored /\ ~Closed(h)
    BY DEF Orderly
  <2>4. \A h \in txn[d].locked : ~Closed(h)'
    BY <1>2, <2>2, <2>3
  <2>5. txn[d].own \notin stored'
    BY <1>3, <2>2 DEF Orderly
  <2> QED
    BY <1>0, <2>1, <2>3, <2>4, <2>5 DEF Orderly
<1>6. /\ txn'[c].todo \subseteq stored'
      /\ txn'[c].before \subseteq stored'
      /\ \A h \in txn'[c].locked : h \in stored' /\ ~Closed(h)'
      /\ txn'[c].own \notin stored'
      /\ txn'[c].phase = "inserted" => txn'[c].own \in Handoffs /\ txn'[c].todo = {}
      /\ txn'[c].phase = "idle" => txn'[c] = NoTransaction
  BY <1>1, <1>4 DEF NoTransaction
<1>7. ASSUME NEW d \in Callers, NEW e \in Callers, d # e
      PROVE  /\ txn'[d].locked \cap txn'[e].locked = {}
             /\ txn'[d].own = txn'[e].own => txn'[d].own = NoHandoff
  BY <1>1, <1>7 DEF Orderly, NoTransaction
<1>8. \A h \in Handoffs : /\ supersededBy'[h] # NoHandoff => h \in stored'
                          /\ supersededBy'[h] \in stored' \cup {NoHandoff}
  BY <1>0 DEF Commit, Orderly, LinksResolve, TypeOK
<1>9. \A d \in Callers :
        /\ txn'[d].todo \subseteq stored'
        /\ txn'[d].before \subseteq stored'
        /\ \A h \in txn'[d].locked : h \in stored' /\ ~Closed(h)'
        /\ txn'[d].own \notin stored'
        /\ txn'[d].phase = "inserted" => txn'[d].own \in Handoffs /\ txn'[d].todo = {}
        /\ txn'[d].phase = "idle" => txn'[d] = NoTransaction
  BY <1>5, <1>6
<1> QED
  BY <1>7, <1>8, <1>9 DEF Orderly, LinksResolve

\* Every step keeps the transactions orderly.
LEMMA NextOrderly == TypeOK /\ Orderly /\ [Next]_vars => Orderly'
<1> SUFFICES ASSUME TypeOK, Orderly, [Next]_vars PROVE Orderly'
  OBVIOUS
<1>1. ASSUME NEW c \in Callers, NEW h \in Handoffs, Insert(c, h)
      PROVE  Orderly'
  <2> DEFINE t == [phase |-> "inserted", own |-> h, todo |-> {}, locked |-> {}, before |-> stored]
  <2>1. txn' = [txn EXCEPT ![c] = t] /\ UNCHANGED <<stored, supersededBy, retired>>
    BY <1>1 DEF Insert
  <2>2. \A d \in Callers \ {c} : t.own # txn[d].own
    BY <1>1 DEF Insert
  <2>3. t.own = h /\ h \notin stored /\ t.todo = {} /\ t.locked = {} /\ t.before = stored /\ t.phase # "idle"
    BY <1>1 DEF Insert
  <2> HIDE DEF t
  <2> QED
    BY <2>1, <2>2, <2>3, OrderlyStep
<1>2. ASSUME NEW c \in Callers, NEW h \in Handoffs, UpdateRow(c, h)
      PROVE  Orderly'
  <2> DEFINE t == [phase |-> "updating", own |-> txn[c].own, todo |-> txn[c].todo \ {h},
                   locked |-> txn[c].locked \cup ({h} \cap Targets(c)), before |-> txn[c].before]
  <2>1. txn' = [txn EXCEPT ![c] = t] /\ UNCHANGED <<stored, supersededBy, retired>>
    BY <1>2 DEF UpdateRow
  <2>2. \A g \in t.locked : g \in stored /\ ~Closed(g)
    BY Parts, TargetsOpen DEF Orderly
  <2>3. \A d \in Callers \ {c} : t.locked \cap txn[d].locked = {}
    BY <1>2 DEF UpdateRow, Orderly
  <2>4. \A d \in Callers \ {c} : t.own = txn[d].own => t.own = NoHandoff
    BY DEF Orderly
  <2>5. t.todo \subseteq stored /\ t.before \subseteq stored /\ t.own \notin stored
    BY DEF Orderly
  <2>6. t.phase # "inserted" /\ t.phase # "idle"
    OBVIOUS
  <2> HIDE DEF t
  <2> QED
    BY <2>1, <2>2, <2>3, <2>4, <2>5, <2>6, OrderlyStep
<1>3. ASSUME NEW c \in Callers, Supersede(c)
      PROVE  Orderly'
  <2> DEFINE t == [phase |-> "updating", own |-> txn[c].own, todo |-> Targets(c),
                   locked |-> {}, before |-> txn[c].before]
  <2>1. txn' = [txn EXCEPT ![c] = t] /\ UNCHANGED <<stored, supersededBy, retired>>
    BY <1>3 DEF Supersede
  <2>2. t.todo \subseteq stored
    BY Parts, TargetsOpen
  <2>3. \A d \in Callers \ {c} : t.own = txn[d].own => t.own = NoHandoff
    BY DEF Orderly
  <2>4. t.before \subseteq stored /\ t.own \notin stored /\ t.locked = {}
    BY DEF Orderly
  <2>5. t.phase # "inserted" /\ t.phase # "idle"
    OBVIOUS
  <2> HIDE DEF t
  <2> QED
    BY <2>1, <2>2, <2>3, <2>4, <2>5, OrderlyStep
<1>4. ASSUME NEW c \in Callers, Clear(c)
      PROVE  Orderly'
  <2> DEFINE t == [phase |-> "updating", own |-> NoHandoff, todo |-> Targets(c),
                   locked |-> {}, before |-> stored]
  <2>1. txn' = [txn EXCEPT ![c] = t] /\ UNCHANGED <<stored, supersededBy, retired>>
    BY <1>4 DEF Clear
  <2>2. t.todo \subseteq stored
    BY Parts, TargetsOpen
  <2>3. t.own = NoHandoff /\ NoHandoff \notin stored
    BY HandoffAssumption DEF TypeOK
  <2>4. t.before = stored /\ t.locked = {} /\ t.phase # "inserted" /\ t.phase # "idle"
    OBVIOUS
  <2> HIDE DEF t
  <2> QED
    BY <2>1, <2>2, <2>3, <2>4, OrderlyStep
<1>5. ASSUME NEW c \in Callers, Commit(c)
      PROVE  Orderly'
  BY <1>5, CommitOrderly
<1>6. ASSUME NEW c \in Callers, Abort(c)
      PROVE  Orderly'
  <2>1. txn' = [txn EXCEPT ![c] = NoTransaction] /\ UNCHANGED <<stored, supersededBy, retired>>
    BY <1>6 DEF Abort
  <2>2. /\ NoTransaction.own = NoHandoff /\ NoTransaction.todo = {} /\ NoTransaction.locked = {}
        /\ NoTransaction.before = {} /\ NoTransaction.phase # "inserted"
    BY DEF NoTransaction
  <2>3. NoHandoff \notin stored
    BY HandoffAssumption DEF TypeOK
  <2> QED
    BY <2>1, <2>2, <2>3, OrderlyStep
<1>7. ASSUME UNCHANGED vars
      PROVE  Orderly'
  BY <1>7 DEF vars, Orderly, Closed, LinksResolve
<1> QED
  BY <1>1, <1>2, <1>3, <1>4, <1>5, <1>6, <1>7 DEF Next

\* Both hold throughout.
LEMMA AlwaysOrderly == Spec => [](TypeOK /\ Orderly)
<1>1. Init => TypeOK
  BY DEF Init, TypeOK, Transactions, NoTransaction
<1>2. Init => Orderly
  BY HandoffAssumption DEF Init, Orderly, LinksResolve, NoTransaction
<1> QED
  BY <1>1, <1>2, NextTyped, NextOrderly, PTL DEF Spec

\* Rows and transactions always have the shape the code gives them.
THEOREM TypeCorrect == Spec => []TypeOK
BY AlwaysOrderly, PTL

\* A row is superseded by a row that is stored, or by none: the insert and the
\* update of a set are committed together or not at all.
THEOREM LinksAlwaysResolve == Spec => []LinksResolve
<1>1. Orderly => LinksResolve
  BY DEF Orderly
<1> QED
  BY <1>1, AlwaysOrderly, PTL

-----------------------------------------------------------------------------
(* Supersession ends *)

\* A commit makes no circle: the row it stores is superseded by none, and the
\* rows it closes lead to that row.
LEMMA CommitEndsChains ==
  ASSUME TypeOK, Orderly, ChainsEnd, NEW c \in Callers, Commit(c)
  PROVE  ChainsEnd'
<1> SUFFICES ASSUME NEW S \in SUBSET Handoffs, S # {}, S \subseteq stored'
             PROVE  \E h \in S : supersededBy'[h] \notin S
  BY DEF ChainsEnd
<1>0. txn[c].own \in Handoffs \cup {NoHandoff} /\ txn[c].own \notin stored /\ txn[c].locked \subseteq stored
  BY Parts DEF Orderly
<1>1. CASE txn[c].own = NoHandoff
  <2>1. stored' = stored /\ supersededBy' = supersededBy
    BY <1>1 DEF Commit
  <2> QED
    BY <2>1 DEF ChainsEnd
<1>2. CASE txn[c].own # NoHandoff /\ txn[c].own \in S
  <2>1. txn[c].own \in Handoffs /\ txn[c].own \notin txn[c].locked
    BY <1>0, <1>2
  <2>2. supersededBy'[txn[c].own] = supersededBy[txn[c].own]
    BY <1>2, <2>1 DEF Commit
  <2>3. supersededBy[txn[c].own] = NoHandoff
    BY <1>0, <2>1 DEF Orderly
  <2> QED
    BY <1>2, <2>2, <2>3, HandoffAssumption
<1>3. CASE txn[c].own # NoHandoff /\ txn[c].own \notin S
  <2>1. S \subseteq stored
    BY <1>3 DEF Commit
  <2>2. PICK h \in S : supersededBy[h] \notin S
    BY <2>1 DEF ChainsEnd
  <2>3. supersededBy'[h] \in {supersededBy[h], txn[c].own}
    BY <1>3, <2>2 DEF Commit
  <2> QED
    BY <1>3, <2>2, <2>3
<1> QED
  BY <1>1, <1>2, <1>3

\* Supersession never runs in a circle, in either backend and however the
\* transactions overlap, wait and abort.
THEOREM ChainsAlwaysEnd == Spec => []ChainsEnd
<1>1. Init => ChainsEnd
  BY DEF Init, ChainsEnd
<1>2. ASSUME TypeOK, Orderly, ChainsEnd, [Next]_vars
      PROVE  ChainsEnd'
  <2>1. CASE UNCHANGED <<stored, supersededBy>>
    BY <1>2, <2>1 DEF ChainsEnd
  <2>2. CASE \E c \in Callers : Commit(c)
    BY <1>2, <2>2, CommitEndsChains
  <2> QED
    BY <1>2, <2>1, <2>2 DEF Next, vars, Insert, UpdateRow, Supersede, Clear, Abort
<1> QED
  BY <1>1, <1>2, AlwaysOrderly, PTL DEF Spec

-----------------------------------------------------------------------------
(* Closed rows stay *)

\* A row is closed at most once, by a set or by a clear, and no row is deleted:
\* what a transaction closes it has updated while it was open, and no other has.
THEOREM AlwaysClosedOnce == Spec => ClosedOnce
<1> DEFINE Step == /\ stored \subseteq stored'
                   /\ \A h \in stored : Closed(h) =>
                        /\ supersededBy'[h] = supersededBy[h]
                        /\ h \in retired' <=> h \in retired
<1>1. ASSUME TypeOK, Orderly, [Next]_vars
      PROVE  Step
  <2>1. CASE UNCHANGED <<stored, supersededBy, retired>>
    BY <2>1
  <2>2. ASSUME NEW c \in Callers, Commit(c)
        PROVE  Step
    <3>1. stored \subseteq stored'
      BY <2>2 DEF Commit
    <3>2. ASSUME NEW h \in stored, Closed(h)
          PROVE  /\ supersededBy'[h] = supersededBy[h]
                 /\ h \in retired' <=> h \in retired
      <4>1. h \notin txn[c].locked /\ h \in Handoffs
        BY <1>1, <3>2 DEF Orderly, TypeOK
      <4> QED
        BY <2>2, <4>1 DEF Commit
    <3> QED
      BY <3>1, <3>2
  <2> QED
    BY <1>1, <2>1, <2>2 DEF Next, vars, Insert, UpdateRow, Supersede, Clear, Abort
<1>2. TypeOK /\ Orderly /\ [Next]_vars => [Step]_vars
  BY <1>1
<1> HIDE DEF Step
<1>3. Spec => [][Step]_vars
  BY <1>2, AlwaysOrderly, PTL DEF Spec
<1> QED
  BY <1>3 DEF ClosedOnce, Step

-----------------------------------------------------------------------------
(* What was there before is closed *)

\* What was committed before a transaction began is closed, or the transaction
\* has updated it, or it will come to it yet.
Covered(c) ==
  txn[c].phase = "updating" =>
    \A h \in txn[c].before : Closed(h) \/ h \in txn[c].todo \cup txn[c].locked

\* A closed row stays closed.
LEMMA ClosedStays ==
  ASSUME TypeOK, Orderly, [Next]_vars, NEW h \in stored, Closed(h)
  PROVE  Closed(h)'
<1>1. CASE UNCHANGED <<supersededBy, retired>>
  BY <1>1 DEF Closed
<1>2. ASSUME NEW c \in Callers, Commit(c)
      PROVE  Closed(h)'
  <2>1. h \notin txn[c].locked /\ h \in Handoffs
    BY DEF Orderly, TypeOK
  <2> QED
    BY <1>2, <2>1 DEF Commit, Closed
<1> QED
  BY <1>1, <1>2 DEF Next, vars, Insert, UpdateRow, Supersede, Clear, Abort

\* Every step keeps what was there before covered.
LEMMA NextCovered ==
  ASSUME TypeOK, Orderly, [Next]_vars, NEW c \in Callers, Covered(c)
  PROVE  Covered(c)'
<1> SUFFICES ASSUME txn'[c].phase = "updating", NEW h \in txn'[c].before
             PROVE  Closed(h)' \/ h \in txn'[c].todo \cup txn'[c].locked
  BY DEF Covered
<1>1. CASE txn'[c] = txn[c]
  <2>1. h \in stored
    BY <1>1 DEF Orderly
  <2> QED
    BY <1>1, <2>1, ClosedStays DEF Covered
<1>2. CASE Supersede(c)
  <2>1. h \in stored /\ txn'[c].todo = Targets(c)
    BY <1>2 DEF Supersede, TypeOK, Orderly
  <2>2. h \in Targets(c) <=> ~Closed(h)
    BY <2>1, Parts, TargetsOpen
  <2> QED
    BY <2>1, <2>2, ClosedStays
<1>3. CASE Clear(c)
  <2>1. h \in stored /\ txn'[c].todo = Targets(c)
    BY <1>3 DEF Clear, TypeOK
  <2>2. h \in Targets(c) <=> ~Closed(h)
    BY <2>1, Parts, TargetsOpen
  <2> QED
    BY <2>1, <2>2, ClosedStays
<1>4. ASSUME NEW g \in Handoffs, UpdateRow(c, g)
      PROVE  Closed(h)' \/ h \in txn'[c].todo \cup txn'[c].locked
  <2>1. /\ txn'[c].todo = txn[c].todo \ {g}
        /\ txn'[c].locked = txn[c].locked \cup ({g} \cap Targets(c))
        /\ txn'[c].before = txn[c].before
    BY <1>4 DEF UpdateRow, TypeOK
  <2>2. txn[c].phase = "updating"
    <3>1. txn[c].todo # {}
      BY <1>4 DEF UpdateRow
    <3> QED
      BY <3>1, Parts DEF Orderly, NoTransaction
  <2>3. h \in stored /\ (Closed(h) \/ h \in txn[c].todo \cup txn[c].locked)
    BY <2>1, <2>2 DEF Covered, Orderly
  <2>4. h \in Targets(c) <=> ~Closed(h)
    BY <2>3, Parts, TargetsOpen
  <2> QED
    BY <2>1, <2>3, <2>4, ClosedStays
<1>5. txn'[c] = txn[c] \/ Supersede(c) \/ Clear(c) \/ \E g \in Handoffs : UpdateRow(c, g)
  <2>1. ASSUME NEW d \in Callers,
               (\E g \in Handoffs : Insert(d, g)) \/ Commit(d) \/ Abort(d)
        PROVE  txn'[c] = txn[c]
    BY <2>1 DEF Insert, Commit, Abort, NoTransaction, TypeOK
  <2>2. ASSUME NEW d \in Callers, d # c,
               (\E g \in Handoffs : UpdateRow(d, g)) \/ Supersede(d) \/ Clear(d)
        PROVE  txn'[c] = txn[c]
    BY <2>2 DEF UpdateRow, Supersede, Clear, TypeOK
  <2> QED
    BY <2>1, <2>2 DEF Next, vars
<1> QED
  BY <1>1, <1>2, <1>3, <1>4, <1>5

\* What was there before stays covered in every transaction.
LEMMA AlwaysCovered == Spec => [](\A c \in Callers : Covered(c))
<1>1. Init => \A c \in Callers : Covered(c)
  BY DEF Init, Covered, NoTransaction
<1>2. ASSUME TypeOK, Orderly, [Next]_vars, \A c \in Callers : Covered(c)
      PROVE  (\A c \in Callers : Covered(c))'
  BY <1>2, NextCovered
<1> QED
  BY <1>1, <1>2, AlwaysOrderly, PTL DEF Spec

\* A handoff that was committed before a set or a clear began is closed when
\* that has committed, in either backend: the caller that set the newest
\* handoff can rely on all it could have read being superseded.
THEOREM WhatWasBeforeIsClosed == Spec => BeforeIsClosed
<1> DEFINE Step == \A c \in Callers : Commit(c) => \A h \in txn[c].before : Closed(h)'
<1>1. ASSUME TypeOK, Orderly, [Next]_vars, \A c \in Callers : Covered(c)
      PROVE  Step
  <2> SUFFICES ASSUME NEW c \in Callers, Commit(c), NEW h \in txn[c].before
               PROVE  Closed(h)'
    OBVIOUS
  <2>1. h \in stored /\ h \in Handoffs
    BY <1>1 DEF Orderly, TypeOK
  <2>2. Closed(h) \/ h \in txn[c].locked
    BY <1>1 DEF Commit, Covered
  <2>3. ASSUME h \in txn[c].locked
        PROVE  Closed(h)'
    BY <2>1, <2>3 DEF Commit, Closed
  <2> QED
    BY <1>1, <2>1, <2>2, <2>3, ClosedStays
<1>2. TypeOK /\ Orderly /\ [Next]_vars /\ (\A c \in Callers : Covered(c)) => [Step]_vars
  BY <1>1
<1> HIDE DEF Step
<1>3. Spec => [][Step]_vars
  BY <1>2, AlwaysOrderly, AlwaysCovered, PTL DEF Spec
<1> QED
  BY <1>3 DEF BeforeIsClosed, Step

-----------------------------------------------------------------------------
(* One at a time in the embedded backend *)

\* There is one writer, and all that is stored was stored when it began.
SingleWriter ==
  backend = "embedded" =>
    \A c \in Callers : txn[c].phase # "idle" =>
      /\ txn[c].before = stored
      /\ \A d \in Callers : txn[d].phase # "idle" => c = d

\* Every step keeps to a single writer.
LEMMA NextSingleWriter == TypeOK /\ Orderly /\ SingleWriter /\ [Next]_vars => SingleWriter'
<1> SUFFICES ASSUME TypeOK, Orderly, SingleWriter, [Next]_vars, backend' = "embedded",
                    NEW c \in Callers, txn'[c].phase # "idle"
             PROVE  /\ txn'[c].before = stored'
                    /\ \A d \in Callers : txn'[d].phase # "idle" => c = d
  BY DEF SingleWriter
<1>0. backend = "embedded"
  BY DEF Next, vars, Insert, UpdateRow, Supersede, Clear, Commit, Abort
<1> USE <1>0 DEF SingleWriter, TypeOK
<1>1. ASSUME NEW d \in Callers, (\E h \in Handoffs : Insert(d, h)) \/ Clear(d)
      PROVE  /\ txn'[c].before = stored'
             /\ \A e \in Callers : txn'[e].phase # "idle" => c = e
  BY <1>1 DEF Insert, Clear, CanBegin
<1>2. ASSUME NEW d \in Callers, (\E h \in Handoffs : UpdateRow(d, h)) \/ Supersede(d)
      PROVE  /\ txn'[c].before = stored'
             /\ \A e \in Callers : txn'[e].phase # "idle" => c = e
  <2>1. txn[d].phase # "idle"
    BY <1>2 DEF UpdateRow, Supersede, Orderly, NoTransaction
  <2>2. c = d
    BY <1>2, <2>1 DEF UpdateRow, Supersede
  <2> QED
    BY <1>2, <2>1, <2>2 DEF UpdateRow, Supersede
<1>3. ASSUME NEW d \in Callers, Commit(d) \/ Abort(d)
      PROVE  /\ txn'[c].before = stored'
             /\ \A e \in Callers : txn'[e].phase # "idle" => c = e
  BY <1>3 DEF Commit, Abort, NoTransaction
<1>4. ASSUME UNCHANGED vars
      PROVE  /\ txn'[c].before = stored'
             /\ \A e \in Callers : txn'[e].phase # "idle" => c = e
  BY <1>4 DEF vars
<1> QED
  BY <1>1, <1>2, <1>3, <1>4 DEF Next

\* There is a single writer throughout.
LEMMA AlwaysSingle == Spec => []SingleWriter
<1>1. Init => SingleWriter
  BY DEF Init, SingleWriter, NoTransaction
<1> QED
  BY <1>1, AlwaysOrderly, NextSingleWriter, PTL DEF Spec

\* "Concurrent writers serialize" (memory-facts.service.ts), where they do: in
\* the embedded backend there is at most one handoff to continue from.
THEOREM AtMostOneActive == Spec => []OneActive
<1>1. Init => OneActive
  BY DEF Init, OneActive, Active
<1>2. ASSUME TypeOK, Orderly, SingleWriter, OneActive, \A c \in Callers : Covered(c), [Next]_vars
      PROVE  OneActive'
  <2> SUFFICES ASSUME backend' = "embedded", NEW g \in Active', NEW h \in Active' PROVE g = h
    BY DEF OneActive
  <2>0. backend = "embedded"
    BY <1>2 DEF Next, vars, Insert, UpdateRow, Supersede, Clear, Commit, Abort
  <2>1. CASE UNCHANGED <<stored, supersededBy, retired>>
    <3>1. Active' = Active
      BY <2>1 DEF Active, Closed
    <3> QED
      BY <1>2, <2>0, <3>1 DEF OneActive
  <2>2. ASSUME NEW c \in Callers, Commit(c)
        PROVE  g = h
    <3>1. txn[c].before = stored /\ txn[c].phase = "updating" /\ txn[c].todo = {}
      BY <1>2, <2>0, <2>2 DEF Commit, SingleWriter
    <3>2. \A k \in stored : Closed(k) \/ k \in txn[c].locked
      BY <1>2, <3>1 DEF Covered
    <3>3. \A k \in stored : Closed(k)'
      <4> SUFFICES ASSUME NEW k \in stored PROVE Closed(k)'
        OBVIOUS
      <4>1. CASE Closed(k)
        BY <1>2, <4>1, ClosedStays
      <4>2. CASE k \in txn[c].locked
        BY <1>2, <2>2, <4>2 DEF Commit, Closed, TypeOK
      <4> QED
        BY <3>2, <4>1, <4>2
    <3>4. stored' \subseteq stored \cup {txn[c].own}
      BY <2>2 DEF Commit
    <3> QED
      BY <3>3, <3>4 DEF Active
  <2> QED
    BY <1>2, <2>1, <2>2 DEF Next, vars, Insert, UpdateRow, Supersede, Clear, Abort
<1> QED
  BY <1>1, <1>2, AlwaysSingle, AlwaysOrderly, AlwaysCovered, PTL DEF Spec

-----------------------------------------------------------------------------
(* Walks end up where their steps lead *)

\* Where steps lead from a walk: what is in every set that has it and is closed
\* under the steps.
Walked(step, w) ==
  {v \in Walks : \A C \in SUBSET Walks : (w \in C /\ \A u \in C : step[u] \in C) => v \in C}

\* It is the walk itself and where its next step leads.
LEMMA WalkedOn ==
  ASSUME NEW step \in [Walks -> Walks], NEW w \in Walks
  PROVE  Walked(step, w) = {w} \cup Walked(step, step[w])
<1> DEFINE C == {w} \cup Walked(step, step[w])
<1>1. step[w] \in Walked(step, step[w])
  BY DEF Walked
<1>2. ASSUME NEW u \in Walked(step, step[w]) PROVE step[u] \in Walked(step, step[w])
  BY DEF Walked
<1>3. C \in SUBSET Walks /\ w \in C
  BY DEF Walked
<1>4. \A u \in C : step[u] \in C
  BY <1>1, <1>2
<1>5. Walked(step, w) \subseteq C
  <2> HIDE DEF C
  <2> QED
    BY <1>3, <1>4 DEF Walked
<1>6. w \in Walked(step, w)
  BY DEF Walked
<1>7. Walked(step, step[w]) \subseteq Walked(step, w)
  BY DEF Walked
<1> QED
  BY <1>5, <1>6, <1>7

\* A walk that stays has got nowhere else.
LEMMA WalkedNowhere ==
  ASSUME NEW step, NEW w \in Walks, step[w] = w
  PROVE  Walked(step, w) = {w}
<1>1. w \in Walked(step, w)
  BY DEF Walked
<1>2. {w} \in SUBSET Walks /\ w \in {w} /\ \A u \in {w} : step[u] \in {w}
  OBVIOUS
<1>3. Walked(step, w) \subseteq {w}
  BY <1>2 DEF Walked
<1> QED
  BY <1>1, <1>3

\* The rows before and after a row are stored, if there are any.
LEMMA Neighbours ==
  ASSUME TypeOK, NEW h \in Handoffs
  PROVE  /\ Predecessor(h) # NoHandoff => Predecessor(h) \in stored /\ supersededBy[Predecessor(h)] = h
         /\ Predecessor(h) = NoHandoff => \A g \in stored : supersededBy[g] # h
<1>1. CASE \E g \in stored : supersededBy[g] = h
  <2>1. Predecessor(h) \in stored /\ supersededBy[Predecessor(h)] = h
    BY <1>1 DEF Predecessor
  <2> QED
    BY <2>1, HandoffAssumption DEF TypeOK
<1>2. CASE ~\E g \in stored : supersededBy[g] = h
  BY <1>2 DEF Predecessor
<1> QED
  BY <1>1, <1>2

\* A walk back stops at a row without predecessor, or with one it has seen.
BackEnds(w) == Predecessor(w[1]) = NoHandoff \/ Predecessor(w[1]) \in w[2]

BackStep ==
  [w \in Walks |-> IF BackEnds(w) THEN w ELSE <<Predecessor(w[1]), w[2] \cup {Predecessor(w[1])}>>]

\* Root is what its definition says: the row at the end of the walk back is one.
LEMMA RootUnfolds ==
  ASSUME TypeOK, NEW w \in Walks
  PROVE  Root[w] = IF BackEnds(w) THEN w[1] ELSE Root[BackStep[w]]
<1> DEFINE Ends(u) == {v \in Walked(BackStep, u) : BackEnds(v)}
           End(S) == CHOOSE v \in Walks : v \in S
           R(f) == [u \in Walks |-> IF BackEnds(u) THEN u[1] ELSE f[BackStep[u]]]
           F == [u \in Walks |-> End(Ends(u))[1]]
<1>1. BackStep \in [Walks -> Walks]
  <2> SUFFICES ASSUME NEW u \in Walks, ~BackEnds(u)
               PROVE  <<Predecessor(u[1]), u[2] \cup {Predecessor(u[1])}>> \in Walks
    BY DEF BackStep
  <2>1. u[1] \in Handoffs /\ u[2] \in SUBSET Handoffs
    BY DEF Walks
  <2>2. Predecessor(u[1]) \in Handoffs
    BY <2>1, Neighbours DEF BackEnds, TypeOK
  <2> QED
    BY <2>1, <2>2 DEF Walks
<1>2. ASSUME NEW u \in Walks, BackEnds(u)
      PROVE  Ends(u) = {u}
  <2>1. BackStep[u] = u
    BY <1>2 DEF BackStep
  <2>2. Walked(BackStep, u) = {u}
    BY <2>1, WalkedNowhere
  <2> QED
    BY <1>2, <2>2
<1>3. ASSUME NEW u \in Walks, ~BackEnds(u)
      PROVE  Ends(u) = Ends(BackStep[u])
  BY <1>1, <1>3, WalkedOn
<1>4. \A u \in Walks : End({u}) = u
  OBVIOUS
<1> HIDE DEF Ends, End
<1>5. F = R(F)
  <2> SUFFICES ASSUME NEW u \in Walks PROVE F[u] = R(F)[u]
    OBVIOUS
  <2>1. CASE BackEnds(u)
    BY <1>2, <1>4, <2>1
  <2>2. CASE ~BackEnds(u)
    BY <1>1, <1>3, <2>2
  <2> QED
    BY <2>1, <2>2
<1>6. Root = CHOOSE f : f = R(f)
  BY DEF Root, BackStep, BackEnds
<1> HIDE DEF F, R
<1>7. Root = R(Root)
  BY <1>5, <1>6
<1> QED
  BY <1>7 DEF R

\* A walk forward stops where what follows is not stored, or has been seen.
FrontEnds(w) == supersededBy[w[1]] \notin stored \ (w[2] \cup {w[1]})

FrontStep ==
  [w \in Walks |-> IF FrontEnds(w) THEN w ELSE <<supersededBy[w[1]], w[2] \cup {w[1]}>>]

\* Forward is what its definition says: the rows a walk forward is at are.
LEMMA ForwardUnfolds ==
  ASSUME TypeOK, NEW w \in Walks
  PROVE  Forward[w] = IF FrontEnds(w) THEN {w[1]} ELSE {w[1]} \cup Forward[FrontStep[w]]
<1> DEFINE Rows(u) == {v[1] : v \in Walked(FrontStep, u)}
           R(f) == [u \in Walks |-> IF FrontEnds(u) THEN {u[1]} ELSE {u[1]} \cup f[FrontStep[u]]]
           F == [u \in Walks |-> Rows(u)]
<1>1. FrontStep \in [Walks -> Walks]
  BY DEF FrontStep, FrontEnds, Walks, TypeOK
<1>2. ASSUME NEW u \in Walks, FrontEnds(u)
      PROVE  Rows(u) = {u[1]}
  <2>1. FrontStep[u] = u
    BY <1>2 DEF FrontStep
  <2>2. Walked(FrontStep, u) = {u}
    BY <2>1, WalkedNowhere
  <2> QED
    BY <2>2
<1>3. ASSUME NEW u \in Walks
      PROVE  Rows(u) = {u[1]} \cup Rows(FrontStep[u])
  <2>1. Walked(FrontStep, u) = {u} \cup Walked(FrontStep, FrontStep[u])
    BY <1>1, WalkedOn
  <2> QED
    BY <2>1
<1> HIDE DEF Rows
<1>4. F = R(F)
  <2> SUFFICES ASSUME NEW u \in Walks PROVE F[u] = R(F)[u]
    OBVIOUS
  <2>1. CASE FrontEnds(u)
    BY <1>2, <2>1
  <2>2. CASE ~FrontEnds(u)
    BY <1>1, <1>3, <2>2
  <2> QED
    BY <2>1, <2>2
<1>5. Forward = CHOOSE f : f = R(f)
  BY DEF Forward, FrontStep, FrontEnds
<1> HIDE DEF F, R
<1>6. Forward = R(Forward)
  BY <1>4, <1>5
<1> QED
  BY <1>6 DEF R

-----------------------------------------------------------------------------
(* "Why" walks all *)

\* Supersession begins: going back, too, there is no circle and no end of rows.
ChainsBegin ==
  \A S \in SUBSET Handoffs : (S # {} /\ S \subseteq stored) =>
    \E h \in S : \A g \in S : supersededBy[g] # h

\* While nothing is cleared the embedded backend's rows begin with one.
OneFirst ==
  (backend = "embedded" /\ retired = {}) =>
    \A g, h \in stored : (Predecessor(g) = NoHandoff /\ Predecessor(h) = NoHandoff) => g = h

\* A commit adds a row that supersedes, and is superseded by none.
LEMMA CommitBeginsChains ==
  ASSUME TypeOK, Orderly, ChainsBegin, NEW c \in Callers, Commit(c)
  PROVE  ChainsBegin'
<1> SUFFICES ASSUME NEW S \in SUBSET Handoffs, S # {}, S \subseteq stored'
             PROVE  \E h \in S : \A g \in S : supersededBy'[g] # h
  BY DEF ChainsBegin
<1> DEFINE own == txn[c].own
<1>1. CASE own = NoHandoff
  <2>1. stored' = stored /\ supersededBy' = supersededBy
    BY <1>1 DEF Commit
  <2> QED
    BY <2>1 DEF ChainsBegin
<1>2. CASE own # NoHandoff
  <2>1. /\ stored' = stored \cup {own}
        /\ \A g \in Handoffs : supersededBy'[g] \in {supersededBy[g], own}
    BY <1>2 DEF Commit
  <2>2. own \in Handoffs /\ own \notin stored /\ own \notin txn[c].locked
    BY <1>2, Parts DEF Orderly
  <2>3. supersededBy'[own] = NoHandoff
    BY <1>2, <2>2 DEF Commit, Orderly
  <2>4. CASE S = {own}
    BY <2>3, <2>4, HandoffAssumption
  <2>5. CASE S # {own}
    <3>1. S \ {own} # {} /\ S \ {own} \subseteq stored
      BY <2>1, <2>5
    <3>2. PICK h \in S \ {own} : \A g \in S \ {own} : supersededBy[g] # h
      BY <3>1 DEF ChainsBegin
    <3>3. \A g \in S \ {own} : supersededBy'[g] # h
      BY <2>1, <3>2
    <3>4. supersededBy'[own] # h
      BY <2>3, <3>2, HandoffAssumption
    <3> QED
      BY <3>2, <3>3, <3>4
  <2> QED
    BY <2>4, <2>5
<1> QED
  BY <1>1, <1>2

\* In the embedded backend a set's commit closes all the open rows, so that all
\* but the first have a predecessor.
LEMMA CommitKeepsFirst ==
  ASSUME TypeOK, Orderly, SingleWriter, ChainsEnd, OneFirst,
         \A d \in Callers : Covered(d), NEW c \in Callers, Commit(c)
  PROVE  OneFirst'
<1> PICK own : own = txn[c].own
  OBVIOUS
<1> SUFFICES ASSUME backend' = "embedded", retired' = {}, NEW g \in stored', NEW h \in stored',
                    Predecessor(g)' = NoHandoff, Predecessor(h)' = NoHandoff
             PROVE  g = h
  BY DEF OneFirst
<1>0. backend = "embedded" /\ retired = {}
  BY DEF Commit
<1>1. CASE own = NoHandoff
  <2>1. stored' = stored /\ supersededBy' = supersededBy
    BY <1>1 DEF Commit
  <2> QED
    BY <1>0, <2>1 DEF OneFirst, Predecessor
<1>2. CASE own # NoHandoff
  <2>1. /\ stored' = stored \cup {own} /\ own \in Handoffs /\ own \notin stored
        /\ txn[c].locked \subseteq stored
        /\ \A k \in txn[c].locked : supersededBy'[k] = own /\ supersededBy[k] = NoHandoff
        /\ \A k \in Handoffs \ txn[c].locked : supersededBy'[k] = supersededBy[k]
    BY <1>2, Parts DEF Commit, Orderly, Closed
  <2>2. ASSUME NEW x \in stored', Predecessor(x)' = NoHandoff
        PROVE  \A k \in stored : supersededBy'[k] # x
    <3>1. NoHandoff \notin stored'
      BY <2>1, HandoffAssumption DEF TypeOK
    <3>2. ~\E k \in stored' : supersededBy'[k] = x
      BY <2>2, <3>1 DEF Predecessor
    <3> QED
      BY <2>1, <3>2
  <2>3. ASSUME NEW x \in stored, Predecessor(x)' = NoHandoff
        PROVE  Predecessor(x) = NoHandoff
    <3>1. \A k \in stored : supersededBy'[k] # x
      BY <2>1, <2>2, <2>3
    <3>2. \A k \in stored : supersededBy[k] # x
      BY <2>1, <3>1, HandoffAssumption DEF TypeOK
    <3> QED
      BY <3>2 DEF Predecessor
  <2>4. ASSUME Predecessor(own)' = NoHandoff
        PROVE  stored = {}
    <3>1. txn[c].locked = {}
      BY <2>1, <2>2, <2>4
    <3>2. txn[c].before = stored /\ txn[c].phase = "updating" /\ txn[c].todo = {}
      BY <1>0 DEF Commit, SingleWriter
    <3>3. \A k \in stored : supersededBy[k] \in stored
      BY <1>0, <3>1, <3>2 DEF Covered, Closed, LinksResolve, Orderly, TypeOK
    <3> QED
      BY <3>3 DEF ChainsEnd, TypeOK
  <2> QED
    BY <1>0, <2>1, <2>3, <2>4 DEF OneFirst
<1> QED
  BY <1>1, <1>2

\* Chains begin, and with one row, throughout.
LEMMA AlwaysBegin == Spec => [](ChainsBegin /\ OneFirst)
<1>1. Init => ChainsBegin /\ OneFirst
  BY DEF Init, ChainsBegin, OneFirst
<1>2. ASSUME TypeOK, Orderly, SingleWriter, ChainsEnd, ChainsBegin, OneFirst,
             \A c \in Callers : Covered(c), [Next]_vars
      PROVE  ChainsBegin' /\ OneFirst'
  <2>1. CASE UNCHANGED <<backend, stored, supersededBy, retired>>
    BY <1>2, <2>1 DEF ChainsBegin, OneFirst, Predecessor
  <2>2. CASE \E c \in Callers : Commit(c)
    BY <1>2, <2>2, CommitBeginsChains, CommitKeepsFirst
  <2> QED
    BY <1>2, <2>1, <2>2 DEF Next, vars, Insert, UpdateRow, Supersede, Clear, Abort
<1> QED
  BY <1>1, <1>2, AlwaysOrderly, AlwaysSingle, ChainsAlwaysEnd, AlwaysCovered, PTL DEF Spec

\* The walk back from a row ends at one without predecessor: if it turned back
\* on itself, or went on for ever, supersession would not begin.
LEMMA RootIsFirst ==
  ASSUME TypeOK, ChainsBegin, NEW h \in stored
  PROVE  /\ Root[<<h, {h}>>] \in stored
         /\ Predecessor(Root[<<h, {h}>>]) = NoHandoff
<1> DEFINE First(x) == x \in stored /\ Predecessor(x) = NoHandoff
           \* What holds of a walk back: it knows what comes before all it has left.
           Back(g, seen) == /\ seen \subseteq stored
                            /\ g \in seen
                            /\ \A x \in seen \ {g} : Predecessor(x) \in seen
           Lost == {g \in stored : \E seen \in SUBSET Handoffs : Back(g, seen) /\ ~First(Root[<<g, seen>>])}
<1>1. ASSUME NEW g \in Lost
      PROVE  \E p \in Lost : supersededBy[p] = g
  <2>1. PICK seen \in SUBSET Handoffs : Back(g, seen) /\ ~First(Root[<<g, seen>>])
    OBVIOUS
  <2> DEFINE w == <<g, seen>>
             p == Predecessor(g)
  <2>2. w \in Walks /\ w[1] = g /\ w[2] = seen /\ g \in stored /\ g \in Handoffs
    BY DEF Walks, TypeOK
  <2>3. p # NoHandoff
    <3> SUFFICES ASSUME p = NoHandoff PROVE FALSE
      OBVIOUS
    <3>1. Root[w] = g
      BY <2>2, RootUnfolds DEF BackEnds
    <3> QED
      BY <2>1, <2>2, <3>1
  <2>4. p \in stored /\ supersededBy[p] = g
    BY <2>2, <2>3, Neighbours
  <2>5. p \notin seen
    <3> SUFFICES ASSUME p \in seen PROVE FALSE
      OBVIOUS
    <3>1. \A x \in seen : Predecessor(x) \in seen /\ Predecessor(x) # NoHandoff
      BY <2>1, HandoffAssumption
    <3>2. \A x \in seen : supersededBy[Predecessor(x)] = x
      BY <2>1, <3>1, Neighbours
    <3> QED
      BY <2>1, <3>1, <3>2 DEF ChainsBegin
  <2>6. Root[w] = Root[<<p, seen \cup {p}>>]
    <3>1. ~BackEnds(w)
      BY <2>2, <2>3, <2>5 DEF BackEnds
    <3>2. BackStep[w] = <<p, seen \cup {p}>>
      BY <2>2, <3>1 DEF BackStep
    <3> QED
      BY <2>2, <3>1, <3>2, RootUnfolds
  <2>7. Back(p, seen \cup {p})
    BY <2>1, <2>4
  <2>8. seen \cup {p} \in SUBSET Handoffs
    BY <2>4 DEF TypeOK
  <2> HIDE DEF First, Back
  <2>9. p \in Lost
    BY <2>1, <2>4, <2>6, <2>7, <2>8
  <2> QED
    BY <2>4, <2>9
<1>2. Lost = {}
  <2>1. Lost \subseteq stored /\ Lost \in SUBSET Handoffs
    BY DEF TypeOK
  <2> HIDE DEF Lost
  <2> QED
    BY <1>1, <2>1 DEF ChainsBegin
<1>3. Back(h, {h}) /\ {h} \in SUBSET Handoffs
  BY DEF TypeOK
<1> QED
  BY <1>2, <1>3

\* The walk forward from a row that alone has no predecessor comes to all rows.
LEMMA ForwardIsAll ==
  ASSUME TypeOK, Orderly, ChainsBegin, ChainsEnd, NEW r \in stored,
         \A h \in stored \ {r} : Predecessor(h) # NoHandoff
  PROVE  Forward[<<r, {}>>] = stored
<1> DEFINE \* What holds of a walk forward: it has left what comes after what it has seen.
           Front(g, seen) == /\ seen \subseteq stored
                             /\ g \in stored \ seen
                             /\ \A x \in stored \ (seen \cup {g}) : \E p \in stored \ seen : supersededBy[p] = x
           Short == {g \in stored : \E seen \in SUBSET Handoffs :
                       Front(g, seen) /\ Forward[<<g, seen>>] # stored \ seen}
<1>1. ASSUME NEW g \in Short
      PROVE  supersededBy[g] \in Short
  <2>1. PICK seen \in SUBSET Handoffs : Front(g, seen) /\ Forward[<<g, seen>>] # stored \ seen
    OBVIOUS
  <2> DEFINE w == <<g, seen>>
             n == supersededBy[g]
             rest == stored \ (seen \cup {g})
  <2>2. w \in Walks /\ w[1] = g /\ w[2] = seen /\ g \in stored /\ g \in Handoffs
    BY DEF Walks, TypeOK
  <2>3. n \in rest
    <3> SUFFICES ASSUME n \notin rest PROVE FALSE
      OBVIOUS
    <3>1. Forward[w] = {g}
      BY <2>2, ForwardUnfolds DEF FrontEnds
    <3>2. \A x \in rest : \E p \in rest : supersededBy[p] = x
      BY <2>1
    <3>3. rest \subseteq stored /\ rest \in SUBSET Handoffs
      BY DEF TypeOK
    <3>4. rest = {}
      <4> HIDE DEF rest
      <4> QED
        BY <3>2, <3>3 DEF ChainsBegin
    <3> QED
      BY <2>1, <3>1, <3>4
  <2>4. Forward[w] = {g} \cup Forward[<<n, seen \cup {g}>>]
    <3>1. ~FrontEnds(w)
      BY <2>2, <2>3 DEF FrontEnds
    <3>2. FrontStep[w] = <<n, seen \cup {g}>>
      BY <2>2, <3>1 DEF FrontStep
    <3> QED
      BY <2>2, <3>1, <3>2, ForwardUnfolds
  <2>5. Front(n, seen \cup {g})
    BY <2>1, <2>3
  <2>6. seen \cup {g} \in SUBSET Handoffs /\ n \in stored
    BY <2>2, <2>3
  <2>7. Forward[<<n, seen \cup {g}>>] # stored \ (seen \cup {g})
    <3> SUFFICES ASSUME Forward[<<n, seen \cup {g}>>] = stored \ (seen \cup {g}) PROVE FALSE
      OBVIOUS
    <3>1. Forward[w] = stored \ seen
      BY <2>1, <2>4
    <3> QED
      BY <2>1, <3>1
  <2> HIDE DEF Front
  <2> QED
    BY <2>5, <2>6, <2>7
<1>2. Short = {}
  <2>1. Short \subseteq stored /\ Short \in SUBSET Handoffs
    BY DEF TypeOK
  <2> HIDE DEF Short
  <2> QED
    BY <1>1, <2>1 DEF ChainsEnd
<1>3. Front(r, {})
  BY Neighbours DEF TypeOK
<1> QED
  BY <1>2, <1>3

\* "why walks every stop-point this project has ever recorded": whichever
\* handoff it is asked about, in the embedded backend, as long as none was
\* cleared, and whatever transactions were aborted.
THEOREM WhyAlwaysWalksAll == Spec => []WhyWalksAll
<1>1. ASSUME TypeOK, Orderly, ChainsBegin, ChainsEnd, OneFirst
      PROVE  WhyWalksAll
  <2> SUFFICES ASSUME backend = "embedded", retired = {}, NEW h \in stored
               PROVE  Chain(h) = stored
    BY DEF WhyWalksAll
  <2> DEFINE r == Root[<<h, {h}>>]
  <2>1. r \in stored /\ Predecessor(r) = NoHandoff
    BY <1>1, RootIsFirst
  <2> HIDE DEF r
  <2>2. \A g \in stored \ {r} : Predecessor(g) # NoHandoff
    BY <1>1, <2>1 DEF OneFirst
  <2>3. Forward[<<r, {}>>] = stored
    BY <1>1, <2>1, <2>2, ForwardIsAll
  <2> QED
    BY <2>3 DEF Chain, r
<1> QED
  BY <1>1, AlwaysOrderly, AlwaysBegin, ChainsAlwaysEnd, PTL
=============================================================================
