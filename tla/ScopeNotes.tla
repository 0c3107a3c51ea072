------------------------------- MODULE ScopeNotes -------------------------------
(***************************************************************************)
(* The notes of one scope, written by two kinds of actors that race by     *)
(* design: callers (remember / forget, short transactions under the        *)
(* scope's advisory lock) and digest runs, which load the latest state     *)
(* snapshot, work on a private copy for seconds to minutes, and then make  *)
(* that copy the latest one.  carryOverConcurrentNotes reconciles the copy *)
(* with whatever callers wrote in the meantime.                            *)
(*                                                                         *)
(* A snapshot is cut down to the notes facet: the entries of factRegistry  *)
(* with facet "notes" and the strings of profile.notes, each an array in   *)
(* the code's order.                                                       *)
(***************************************************************************)
EXTENDS JsArrays

CONSTANTS
  Ids,            \* registry ids (randomUUID); their number bounds the writes
  NoId,           \* "no superseding entry"
  Texts,          \* normalized note texts; a fact key identifies one text
  Revision,       \* pairs <<old, new>> for which isNoteRevision holds
  Similar,        \* pairs of distinct texts for which sameFactCjkAware holds
  Workers,        \* digest runs that may overlap (the run lock can expire)
  Cap,            \* the notes facet's cap (30 in the default pack)
  ConsolidateMin, \* fewest notes consolidation looks at (4)
  HistoryLimit,   \* inactive entries a loaded registry keeps (500)
  MaxEdits,       \* bound: changes one pipeline makes to the notes
  Forgettable,    \* bound: the texts callers forget
  BlindForget     \* may a client forget a key before any snapshot exists?

ASSUME ConstantsAssumption ==
  /\ NoId \notin Ids
  /\ Revision \subseteq Texts \X Texts
  /\ Similar \subseteq Texts \X Texts
  /\ Cap \in Nat \ {0}
  /\ ConsolidateMin \in Nat
  /\ HistoryLimit \in Nat
  /\ MaxEdits \in Nat
  /\ Forgettable \subseteq Texts
  /\ BlindForget \in BOOLEAN

VARIABLES
  exists,       \* has the scope a DigestStateSnapshot row?
  latest,       \* the newest snapshot
  forgotten,    \* texts whose keys have a ForgottenFact row
  issued,       \* ids handed out so far
  run           \* the digest runs, each with its private copy

vars == <<exists, latest, forgotten, issued, run>>

-----------------------------------------------------------------------------
(* The registry and the strings *)

Origins == {"note", "digest"}
Reasons == {"cap_evicted", "forgotten", "consolidation_dropped"}

Entry == [id : Ids, text : Texts, origin : Origins,
          supersededBy : Ids \cup {NoId}, retired : Reasons \cup {"no"}]

NoNotes == [reg |-> << >>, notes |-> << >>]

NewEntry(id, t, o) ==
  [id |-> id, text |-> t, origin |-> o, supersededBy |-> NoId, retired |-> "no"]

IdsOf(reg) == {reg[i].id : i \in DOMAIN reg}

IsActive(e) == e.supersededBy = NoId /\ e.retired = "no"

\* Positions of active entries, and of those with a given text.
Active(reg) == {i \in DOMAIN reg : IsActive(reg[i])}
ActiveWith(reg, t) == {i \in Active(reg) : reg[i].text = t}

\* Active entries a caller wrote (remember, POST note).
CallerNotes(reg) == {i \in Active(reg) : reg[i].origin = "note"}

IsCallerNoteText(reg, t) == \E i \in CallerNotes(reg) : reg[i].text = t

SameFact(a, b) == a = b \/ <<a, b>> \in Similar

\* reg with the entries at I (none or one: a find's result) superseded by e,
\* and e at its end.
Register(reg, e, I) ==
  Push([i \in DOMAIN reg |-> IF i \in I THEN [reg[i] EXCEPT !.supersededBy = e.id] ELSE reg[i]], e)

Retire(reg, I, reason) ==
  [i \in DOMAIN reg |-> IF i \in I THEN [reg[i] EXCEPT !.retired = reason] ELSE reg[i]]

\* The strings leave profile.notes; the active entries are retired and stay.
RetireForgotten(s, keys) ==
  [reg   |-> Retire(s.reg, {i \in Active(s.reg) : s.reg[i].text \in keys}, "forgotten"),
   notes |-> Without(s.notes, {p \in DOMAIN s.notes : s.notes[p] \in keys})]

-----------------------------------------------------------------------------
(* Callers: one transaction each, under the scope's advisory lock *)

Healed == RetireForgotten(latest, forgotten)

\* Positions of the held notes that v revises.
RevisedBy(v) == {p \in DOMAIN Healed.notes : <<Healed.notes[p], v>> \in Revision}

Writable(v) == exists /\ v \notin forgotten \cup Values(Healed.notes)

\* The text is forgotten or already held: only the healing is saved.
KeepNote(v) ==
  /\ exists
  /\ v \in forgotten \cup Values(Healed.notes)
  /\ latest' = Healed
  /\ UNCHANGED <<exists, forgotten, issued, run>>

\* v revises a held note: it takes its place and supersedes its entry.
ReviseNote(v) ==
  /\ Writable(v)
  /\ \E p \in Find(RevisedBy(v)), id \in Ids \ issued :
       LET old == Find(ActiveWith(Healed.reg, Healed.notes[p]))
       IN  /\ latest' = [reg   |-> Register(Healed.reg, NewEntry(id, v, "note"), old),
                         notes |-> [Healed.notes EXCEPT ![p] = v]]
           /\ issued' = issued \cup {id}
  /\ UNCHANGED <<exists, forgotten, run>>

\* Mutant: no room is made at the cap.
WithRoomLate(s) == s

\* At the cap the oldest string goes and its entry is retired.
WithRoom(s) ==
  IF Size(s.notes) < Cap THEN s
  ELSE LET oldest == FirstOf(DOMAIN s.notes)
       IN  [reg   |-> Retire(s.reg, Find(ActiveWith(s.reg, s.notes[oldest])), "cap_evicted"),
            notes |-> Without(s.notes, {oldest})]

\* The newest entry retired as forgotten that v revises: the chain goes on.
ForgottenPrior(reg, v) ==
  FindLast({i \in DOMAIN reg : /\ reg[i].retired = "forgotten"
                               /\ reg[i].supersededBy = NoId
                               /\ <<reg[i].text, v>> \in Revision})

AppendNote(v) ==
  LET s     == WithRoom(Healed)
      prior == ForgottenPrior(Healed.reg, v)
      notes == Push(s.notes, v)
  IN  /\ Writable(v)
      /\ RevisedBy(v) = {}
      /\ \/ /\ prior = {} /\ ActiveWith(s.reg, v) # {}
            /\ latest' = [s EXCEPT !.notes = notes]
            /\ UNCHANGED issued
         \/ /\ prior # {} \/ ActiveWith(s.reg, v) = {}
            /\ \E id \in Ids \ issued :
                 /\ latest' = [reg   |-> Register(s.reg, NewEntry(id, v, "note"), prior),
                               notes |-> notes]
                 /\ issued' = issued \cup {id}
      /\ UNCHANGED <<exists, forgotten, run>>

\* The first note of a scope without a snapshot creates a placeholder digest;
\* this path hands addNoteFact no forgotten keys.
FirstNote(v) ==
  /\ ~exists
  /\ \E id \in Ids \ issued :
       /\ latest' = [reg |-> Push(<< >>, NewEntry(id, v, "note")), notes |-> Push(<< >>, v)]
       /\ issued' = issued \cup {id}
  /\ exists' = TRUE
  /\ UNCHANGED <<forgotten, run>>

\* A client forgets a fact it was shown, so a snapshot exists (BlindForget: or
\* sends a key it computed itself; the handler does not ask).
ForgetFact(v) ==
  /\ v \in Forgettable
  /\ exists \/ BlindForget
  /\ forgotten' = forgotten \cup {v}
  /\ latest' = IF exists THEN RetireForgotten(latest, {v}) ELSE latest
  /\ UNCHANGED <<exists, issued, run>>

-----------------------------------------------------------------------------
(* Digest runs: the pipeline on a private copy *)

Phases == {"idle", "loaded", "merged", "consolidated"}

IdleRun == [phase |-> "idle", rebuild |-> FALSE, keys |-> {}, edits |-> 0, pipe |-> NoNotes]

\* The run reads the latest snapshot.
StartDigest(w) ==
  /\ run[w].phase = "idle"
  /\ run' = [run EXCEPT ![w] = [IdleRun EXCEPT !.phase = "loaded", !.pipe = latest]]
  /\ UNCHANGED <<exists, latest, forgotten, issued>>

\* A rebuild starts from the latest snapshot (since_last_good) or from nothing
\* (full), and never reads the forgotten keys.
StartRebuild(w) ==
  /\ run[w].phase = "idle"
  /\ \E s \in {latest, NoNotes} :
       run' = [run EXCEPT ![w] = [IdleRun EXCEPT !.phase = "loaded", !.rebuild = TRUE, !.pipe = s]]
  /\ UNCHANGED <<exists, latest, forgotten, issued>>

\* normalizeFactRegistry: all active entries and the last of the history.
Trimmed(reg) ==
  LET history == DOMAIN reg \ Active(reg)
      excess  == Cardinality(history) - HistoryLimit
  IN  IF excess > 0 THEN Without(reg, Least(history, excess)) ELSE reg

\* The run reads the forgotten keys, after the snapshot, and prunes its copy.
StartPipeline(w) ==
  LET r    == run[w]
      keys == IF r.rebuild THEN {} ELSE forgotten
  IN  /\ r.phase = "loaded"
      /\ run' = [run EXCEPT ![w] =
                   [r EXCEPT !.phase = "merged", !.keys = keys,
                             !.pipe = RetireForgotten([r.pipe EXCEPT !.reg = Trimmed(r.pipe.reg)], keys)]]
      /\ UNCHANGED <<exists, latest, forgotten, issued>>

\* One change of the copy by the pipeline.
MayEdit(w) == run[w].phase = "merged" /\ run[w].edits < MaxEdits

Edit(w, s, phase) ==
  /\ run' = [run EXCEPT ![w] = [run[w] EXCEPT !.phase = phase, !.pipe = s, !.edits = run[w].edits + 1]]
  /\ UNCHANGED <<exists, latest, forgotten>>

\* The entry supersedeFact finds for h (a retired one is not passed over).
Supersedable(reg, h) ==
  Find({i \in DOMAIN reg : /\ reg[i].supersededBy = NoId
                           /\ reg[i].origin # "note"
                           /\ SameFact(reg[i].text, h)})

\* Active entries of the digest's own that say the same as h.
DigestActiveLike(reg, h) ==
  {i \in Active(reg) \ CallerNotes(reg) : SameFact(reg[i].text, h)}

\* Positions of the held notes that say the same as v.
HeldLike(s, v) == {p \in DOMAIN s.notes : SameFact(s.notes[p], v)}

\* The digest restates a held digest note as v, or a document confirms it
\* unchanged; a caller note is left alone.
RestateNote(w, v) ==
  LET s == run[w].pipe
  IN  /\ MayEdit(w)
      /\ \E p \in Find(HeldLike(s, v)) :
           LET h     == s.notes[p]
               old   == Supersedable(s.reg, h)
               notes == [s.notes EXCEPT ![p] = v]
           IN  /\ ~IsCallerNoteText(s.reg, h)
               /\ h # v \/ DigestActiveLike(s.reg, h) # {}
               /\ \/ /\ old = {}
                     /\ Edit(w, [s EXCEPT !.notes = notes], "merged")
                     /\ UNCHANGED issued
                  \/ /\ old # {}
                     /\ \E id \in Ids \ issued :
                          /\ Edit(w, [reg   |-> Register(s.reg, NewEntry(id, v, "digest"), old),
                                      notes |-> notes], "merged")
                          /\ issued' = issued \cup {id}

\* Mutant: any position will do.
EvictableAny(s) == DOMAIN s.notes

\* Positions a digest may evict from: none of a caller's notes.
Evictable(s) == {p \in DOMAIN s.notes : ~IsCallerNoteText(s.reg, s.notes[p])}

WithRoomForDigest(s) ==
  IF Size(s.notes) < Cap THEN s
  ELSE LET p == FirstOf(Evictable(s))
       IN  [reg   |-> Retire(s.reg, Find(DigestActiveLike(s.reg, s.notes[p])), "cap_evicted"),
            notes |-> Without(s.notes, {p})]

\* isInFactRegistry: an entry not superseded, retired or not, says the same.
InFactRegistry(reg, v) ==
  \E i \in DOMAIN reg : reg[i].supersededBy = NoId /\ SameFact(reg[i].text, v)

\* The digest adds a note; at the cap a digest note makes room, if there is one.
ExtractNote(w, v) ==
  LET s0 == run[w].pipe
      s  == WithRoomForDigest(s0)
  IN  /\ MayEdit(w)
      /\ HeldLike(s0, v) = {}
      /\ Size(s0.notes) < Cap \/ Evictable(s0) # {}
      /\ \/ /\ InFactRegistry(s.reg, v)
            /\ Edit(w, [s EXCEPT !.notes = Push(@, v)], "merged")
            /\ UNCHANGED issued
         \/ /\ ~InFactRegistry(s.reg, v)
            /\ \E id \in Ids \ issued :
                 /\ Edit(w, [reg   |-> Register(s.reg, NewEntry(id, v, "digest"), {}),
                             notes |-> Push(s.notes, v)], "merged")
                 /\ issued' = issued \cup {id}

\* At the end of a pipeline, after a prune, consolidation merges the digest
\* notes at some positions into one text and drops the other digest notes;
\* caller notes keep their places.
ConsolidateNotes(w, v) ==
  LET s     == RetireForgotten(run[w].pipe, run[w].keys)
      items == Evictable(s)
      mine  == Active(s.reg) \ CallerNotes(s.reg)
      sourceOf(p) == Supersedable(s.reg, s.notes[p])
  IN  /\ MayEdit(w)
      /\ Size(s.notes) >= ConsolidateMin
      /\ items # {}
      /\ CallerNotes(s.reg) # {} => Cardinality(items) >= 2
      /\ \E merged \in SUBSET items \ {{}}, id \in Ids \ issued :
           LET claimed == mine \cap UNION {sourceOf(p) : p \in merged}
               linked  == [i \in DOMAIN s.reg |->
                             IF i \in claimed THEN [s.reg[i] EXCEPT !.supersededBy = id] ELSE s.reg[i]]
               first   == FirstOf(items)
           IN  /\ Edit(w, [reg   |-> Push(Retire(linked, mine \ claimed, "consolidation_dropped"),
                                          NewEntry(id, v, "digest")),
                           notes |-> Without([s.notes EXCEPT ![first] = v], items \ {first})],
                      "consolidated")
               /\ issued' = issued \cup {id}

-----------------------------------------------------------------------------
(* Publication: createDigestWithSnapshot, under the scope's advisory lock *)

PositionOf(reg, id) == CHOOSE i \in DOMAIN reg : reg[i].id = id

\* Mutant: what happened to an entry meanwhile is not looked at.
SyncedNever(p, l) == {}

\* Positions of p.reg the copy holds active and the latest state l no longer.
Synced(p, l) ==
  {i \in Active(p.reg) : /\ p.reg[i].id \in IdsOf(l.reg)
                         /\ ~IsActive(l.reg[PositionOf(l.reg, p.reg[i].id)])}

\* Mutant: only active entries are carried over.
CarriedActive(p, l, keys) ==
  {j \in Active(l.reg) : l.reg[j].id \notin IdsOf(p.reg) /\ l.reg[j].text \notin keys}

\* Positions of l.reg the copy never saw, forgotten texts left out.
Carried(p, l, keys) ==
  {j \in DOMAIN l.reg : l.reg[j].id \notin IdsOf(p.reg) /\ l.reg[j].text \notin keys}

\* p.reg with the synced entries as l has them, then the carried ones.
ReconciledReg(p, l, keys) ==
  Concat([i \in DOMAIN p.reg |->
            IF i \in Synced(p, l)
            THEN LET theirs == l.reg[PositionOf(l.reg, p.reg[i].id)]
                 IN  [p.reg[i] EXCEPT !.supersededBy = theirs.supersededBy, !.retired = theirs.retired]
            ELSE p.reg[i]],
         Filter(l.reg, Carried(p, l, keys)))

\* Positions of the strings that go: for each synced entry the first one left.
Dropped(p, synced) ==
  LET times(t) == Cardinality({i \in synced : p.reg[i].text = t})
      sameText(q) == {r \in DOMAIN p.notes : p.notes[r] = p.notes[q]}
  IN  {q \in DOMAIN p.notes : Rank(sameText(q), q) < times(p.notes[q])}

\* The strings that come: those of carried active entries, unless held when
\* the loop over l.reg gets there.
ReconciledNotes(p, l, keys) ==
  LET active == Carried(p, l, keys) \cap Active(l.reg)
      before(j) == {i \in Synced(p, l) : PositionOf(l.reg, p.reg[i].id) < j}
      held(j) == Values(Without(p.notes, Dropped(p, before(j))))
      pushed == {j \in active : /\ l.reg[j].text \notin held(j)
                                /\ \A k \in active : k < j => l.reg[k].text # l.reg[j].text}
      texts  == [j \in DOMAIN l.reg |-> l.reg[j].text]
  IN  Concat(Without(p.notes, Dropped(p, Synced(p, l))), Filter(texts, pushed))

\* Down to the cap: the oldest digest note first, then the oldest note; each
\* string takes the first active entry of its text with it.
HeldToCap(s) ==
  LET excess  == Size(s.notes) - Cap
      digests == Evictable(s)
      out     == IF excess <= 0 THEN {}
                 ELSE Least(digests, excess)
                        \cup Least(DOMAIN s.notes \ digests, excess - Cardinality(digests))
      times(t) == Cardinality({p \in out : s.notes[p] = t})
  IN  [reg   |-> Retire(s.reg,
                        {i \in Active(s.reg) :
                           Rank(ActiveWith(s.reg, s.reg[i].text), i) < times(s.reg[i].text)},
                        "cap_evicted"),
       notes |-> Without(s.notes, out)]

\* Mutant: what was forgotten during the run is not looked for in the copy.
CarryOverUnpruned(p, l, keys) ==
  HeldToCap([reg |-> ReconciledReg(p, l, keys), notes |-> ReconciledNotes(p, l, keys)])

CarryOver(p, l, keys) ==
  HeldToCap(RetireForgotten([reg   |-> ReconciledReg(p, l, keys),
                             notes |-> ReconciledNotes(p, l, keys)], keys))

\* What the transaction writes for a finished copy.
Published(p) == IF exists THEN CarryOver(p, latest, forgotten) ELSE p

\* The pipeline's last prune, then the transaction; a digest ends here.
PublishDigest(w) ==
  /\ run[w].phase \in {"merged", "consolidated"}
  /\ latest' = Published(RetireForgotten(run[w].pipe, run[w].keys))
  /\ exists' = TRUE
  /\ run' = [run EXCEPT ![w] = IdleRun]
  /\ UNCHANGED <<forgotten, issued>>

\* A rebuild goes on to its next chunk from the state it just wrote.
PublishChunk(w) ==
  /\ run[w].phase \in {"merged", "consolidated"}
  /\ run[w].rebuild
  /\ latest' = Published(run[w].pipe)
  /\ exists' = TRUE
  /\ run' = [run EXCEPT ![w] = [IdleRun EXCEPT !.phase = "loaded", !.rebuild = TRUE, !.pipe = latest']]
  /\ UNCHANGED <<forgotten, issued>>

\* A failed model call, a crash: nothing was written.
Fail(w) ==
  /\ run[w].phase # "idle"
  /\ run' = [run EXCEPT ![w] = IdleRun]
  /\ UNCHANGED <<exists, latest, forgotten, issued>>

-----------------------------------------------------------------------------

Init ==
  /\ exists = FALSE
  /\ latest = NoNotes
  /\ forgotten = {}
  /\ issued = {}
  /\ run = [w \in Workers |-> IdleRun]

CallerStep ==
  \E v \in Texts : KeepNote(v) \/ ReviseNote(v) \/ AppendNote(v) \/ FirstNote(v) \/ ForgetFact(v)

PipelineStep(w) ==
  \/ StartDigest(w) \/ StartRebuild(w) \/ StartPipeline(w) \/ Fail(w)
  \/ \E v \in Texts : RestateNote(w, v) \/ ExtractNote(w, v) \/ ConsolidateNotes(w, v)

PublishStep(w) == PublishDigest(w) \/ PublishChunk(w)

Next == CallerStep \/ \E w \in Workers : PipelineStep(w) \/ PublishStep(w)

Spec == Init /\ [][Next]_vars

-----------------------------------------------------------------------------
(* Properties *)

IsSnapshot(s) ==
  /\ s = [reg |-> s.reg, notes |-> s.notes]
  /\ IsArray(s.reg, Entry)
  /\ IsArray(s.notes, Texts)

IsRun(r) ==
  /\ r \in [phase : Phases, rebuild : BOOLEAN, keys : SUBSET Texts, edits : Nat, pipe : {r.pipe}]
  /\ IsSnapshot(r.pipe)

\* Type invariant: snapshots are arrays of entries and of texts, every run has
\* a phase and a private copy.
TypeOK ==
  /\ exists \in BOOLEAN
  /\ IsSnapshot(latest)
  /\ forgotten \subseteq Texts
  /\ issued \subseteq Ids
  /\ DOMAIN run = Workers
  /\ \A w \in Workers : IsRun(run[w])

\* The notes facet never holds more than its cap, whatever callers wrote while
\* a digest ran and whatever the digest added on its side (the cap checks of
\* addNoteFact, applyProfileFactsFromDigest and carryOverConcurrentNotes).
NotesCap == Size(latest.notes) <= Cap

\* A forgotten text is nowhere in the active set: no held string and no active
\* entry says it, although a digest that started before the forget publishes a
\* copy that still held it, a rebuild never reads the forgotten keys, and a
\* retired entry may come back through the carry-over.
ForgottenInactive ==
  /\ Values(latest.notes) \cap forgotten = {}
  /\ \A i \in Active(latest.reg) : latest.reg[i].text \notin forgotten

EntryOf(reg, id) == reg[PositionOf(reg, id)]

\* "The record that it was once held remains": a step never drops an entry of
\* a text that is not forgotten, not even a digest publishing a copy that never
\* saw it or whose loader trimmed it, or a rebuild that started from nothing.
RecordKept ==
  [][\A e \in Values(latest.reg) : e.text \notin forgotten' => e.id \in IdsOf(latest'.reg)]_vars

\* A retired or superseded note is never active again: the copy of a run that
\* still holds it active is overruled by the latest snapshot.
InactiveStays ==
  [][\A e \in Values(latest.reg) :
       ~IsActive(e) /\ e.id \in IdsOf(latest'.reg) => ~IsActive(EntryOf(latest'.reg, e.id))]_vars

\* What the code takes for granted of a snapshot ("profile.notes, the active set
\* by construction"): each active entry's text is held, no text is held twice, and
\* none is active twice.  A rebuild from nothing that finds again what a caller
\* wrote makes a second active entry of it; eviction then retires one of the two.
Consistent(s) ==
  /\ \A i \in Active(s.reg) : s.reg[i].text \in Values(s.notes)
  /\ \A i, j \in Active(s.reg) : s.reg[i].text = s.reg[j].text => i = j
  /\ \A p, q \in DOMAIN s.notes : s.notes[p] = s.notes[q] => p = q

\* A caller's text outlives a digest: when the latest snapshot and the copy are
\* consistent, a publication keeps the text of every active caller note among the
\* held strings, unless it is forgotten; also of a note written after the copy was
\* loaded, or one too many for the cap.
CallerTextSurvives ==
  [][Consistent(latest) /\ (\E w \in Workers : Consistent(run[w].pipe) /\ PublishStep(w)) =>
       \A i \in CallerNotes(latest.reg) :
         latest.reg[i].text \in Values(latest'.notes) \cup forgotten]_vars
=============================================================================
