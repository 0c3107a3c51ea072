---------------------------- MODULE RuntimeTurnProofs ----------------------------
(***************************************************************************)
(* Proofs about RuntimeTurn, for any requests, sessions, workers, caches,   *)
(* and lives: how old a recall can get that feeds both caches, and what is  *)
(* stored by the time a turn's update job is queued, and so by the time it  *)
(* is read, is lost and is tried again; and that an update which selects    *)
(* a few events overlooks no goal; and what the caches, the snapshot and    *)
(* the queues hold at most.                                                 *)
(***************************************************************************)
EXTENDS RuntimeTurn, FiniteSetTheorems, TLAPS

-----------------------------------------------------------------------------
(* Arrays *)

\* filter() returns some of the elements it was given.
LEMMA FilterKeepsType ==
  ASSUME NEW S, NEW s, IsArray(s, S), NEW I, I \subseteq DOMAIN s
  PROVE  /\ IsArray(Filter(s, I), S)
         /\ \A k \in DOMAIN Filter(s, I) : \E i \in I : Filter(s, I)[k] = s[i]
<1> DEFINE D == {Rank(I, p) + 1 : p \in I}
           f(k) == CHOOSE p \in I : Rank(I, p) + 1 = k
<1>1. \A k \in D : f(k) \in I
  <2> SUFFICES ASSUME NEW k \in D
               PROVE  f(k) \in I
    OBVIOUS
  <2>1. \E p \in I : Rank(I, p) + 1 = k
    OBVIOUS
  <2> QED
    BY <2>1
<1>2. Filter(s, I) = [k \in D |-> s[f(k)]]
  BY DEF Filter
<1> HIDE DEF D, f
<1>3. \A k \in D : s[f(k)] \in S
  BY <1>1 DEF IsArray
<1> QED
  BY <1>1, <1>2, <1>3 DEF IsArray

\* push() adds one element to those there are.
LEMMA PushKeepsType ==
  ASSUME NEW S, NEW s, IsArray(s, S), NEW e \in S
  PROVE  IsArray(Push(s, e), S)
BY DEF Push, IsArray

-----------------------------------------------------------------------------
(* The caches *)

\* Entries under keys of K whose age and rest of life add up to no more than bound.
Fresh(K, bound) ==
  {e \in [key : K, left : 1..TTL, age : Nat] : e.age + e.left <= bound}

\* What a cache takes that has a whole life left after an age.
LEMMA PutStaysFresh ==
  ASSUME NEW K, NEW cache, NEW bound \in Nat, IsArray(cache, Fresh(K, bound)),
         NEW key, NEW age \in Nat, age + TTL <= bound
  PROVE  IsArray(Put(cache, key, age), Fresh(K \cup {key}, bound))
<1> DEFINE S == Fresh(K \cup {key}, bound)
           e == [key |-> key, left |-> TTL, age |-> age]
           kept == Without(cache, Entries(cache, key))
           written == Push(kept, e)
<1>1. e \in S
  BY ConstantsAssumption DEF Fresh
<1>2. IsArray(cache, S)
  BY DEF Fresh, IsArray
<1> HIDE DEF S, e
<1>3. IsArray(kept, S)
  BY <1>2, FilterKeepsType DEF Without
<1> HIDE DEF kept
<1>4. IsArray(written, S)
  BY <1>1, <1>3, PushKeepsType
<1>5. Put(cache, key, age) = Without(written, Least(DOMAIN written, Size(written) - MaxEntries))
  BY DEF Put, e, kept
<1> HIDE DEF written
<1>6. IsArray(Put(cache, key, age), S)
  BY <1>4, <1>5, FilterKeepsType DEF Without
<1> QED
  BY <1>6 DEF S

\* A tick takes from the life what it adds to the age.
LEMMA TickStaysFresh ==
  ASSUME NEW K, NEW cache, NEW bound \in Nat, IsArray(cache, Fresh(K, bound))
  PROVE  IsArray(Older(cache), Fresh(K, bound))
<1> DEFINE aged == [i \in DOMAIN cache |->
                      [cache[i] EXCEPT !.left = @ - 1, !.age = AtMost(OldestAge, @ + 1)]]
           alive == {i \in DOMAIN aged : aged[i].left > 0}
           S == [key : K, left : 0..TTL, age : Nat]
<1>1. ASSUME NEW i \in DOMAIN aged
      PROVE  /\ aged[i] \in S
             /\ aged[i].age + aged[i].left <= bound
  <2>1. cache[i] \in Fresh(K, bound) /\ TTL \in Nat
    BY ConstantsAssumption DEF IsArray
  <2>2. AtMost(OldestAge, cache[i].age + 1) \in 0..(cache[i].age + 1)
    BY <2>1 DEF AtMost, OldestAge, Fresh
  <2>3. PICK a \in 0..(cache[i].age + 1) : a = AtMost(OldestAge, cache[i].age + 1)
    BY <2>2
  <2>4. aged[i] = [cache[i] EXCEPT !.left = cache[i].left - 1, !.age = a]
    BY <2>3
  <2>5. cache[i] \in [key : K, left : 1..TTL, age : Nat] /\ cache[i].age + cache[i].left <= bound
    BY <2>1 DEF Fresh
  <2>6. aged[i] = [key |-> cache[i].key, left |-> cache[i].left - 1, age |-> a]
    BY <2>4, <2>5
  <2> HIDE DEF aged
  <2> QED
    BY <2>1, <2>5, <2>6
<1>2. IsArray(aged, S)
  BY <1>1 DEF IsArray
<1>3. Older(cache) = Filter(aged, alive) /\ alive \subseteq DOMAIN aged
  BY DEF Older
<1>4. ASSUME NEW i \in alive
      PROVE  aged[i] \in Fresh(K, bound)
  <2>1. aged[i] \in S /\ aged[i].age + aged[i].left <= bound /\ aged[i].left > 0
    BY <1>1
  <2> HIDE DEF aged
  <2> QED
    BY <2>1, ConstantsAssumption DEF Fresh
<1> HIDE DEF aged, alive, S
<1>5. /\ IsArray(Filter(aged, alive), S)
      /\ \A k \in DOMAIN Filter(aged, alive) : \E i \in alive : Filter(aged, alive)[k] = aged[i]
  BY <1>2, <1>3, FilterKeepsType
<1> QED
  BY <1>3, <1>4, <1>5 DEF IsArray

\* An entry that is found is one of them.
LEMMA FoundIsFresh ==
  ASSUME NEW K, NEW cache, NEW bound \in Nat, IsArray(cache, Fresh(K, bound)),
         NEW key, Entries(cache, key) # {}
  PROVE  AgeIn(cache, key) \in Nat /\ AgeIn(cache, key) + 1 <= bound
<1> DEFINE i == CHOOSE i \in Entries(cache, key) : TRUE
<1>1. i \in DOMAIN cache
  BY DEF Entries
<1>2. cache[i] \in Fresh(K, bound)
  BY <1>1 DEF IsArray
<1>3. AgeIn(cache, key) = cache[i].age
  BY DEF AgeIn
<1> HIDE DEF i
<1> QED
  BY <1>2, <1>3, ConstantsAssumption DEF Fresh

-----------------------------------------------------------------------------
(* How old a recall gets *)

\* A session's age is what an entry that answers it can be: less than two lives.
SessionStates(K) ==
  [phase : {"idle", "loading", "asking", "known", "background"}, q : Requests \cup {NoRequest},
   turn : Nat, key : K, age : 0..(2 * TTL - 1), part : Nat]

\* What answers a retrieval lives once in recalled, and once more in resolved if it is
\* cached there again just before it expires.  (K, C and D are the keys met so far.)
Recent ==
  /\ turns \in Nat
  /\ \E K : << >> \in K /\ session \in [Sessions -> SessionStates(K)]
  /\ \E C : IsArray(recalled, Fresh(C, TTL))
  /\ \E D : IsArray(resolved, Fresh(D, 2 * TTL - 1))

\* A session that is over, or goes on in the background, holds no recall.
LEMMA ProceedType ==
  ASSUME NEW K, << >> \in K, NEW s \in SessionStates(K)
  PROVE  IdleSession \in SessionStates(K) /\ Proceed(s) \in SessionStates(K)
<1>1. IdleSession \in SessionStates(K)
  BY ConstantsAssumption DEF IdleSession, SessionStates
<1>2. [s EXCEPT !.phase = "background", !.key = << >>, !.age = 0] \in SessionStates(K)
  <2>1. 0 \in 0..(2 * TTL - 1)
    BY ConstantsAssumption
  <2> QED
    BY <2>1 DEF SessionStates
<1> QED
  BY <1>1, <1>2 DEF Proceed

\* A request that begins.
LEMMA Entered ==
  ASSUME NEW r \in Sessions, NEW q \in Requests, Begin(r, q)
  PROVE  /\ session' = [session EXCEPT ![r] = Started(q)]
         /\ Started(q).phase = "loading" /\ Started(q).q = q /\ Started(q).part = 0
         /\ Started(q).turn = (IF q.turn THEN turns + 1 ELSE 0)
         /\ q.turn => turns < MaxTurns
         /\ turns' = IF q.turn THEN turns + 1 ELSE turns
         /\ UNCHANGED <<data, digest, caches, queues, update>>
BY DEF Begin, Started, IdleSession

\* A request that loads, looks a recall up or retrieves it goes on as the one it was.
LEMMA Onward ==
  ASSUME Recent, NEW r \in Sessions, (\E n \in 1..3 : Load(r, n)) \/ Resolve(r) \/ Retrieve(r)
  PROVE  /\ \E s : /\ session' = [session EXCEPT ![r] = s]
                   /\ s.phase \in {"loading", "asking", "known"}
                   /\ s.q = session[r].q /\ s.turn = session[r].turn /\ s.part = session[r].part
         /\ session[r].phase \in {"loading", "asking"}
         /\ UNCHANGED <<data, digest, queues, update, turns>>
<1>1. PICK K : << >> \in K /\ session \in [Sessions -> SessionStates(K)]
  BY DEF Recent
<1>2. session[r].phase \in {"loading", "asking"} /\ UNCHANGED <<data, digest, queues, update, turns>>
  BY DEF Load, Resolve, Retrieve
<1>3. \E k, age :
        \/ session' = [session EXCEPT ![r] = [session[r] EXCEPT !.key = k]] /\ session[r].phase = "loading"
        \/ session' = [session EXCEPT ![r] = [session[r] EXCEPT !.phase = "asking", !.key = k]]
        \/ session' = [session EXCEPT ![r] = [session[r] EXCEPT !.phase = "known", !.key = k, !.age = age]]
  <2>1. ASSUME NEW n \in 1..3, Load(r, n)
        PROVE  /\ session' = [session EXCEPT ![r] = [session[r] EXCEPT
                                !.key = [session[r].key EXCEPT ![n] = Loaded(session[r].q)[n]]]]
               /\ session[r].phase = "loading"
    BY <1>1, <2>1 DEF Load
  <2>2. CASE Resolve(r)
    BY <2>2 DEF Resolve
  <2>3. CASE Retrieve(r)
    <3>1. session' = [session EXCEPT ![r] = [session[r] EXCEPT !.phase = "known", !.key = <<>>, !.age = 0]]
      BY <1>1, <2>3 DEF Retrieve
    <3> QED
      BY <3>1
  <2> QED
    BY <2>1, <2>2, <2>3
<1>4. PICK u \in SessionStates(K) : u = session[r]
  BY <1>1
<1>5. PICK s : /\ session' = [session EXCEPT ![r] = s]
               /\ s.phase \in {"loading", "asking", "known"}
               /\ s.q = u.q /\ s.turn = u.turn /\ s.part = u.part
  <2>1. PICK k, age :
          \/ session' = [session EXCEPT ![r] = [u EXCEPT !.key = k]] /\ u.phase = "loading"
          \/ session' = [session EXCEPT ![r] = [u EXCEPT !.phase = "asking", !.key = k]]
          \/ session' = [session EXCEPT ![r] = [u EXCEPT !.phase = "known", !.key = k, !.age = age]]
    BY <1>3, <1>4
  <2>2. PICK a, b, c : /\ a = [u EXCEPT !.key = k]
                       /\ b = [u EXCEPT !.phase = "asking", !.key = k]
                       /\ c = [u EXCEPT !.phase = "known", !.key = k, !.age = age]
    OBVIOUS
  <2>3. /\ a.phase = u.phase /\ a.q = u.q /\ a.turn = u.turn /\ a.part = u.part
        /\ b.phase = "asking" /\ b.q = u.q /\ b.turn = u.turn /\ b.part = u.part
        /\ c.phase = "known" /\ c.q = u.q /\ c.turn = u.turn /\ c.part = u.part
    BY <2>2 DEF SessionStates
  <2>4. \/ session' = [session EXCEPT ![r] = a] /\ a.phase = "loading"
        \/ session' = [session EXCEPT ![r] = b]
        \/ session' = [session EXCEPT ![r] = c]
    BY <2>1, <2>2, <2>3
  <2> QED
    BY <2>3, <2>4
<1> QED
  BY <1>2, <1>4, <1>5

\* No session and no entry is old in the beginning.
LEMMA InitRecent == Init => Recent
<1> SUFFICES ASSUME Init PROVE Recent
  OBVIOUS
<1>1. IdleSession \in SessionStates({<< >>})
  BY ConstantsAssumption DEF IdleSession, SessionStates
<1>2. session \in [Sessions -> SessionStates({<< >>})]
  BY <1>1 DEF Init
<1>3. IsArray(<< >>, Fresh({}, TTL)) /\ IsArray(<< >>, Fresh({}, 2 * TTL - 1))
  BY DEF IsArray
<1> QED
  BY <1>2, <1>3 DEF Init, Recent

\* A request that begins holds no recall, nor does one that loads what it is looked up by.
LEMMA LoadRecent ==
  ASSUME Recent, NEW r \in Sessions,
         (\E q \in Requests : Begin(r, q)) \/ (\E n \in 1..3 : Load(r, n))
  PROVE  Recent'
<1>1. PICK K : << >> \in K /\ session \in [Sessions -> SessionStates(K)]
  BY DEF Recent
<1>2. 0 \in 0..(2 * TTL - 1)
  BY ConstantsAssumption
<1>3. ASSUME NEW k, NEW s \in SessionStates(K \cup {k}), session' = [session EXCEPT ![r] = s],
             turns' \in Nat, UNCHANGED caches
      PROVE  Recent'
  <2>1. << >> \in K \cup {k} /\ SessionStates(K) \subseteq SessionStates(K \cup {k})
    BY <1>1 DEF SessionStates
  <2>2. session' \in [Sessions -> SessionStates(K \cup {k})]
    BY <1>1, <1>3, <2>1
  <2> QED
    BY <1>3, <2>1, <2>2 DEF Recent, caches
<1>4. ASSUME NEW q \in Requests, Begin(r, q)
      PROVE  Recent'
  <2>1. PICK k : k = NothingLoaded
    OBVIOUS
  <2>2. PICK t \in Nat : t = IF q.turn THEN turns + 1 ELSE 0
    BY DEF Recent
  <2>3. Started(q) = [IdleSession EXCEPT !.phase = "loading", !.q = q, !.turn = t, !.key = k]
    BY <2>1, <2>2 DEF Started
  <2>4. IdleSession \in SessionStates(K \cup {k})
    BY <1>1, <1>2 DEF SessionStates, IdleSession
  <2> HIDE DEF IdleSession
  <2>5. Started(q) \in SessionStates(K \cup {k})
    BY <2>3, <2>4 DEF SessionStates
  <2>6. session' = [session EXCEPT ![r] = Started(q)] /\ turns' \in Nat /\ UNCHANGED caches
    BY <1>4 DEF Begin, Recent
  <2> QED
    BY <1>3, <2>5, <2>6
<1>5. ASSUME NEW n \in 1..3, Load(r, n)
      PROVE  Recent'
  <2>1. PICK k : k = [session[r].key EXCEPT ![n] = Loaded(session[r].q)[n]]
    OBVIOUS
  <2>2. session' = [session EXCEPT ![r] = [session[r] EXCEPT !.key = k]]
    BY <1>1, <1>5, <2>1 DEF Load
  <2>3. session[r] \in SessionStates(K)
    BY <1>1
  <2>4. [session[r] EXCEPT !.key = k] \in SessionStates(K \cup {k})
    BY <2>3 DEF SessionStates
  <2>5. turns' \in Nat /\ UNCHANGED caches
    BY <1>5 DEF Load, Recent
  <2> QED
    BY <1>3, <2>2, <2>4, <2>5
<1> QED
  BY <1>4, <1>5

\* A request whose loads are done is answered from a cache or goes on to ask.
LEMMA ResolveRecent ==
  ASSUME Recent, NEW r \in Sessions, Resolve(r)
  PROVE  Recent'
<1> DEFINE s   == session[r]
           key == <<ResolvedKey(s.q, s.key), RecallKey(s.q, s.key)>>
<1>1. PICK K : << >> \in K /\ session \in [Sessions -> SessionStates(K)]
  BY DEF Recent
<1>2. PICK C : IsArray(recalled, Fresh(C, TTL))
  BY DEF Recent
<1>3. PICK D : IsArray(resolved, Fresh(D, 2 * TTL - 1))
  BY DEF Recent
<1>4. TTL \in Nat \ {0} /\ 2 * TTL - 1 \in Nat
  BY ConstantsAssumption
<1> DEFINE L == K \cup {key}
<1>6. /\ << >> \in L /\ session \in [Sessions -> SessionStates(L)]
      /\ [s EXCEPT !.phase = "asking", !.key = key] \in SessionStates(L)
      /\ \A age \in 0..(2 * TTL - 1) : [s EXCEPT !.phase = "known", !.key = <<>>, !.age = age] \in SessionStates(L)
  <2>1. << >> \in L /\ SessionStates(K) \subseteq SessionStates(L)
    BY <1>1 DEF SessionStates
  <2>2. PICK k \in L : k = key
    OBVIOUS
  <2>3. PICK u \in SessionStates(L) : u = s
    BY <1>1, <2>1
  <2> HIDE DEF s, key, L
  <2>4. [u EXCEPT !.phase = "asking", !.key = k] \in SessionStates(L)
    BY DEF SessionStates
  <2>5. \A age \in 0..(2 * TTL - 1) : [u EXCEPT !.phase = "known", !.key = <<>>, !.age = age] \in SessionStates(L)
    BY <2>1 DEF SessionStates
  <2> QED
    BY <1>1, <2>1, <2>2, <2>3, <2>4, <2>5
<1>7. turns' \in Nat
  BY DEF Recent, Resolve
<1> HIDE DEF s, key, L
<1>8. CASE /\ Entries(resolved, key[1]) # {}
           /\ session' = [session EXCEPT ![r] = [s EXCEPT !.phase = "known", !.key = <<>>, !.age = AgeIn(resolved, key[1])]]
           /\ resolved' = resolved /\ recalled' = recalled
  <2>1. AgeIn(resolved, key[1]) \in Nat /\ AgeIn(resolved, key[1]) + 1 <= 2 * TTL - 1
    BY <1>3, <1>4, <1>8, FoundIsFresh
  <2>2. AgeIn(resolved, key[1]) \in 0..(2 * TTL - 1)
    BY <1>4, <2>1
  <2>3. session' \in [Sessions -> SessionStates(L)]
    BY <1>6, <1>8, <2>2
  <2> QED
    BY <1>2, <1>3, <1>6, <1>7, <1>8, <2>3 DEF Recent
<1>9. CASE /\ session' = [session EXCEPT ![r] = [s EXCEPT !.phase = "known", !.key = <<>>, !.age = 0]]
           /\ resolved' = Put(resolved, key[1], 0) /\ recalled' = recalled
  <2>1. IsArray(resolved', Fresh(D \cup {key[1]}, 2 * TTL - 1))
    BY <1>3, <1>4, <1>9, PutStaysFresh
  <2>2. 0 \in 0..(2 * TTL - 1)
    BY <1>4
  <2>3. session' \in [Sessions -> SessionStates(L)]
    BY <1>6, <1>9, <2>2
  <2> QED
    BY <1>2, <1>6, <1>7, <1>9, <2>1, <2>3 DEF Recent
<1>10. CASE /\ Entries(recalled, key[2]) # {}
            /\ session' = [session EXCEPT ![r] = [s EXCEPT !.phase = "known", !.key = <<>>, !.age = AgeIn(recalled, key[2])]]
            /\ resolved' = Put(resolved, key[1], AgeIn(recalled, key[2])) /\ recalled' = recalled
  <2>1. AgeIn(recalled, key[2]) \in Nat /\ AgeIn(recalled, key[2]) + 1 <= TTL
    BY <1>2, <1>4, <1>10, FoundIsFresh
  <2>2. AgeIn(recalled, key[2]) \in 0..(2 * TTL - 1) /\ AgeIn(recalled, key[2]) + TTL <= 2 * TTL - 1
    BY <1>4, <2>1
  <2>3. IsArray(resolved', Fresh(D \cup {key[1]}, 2 * TTL - 1))
    BY <1>3, <1>4, <1>10, <2>1, <2>2, PutStaysFresh
  <2>4. session' \in [Sessions -> SessionStates(L)]
    BY <1>6, <1>10, <2>2
  <2> QED
    BY <1>2, <1>6, <1>7, <1>10, <2>3, <2>4 DEF Recent
<1>11. CASE session' = [session EXCEPT ![r] = [s EXCEPT !.phase = "asking", !.key = key]] /\ resolved' = resolved /\ recalled' = recalled
  <2>1. session' \in [Sessions -> SessionStates(L)]
    BY <1>6, <1>11
  <2> QED
    BY <1>2, <1>3, <1>6, <1>7, <1>11, <2>1 DEF Recent
<1> QED
  BY <1>8, <1>9, <1>10, <1>11 DEF Resolve, AfterGet, caches, s, key

\* The retrieval's answer is new to both caches.
LEMMA RetrieveRecent ==
  ASSUME Recent, NEW r \in Sessions, Retrieve(r)
  PROVE  Recent'
<1>1. PICK K : << >> \in K /\ session \in [Sessions -> SessionStates(K)]
  BY DEF Recent
<1>2. PICK C : IsArray(recalled, Fresh(C, TTL))
  BY DEF Recent
<1>3. PICK D : IsArray(resolved, Fresh(D, 2 * TTL - 1))
  BY DEF Recent
<1>4. TTL \in Nat \ {0} /\ 2 * TTL - 1 \in Nat /\ 0 + TTL <= TTL /\ 0 + TTL <= 2 * TTL - 1 /\ TTL \in Nat
  BY ConstantsAssumption
<1>5. IsArray(recalled', Fresh(C \cup {session[r].key[2]}, TTL))
  BY <1>2, <1>4, PutStaysFresh DEF Retrieve
<1>6. IsArray(resolved', Fresh(D \cup {session[r].key[1]}, 2 * TTL - 1))
  BY <1>3, <1>4, PutStaysFresh DEF Retrieve
<1>7. [session[r] EXCEPT !.phase = "known", !.key = <<>>, !.age = 0] \in SessionStates(K)
  <2>1. 0 \in 0..(2 * TTL - 1) /\ session[r] \in SessionStates(K)
    BY <1>1, <1>4
  <2> QED
    BY <1>1, <2>1 DEF SessionStates
<1>8. session' \in [Sessions -> SessionStates(K)]
  <2>1. session' = [session EXCEPT ![r] = [session[r] EXCEPT !.phase = "known", !.key = <<>>, !.age = 0]]
    BY <1>1 DEF Retrieve
  <2> QED
    BY <1>1, <1>7, <2>1
<1> QED
  BY <1>1, <1>5, <1>6, <1>8 DEF Recent, Retrieve

\* No other step takes a recall from anywhere.
LEMMA NextRecent ==
  ASSUME Recent, [Next]_vars
  PROVE  Recent'
<1>1. PICK K : << >> \in K /\ session \in [Sessions -> SessionStates(K)]
  BY DEF Recent
<1>2. PICK C : IsArray(recalled, Fresh(C, TTL))
  BY DEF Recent
<1>3. PICK D : IsArray(resolved, Fresh(D, 2 * TTL - 1))
  BY DEF Recent
<1>4. \A s \in SessionStates(K) : IdleSession \in SessionStates(K) /\ Proceed(s) \in SessionStates(K)
  BY <1>1, ProceedType
<1>5. \A r \in Sessions : [session[r] EXCEPT !.part = @ + 1] \in SessionStates(K)
  <2> SUFFICES ASSUME NEW r \in Sessions
               PROVE  [session[r] EXCEPT !.part = @ + 1] \in SessionStates(K)
    OBVIOUS
  <2> DEFINE P == {"idle", "loading", "asking", "known", "background"}
             Q == Requests \cup {NoRequest}
             A == 0..(2 * TTL - 1)
  <2>1. SessionStates(K) = [phase : P, q : Q, turn : Nat, key : K, age : A, part : Nat]
    BY DEF SessionStates
  <2> HIDE DEF P, Q, A
  <2>2. PICK s \in [phase : P, q : Q, turn : Nat, key : K, age : A, part : Nat] : s = session[r]
    BY <1>1, <2>1
  <2>3. s.part + 1 \in Nat
    OBVIOUS
  <2>4. [s EXCEPT !.part = s.part + 1] \in [phase : P, q : Q, turn : Nat, key : K, age : A, part : Nat]
    BY <2>3
  <2> QED
    BY <2>1, <2>2, <2>4
<1>6. ASSUME session' \in [Sessions -> SessionStates(K)], UNCHANGED <<turns, caches>>
      PROVE  Recent'
  BY <1>1, <1>2, <1>3, <1>6 DEF Recent, caches
<1>7. ASSUME NEW r \in Sessions, AnswerStatus(r) \/ RequestDigest(r) \/ RequestFails(r) \/ BackgroundFails(r)
      PROVE  Recent'
  <2>1. session' = [session EXCEPT ![r] = IdleSession] /\ UNCHANGED <<turns, caches>>
    BY <1>7 DEF AnswerStatus, RequestDigest, RequestFails, BackgroundFails
  <2> QED
    BY <1>1, <1>4, <1>6, <2>1
<1>8. ASSUME NEW r \in Sessions, AnswerTurn(r) \/ Write(r) \/ RequestUpdate(r)
      PROVE  Recent'
  <2>1. PICK s \in SessionStates(K) : session' = [session EXCEPT ![r] = Proceed(s)]
    BY <1>1, <1>5, <1>8 DEF AnswerTurn, Write, RequestUpdate
  <2>2. UNCHANGED <<turns, caches>>
    BY <1>8 DEF AnswerTurn, Write, RequestUpdate
  <2> QED
    BY <1>1, <1>4, <1>6, <2>1, <2>2
<1>9. ASSUME NEW w \in Workers, Work(w)
      PROVE  Recent'
  BY <1>1, <1>6, <1>9 DEF Work, UpdateRead, UpdateVersion, UpdateWrite, UpdateFails
<1>10. CASE Digest \/ Expire \/ \E h \in Uploads : Upload(h)
  BY <1>1, <1>6, <1>10 DEF Digest, Expire, Upload
<1>11. CASE Tick
  <2>1. IsArray(recalled', Fresh(C, TTL)) /\ IsArray(resolved', Fresh(D, 2 * TTL - 1))
    <3>1. TTL \in Nat /\ 2 * TTL - 1 \in Nat
      BY ConstantsAssumption
    <3> QED
      BY <1>2, <1>3, <1>11, <3>1, TickStaysFresh DEF Tick
  <2> QED
    BY <1>1, <1>11, <2>1 DEF Recent, Tick
<1>12. CASE Restart
  <2>1. session' \in [Sessions -> SessionStates(K)]
    BY <1>1, <1>4, <1>12 DEF Restart
  <2>2. IsArray(<< >>, Fresh({}, TTL)) /\ IsArray(<< >>, Fresh({}, 2 * TTL - 1))
    BY DEF IsArray
  <2>3. IsArray(recalled', Fresh({}, TTL)) /\ IsArray(resolved', Fresh({}, 2 * TTL - 1))
    BY <1>12, <2>2 DEF Restart
  <2>4. turns' \in Nat
    BY <1>12 DEF Restart, Recent
  <2> QED
    BY <1>1, <2>1, <2>3, <2>4 DEF Recent
<1>13. CASE UNCHANGED vars
  BY <1>13 DEF Recent, vars, caches
<1> QED
  BY <1>7, <1>8, <1>9, <1>10, <1>11, <1>12, <1>13, LoadRecent, ResolveRecent, RetrieveRecent DEF Next, Serve

\* Whatever is cached again, asked for again and evicted, for any life of an entry, any
\* capacity and any requests: no request is answered from a recall of two lives ago.
THEOREM RecallAlwaysRecent == Spec => []RecallIsRecent
<1>1. Recent => RecallIsRecent
  BY ConstantsAssumption DEF Recent, RecallIsRecent, SessionStates
<1> QED
  BY <1>1, InitRecent, NextRecent, PTL DEF Spec

-----------------------------------------------------------------------------
(* Lists that become longer or shorter *)

\* What stands where in two sequences, one behind the other.
LEMMA ConcatFacts ==
  ASSUME NEW S, NEW s \in Seq(S), NEW t \in Seq(S)
  PROVE  /\ s \o t \in Seq(S) /\ DOMAIN (s \o t) = 1..(Len(s) + Len(t))
         /\ \A k \in 1..Len(s) : (s \o t)[k] = s[k]
         /\ \A k \in 1..(Len(s) + Len(t)) : k > Len(s) => (s \o t)[k] = t[k - Len(s)]
<1>1. s \o t \in Seq(S) /\ Len(s \o t) = Len(s) + Len(t)
  OBVIOUS
<1>2. DOMAIN (s \o t) = 1..(Len(s) + Len(t))
  BY <1>1
<1>3. \A k \in 1..Len(s) : (s \o t)[k] = s[k]
  OBVIOUS
<1>4. \A k \in 1..(Len(s) + Len(t)) : k > Len(s) => (s \o t)[k] = t[k - Len(s)]
  OBVIOUS
<1> QED
  BY <1>1, <1>2, <1>3, <1>4

\* What InsertAt and RemoveAt leave where.
LEMMA InsertFacts ==
  ASSUME NEW S, NEW s \in Seq(S), NEW p \in DOMAIN s, NEW e
  PROVE  /\ InsertAt(s, p, e) \in Seq(S \cup {e})
         /\ DOMAIN InsertAt(s, p, e) = 1..(Len(s) + 1) /\ Len(s) \in Nat /\ DOMAIN s = 1..Len(s)
         /\ \A k \in 1..(Len(s) + 1) :
              InsertAt(s, p, e)[k] = IF k < p THEN s[k] ELSE IF k = p THEN e ELSE s[k - 1]
<1> DEFINE T == S \cup {e}
           a == SubSeq(s, 1, p - 1)
           b == SubSeq(s, p, Len(s))
           c == a \o <<e>>
           t == c \o b
<1>1. PICK n \in Nat : n = Len(s) /\ p \in 1..n /\ DOMAIN s = 1..n
  OBVIOUS
<1>2. s \in Seq(T) /\ e \in T
  OBVIOUS
<1> HIDE DEF T
<1>3. a \in Seq(T) /\ Len(a) = p - 1 /\ \A k \in 1..(p - 1) : a[k] = s[k]
  BY <1>1, <1>2
<1>4. b \in Seq(T) /\ Len(b) = n - p + 1 /\ \A k \in 1..(n - p + 1) : b[k] = s[p + k - 1]
  BY <1>1, <1>2
<1>5. InsertAt(s, p, e) = t
  BY DEF InsertAt
<1>6. c \in Seq(T) /\ Len(c) = p /\ c[p] = e /\ \A k \in 1..(p - 1) : c[k] = s[k]
  <2> HIDE DEF a
  <2>1. p - 1 \in Nat /\ p = (p - 1) + 1
    BY <1>1
  <2>2. c = Append(a, e)
    BY <1>2, <1>3
  <2>3. Append(a, e) \in Seq(T) /\ Len(Append(a, e)) = Len(a) + 1 /\ Append(a, e)[Len(a) + 1] = e
    BY <1>2, <1>3
  <2>4. \A k \in 1..Len(a) : Append(a, e)[k] = a[k]
    BY <1>2, <1>3
  <2> HIDE DEF c
  <2> QED
    BY <1>3, <2>1, <2>2, <2>3, <2>4
<1> HIDE DEF a, b, c
<1>7. p \in Nat /\ n - p + 1 \in Nat /\ p + (n - p + 1) = n + 1
  BY <1>1
<1>8. /\ t \in Seq(T) /\ DOMAIN t = 1..(n + 1)
      /\ \A k \in 1..p : t[k] = c[k]
      /\ \A k \in 1..(n + 1) : k > p => t[k] = b[k - p]
  <2>1. PICK l \in Nat : l = n - p + 1 /\ p + l = n + 1
    BY <1>7
  <2>2. /\ t \in Seq(T) /\ DOMAIN t = 1..(p + l)
        /\ \A k \in 1..p : t[k] = c[k]
        /\ \A k \in 1..(p + l) : k > p => t[k] = b[k - p]
    <3>1. Len(c) = p /\ Len(b) = l /\ c \in Seq(T) /\ b \in Seq(T) /\ p \in Nat
      BY <1>4, <1>6, <1>7, <2>1
    <3>2. /\ c \o b \in Seq(T) /\ DOMAIN (c \o b) = 1..(Len(c) + Len(b))
          /\ \A k \in 1..Len(c) : (c \o b)[k] = c[k]
          /\ \A k \in 1..(Len(c) + Len(b)) : k > Len(c) => (c \o b)[k] = b[k - Len(c)]
      BY <3>1, ConcatFacts, Zenon
    <3> QED
      BY <3>1, <3>2, Zenon
  <2> QED
    BY <2>1, <2>2
<1> HIDE DEF t
<1>9. ASSUME NEW k \in 1..(n + 1)
      PROVE  t[k] = IF k < p THEN s[k] ELSE IF k = p THEN e ELSE s[k - 1]
  <2>1. CASE k < p
    <3>1. k \in 1..p /\ k \in 1..(p - 1)
      BY <1>7, <2>1
    <3> QED
      BY <1>6, <1>8, <2>1, <3>1
  <2>2. CASE k = p
    <3>1. k \in 1..p /\ ~(k < p)
      BY <1>1, <2>2
    <3> QED
      BY <1>6, <1>8, <2>2, <3>1
  <2>3. CASE k > p
    <3>1. k - p \in 1..(n - p + 1) /\ p + (k - p) - 1 = k - 1 /\ ~(k < p) /\ k # p
      BY <1>1, <2>3
    <3>2. t[k] = b[k - p] /\ b[k - p] = s[p + (k - p) - 1]
      BY <1>4, <1>8, <2>3, <3>1
    <3> QED
      BY <3>1, <3>2
  <2>4. k < p \/ k = p \/ k > p
    BY <1>7
  <2> QED
    BY <2>1, <2>2, <2>3, <2>4
<1> QED
  BY <1>1, <1>5, <1>8, <1>9 DEF T

LEMMA Shift ==
  ASSUME NEW n \in Int, NEW p \in Int, NEW k \in Int, k >= p, k <= n - 1
  PROVE  k - (p - 1) \in 1..(n - p) /\ p + (k - (p - 1)) = k + 1 /\ k > p - 1 /\ ~(k < p)
OBVIOUS

LEMMA RemoveFacts ==
  ASSUME NEW S, NEW s \in Seq(S), NEW p \in DOMAIN s
  PROVE  /\ RemoveAt(s, p) \in Seq(S)
         /\ DOMAIN RemoveAt(s, p) = 1..(Len(s) - 1) /\ Len(s) \in Nat /\ DOMAIN s = 1..Len(s)
         /\ \A k \in 1..(Len(s) - 1) : RemoveAt(s, p)[k] = IF k < p THEN s[k] ELSE s[k + 1]
<1> DEFINE a == SubSeq(s, 1, p - 1)
           b == SubSeq(s, p + 1, Len(s))
           t == a \o b
<1>1. PICK n \in Nat : n = Len(s) /\ p \in 1..n /\ DOMAIN s = 1..n
  OBVIOUS
<1>2. a \in Seq(S) /\ Len(a) = p - 1 /\ \A k \in 1..(p - 1) : a[k] = s[k]
  BY <1>1
<1>3. b \in Seq(S) /\ Len(b) = n - p /\ \A k \in 1..(n - p) : b[k] = s[p + k]
  <2>1. p + 1 \in Int /\ p + 1 >= 1 /\ n - p \in Nat /\ (p + 1) - 1 = p
    BY <1>1
  <2>2. b \in Seq(S) /\ Len(b) = n - p
    BY <1>1, <2>1
  <2>3. \A k \in 1..(n - p) : b[k] = s[(p + 1) + k - 1]
    BY <1>1, <2>1
  <2>4. \A k \in 1..(n - p) : (p + 1) + k - 1 = p + k
    BY <1>1
  <2> HIDE DEF b
  <2> QED
    BY <2>2, <2>3, <2>4
<1>4. RemoveAt(s, p) = t
  BY DEF RemoveAt
<1> HIDE DEF a, b
<1>5. p - 1 \in Nat /\ n - p \in Nat /\ (p - 1) + (n - p) = n - 1 /\ p \in Int /\ n \in Int
  BY <1>1
<1>6. /\ t \in Seq(S) /\ DOMAIN t = 1..(n - 1)
      /\ \A k \in 1..(p - 1) : t[k] = a[k]
      /\ \A k \in 1..(n - 1) : k > p - 1 => t[k] = b[k - (p - 1)]
  <2>1. PICK m \in Nat, l \in Nat : m = p - 1 /\ l = n - p /\ m + l = n - 1
    BY <1>5
  <2>2. /\ t \in Seq(S) /\ DOMAIN t = 1..(m + l)
        /\ \A k \in 1..m : t[k] = a[k]
        /\ \A k \in 1..(m + l) : k > m => t[k] = b[k - m]
    <3>1. Len(a) = m /\ Len(b) = l /\ a \in Seq(S) /\ b \in Seq(S)
      BY <1>2, <1>3, <2>1
    <3>2. /\ a \o b \in Seq(S) /\ DOMAIN (a \o b) = 1..(Len(a) + Len(b))
          /\ \A k \in 1..Len(a) : (a \o b)[k] = a[k]
          /\ \A k \in 1..(Len(a) + Len(b)) : k > Len(a) => (a \o b)[k] = b[k - Len(a)]
      BY <3>1, ConcatFacts, Zenon
    <3> QED
      BY <3>1, <3>2, Zenon
  <2> QED
    BY <2>1, <2>2
<1> HIDE DEF t
<1>7. ASSUME NEW k \in 1..(n - 1)
      PROVE  t[k] = IF k < p THEN s[k] ELSE s[k + 1]
  <2>1. CASE k < p
    <3>1. k \in 1..(p - 1)
      BY <1>5, <2>1
    <3> QED
      BY <1>2, <1>6, <2>1, <3>1
  <2>2. CASE k >= p
    <3>1. k \in Int /\ k >= p /\ k <= n - 1
      BY <1>5, <2>2
    <3>2. /\ k - (p - 1) \in 1..(n - p)
          /\ p + (k - (p - 1)) = k + 1 /\ k > p - 1 /\ ~(k < p)
      BY <1>5, <3>1, Shift
    <3>3. t[k] = b[k - (p - 1)] /\ b[k - (p - 1)] = s[p + (k - (p - 1))]
      BY <1>3, <1>6, <3>2
    <3> QED
      BY <3>2, <3>3
  <2>3. k < p \/ k >= p
    BY <1>5
  <2> QED
    BY <2>1, <2>2, <2>3
<1> QED
  BY <1>1, <1>4, <1>6, <1>7

-----------------------------------------------------------------------------
(* What becomes of the rows *)

DifferById(s) == \A i, j \in DOMAIN s : s[i].id = s[j].id => i = j

\* A row that can be written over, or go.
Loose(row) == row.key # NoKey \/ row.uploaded

Documents(holds) == \A x \in holds : x[2] = 0

\* A row is one of those there were, one of them written over, or new.
Descends(row, id, role, holds) ==
  \/ \E i \in DOMAIN store : row = store[i]
  \/ /\ row.role = role /\ Documents(holds)
     /\ \E i \in DOMAIN store : /\ Loose(store[i]) /\ row.id = store[i].id
                               /\ row.holds \subseteq store[i].holds \cup holds
  \/ row.id = id /\ row.role = role /\ row.holds = holds /\ (Loose(row) => Documents(holds))

\* Rows that are not loose stay, and no id is given twice.
Renewed(id, role, holds) ==
  /\ \E E : store' \in Seq(E)
  /\ \A i \in DOMAIN store : Loose(store[i]) \/ \E j \in DOMAIN store' : store'[j] = store[i]
  /\ \A j \in DOMAIN store' : Descends(store'[j], id, role, holds)
  /\ (DifferById(store) /\ \A i \in DOMAIN store : store[i].id # id) => DifferById(store')

\* A row stored at the end,
LEMMA AppendRenews ==
  ASSUME NEW E, store \in Seq(E), NEW row, Loose(row) => Documents(row.holds), store' = Append(store, row)
  PROVE  Renewed(row.id, row.role, row.holds) /\ row.holds \subseteq Held(store')
<1> DEFINE n == Len(store)
<1>1. n \in Nat /\ DOMAIN store = 1..n /\ DOMAIN store' = 1..(n + 1) /\ store' \in Seq(E \cup {row})
      /\ store'[n + 1] = row /\ \A i \in 1..n : store'[i] = store[i]
  <2>1. store \in Seq(E \cup {row}) /\ row \in E \cup {row}
    OBVIOUS
  <2> QED
    BY <2>1
<1> HIDE DEF n
<1>2. (\A i \in 1..(n + 1) : i = n + 1 \/ i \in 1..n) /\ n + 1 \in 1..(n + 1) /\ \A i \in 1..n : i \in 1..(n + 1) /\ i # n + 1
  BY <1>1
<1>3. \A i \in DOMAIN store : \E j \in DOMAIN store' : store'[j] = store[i]
  BY <1>1, <1>2
<1>4. ASSUME NEW j \in DOMAIN store'
      PROVE  Descends(store'[j], row.id, row.role, row.holds)
  <2>1. CASE j = n + 1
    BY <1>1, <2>1 DEF Descends
  <2>2. CASE j \in 1..n
    BY <1>1, <2>2 DEF Descends
  <2> QED
    BY <1>1, <1>2, <2>1, <2>2
<1>5. ASSUME DifferById(store), \A i \in DOMAIN store : store[i].id # row.id
      PROVE  DifferById(store')
  BY <1>1, <1>2, <1>5 DEF DifferById
<1>6. row.holds \subseteq Held(store')
  BY <1>1, <1>2 DEF Held
<1> QED
  BY <1>1, <1>3, <1>4, <1>5, <1>6 DEF Renewed

\* a row stored between others,
LEMMA InsertRenews ==
  ASSUME NEW E, store \in Seq(E), NEW row, Loose(row) => Documents(row.holds),
         NEW p \in DOMAIN store, store' = InsertAt(store, p, row)
  PROVE  Renewed(row.id, row.role, row.holds)
<1> DEFINE n == Len(store)
           from == [k \in 1..(n + 1) |-> IF k < p THEN k ELSE k - 1]
<1>1. /\ store' \in Seq(E \cup {row})
      /\ DOMAIN store' = 1..(n + 1) /\ n \in Nat /\ DOMAIN store = 1..n
      /\ \A k \in 1..(n + 1) : store'[k] = IF k < p THEN store[k] ELSE IF k = p THEN row ELSE store[k - 1]
  BY InsertFacts
<1> HIDE DEF n
<1>2. p \in 1..n
  BY <1>1
<1>3. \A k \in 1..(n + 1) : k # p => from[k] \in 1..n /\ store'[k] = store[from[k]]
  BY <1>1, <1>2
<1>4. \A i \in 1..n : \E k \in 1..(n + 1) : k # p /\ from[k] = i
  <2> SUFFICES ASSUME NEW i \in 1..n PROVE \E k \in 1..(n + 1) : k # p /\ from[k] = i
    OBVIOUS
  <2>1. CASE i < p
    <3>1. i \in 1..(n + 1) /\ i # p /\ from[i] = i
      BY <1>1, <1>2, <2>1
    <3> QED
      BY <3>1
  <2>2. CASE i >= p
    <3>1. i + 1 \in 1..(n + 1) /\ i + 1 # p /\ from[i + 1] = i
      BY <1>1, <1>2, <2>2
    <3> HIDE DEF from
    <3> QED
      BY <3>1
  <2> QED
    BY <1>1, <1>2, <2>1, <2>2
<1>5. \A k, l \in 1..(n + 1) : (k # p /\ l # p /\ from[k] = from[l]) => k = l
  BY <1>1, <1>2
<1>6. store'[p] = row /\ p \in 1..(n + 1)
  BY <1>1, <1>2
<1> HIDE DEF from
<1>7. ASSUME NEW i \in DOMAIN store
      PROVE  \E j \in DOMAIN store' : store'[j] = store[i]
  <2>1. i \in 1..n
    BY <1>1
  <2>2. PICK k \in 1..(n + 1) : k # p /\ from[k] = i
    BY <1>4, <2>1
  <2>3. store'[k] = store[i] /\ k \in DOMAIN store'
    BY <1>1, <1>3, <2>2
  <2> QED
    BY <2>3
<1>8. ASSUME NEW j \in DOMAIN store'
      PROVE  Descends(store'[j], row.id, row.role, row.holds)
  <2>1. CASE j = p
    BY <1>6, <2>1 DEF Descends
  <2>2. CASE j # p
    BY <1>1, <1>3, <2>2 DEF Descends
  <2> QED
    BY <2>1, <2>2
<1>9. ASSUME DifferById(store), \A i \in DOMAIN store : store[i].id # row.id
      PROVE  DifferById(store')
  <2> SUFFICES ASSUME NEW k \in DOMAIN store', NEW l \in DOMAIN store', store'[k].id = store'[l].id
               PROVE  k = l
    BY DEF DifferById
  <2>1. CASE k # p /\ l # p
    <3>1. store[from[k]].id = store[from[l]].id /\ from[k] \in DOMAIN store /\ from[l] \in DOMAIN store
      BY <1>1, <1>3, <2>1
    <3>2. from[k] = from[l]
      BY <1>9, <3>1 DEF DifferById
    <3> QED
      BY <1>1, <1>5, <2>1, <3>2
  <2>2. CASE k = p /\ l # p
    <3>1. store[from[l]].id = row.id /\ from[l] \in DOMAIN store
      BY <1>1, <1>3, <1>6, <2>2
    <3> QED
      BY <1>9, <3>1
  <2>3. CASE k # p /\ l = p
    <3>1. store[from[k]].id = row.id /\ from[k] \in DOMAIN store
      BY <1>1, <1>3, <1>6, <2>3
    <3> QED
      BY <1>9, <3>1
  <2> QED
    BY <2>1, <2>2, <2>3
<1> QED
  BY <1>1, <1>7, <1>8, <1>9 DEF Renewed

\* a row that is deleted,
LEMMA RemoveRenews ==
  ASSUME NEW E, store \in Seq(E), NEW p \in DOMAIN store, store[p].uploaded, store' = RemoveAt(store, p),
         NEW id, NEW role, NEW holds
  PROVE  Renewed(id, role, holds)
<1> DEFINE n == Len(store)
           from == [k \in 1..(n - 1) |-> IF k < p THEN k ELSE k + 1]
<1>1. /\ store' \in Seq(E)
      /\ DOMAIN store' = 1..(n - 1) /\ n \in Nat /\ DOMAIN store = 1..n
      /\ \A k \in 1..(n - 1) : store'[k] = IF k < p THEN store[k] ELSE store[k + 1]
  BY RemoveFacts
<1> HIDE DEF n
<1>2. p \in 1..n
  BY <1>1
<1>3. \A k \in 1..(n - 1) : from[k] \in 1..n /\ store'[k] = store[from[k]]
  BY <1>1, <1>2
<1>4. \A i \in 1..n : i # p => \E k \in 1..(n - 1) : from[k] = i
  <2> SUFFICES ASSUME NEW i \in 1..n, i # p PROVE \E k \in 1..(n - 1) : from[k] = i
    OBVIOUS
  <2>1. CASE i < p
    <3>1. i \in 1..(n - 1) /\ from[i] = i
      BY <1>1, <1>2, <2>1
    <3> QED
      BY <3>1
  <2>2. CASE i > p
    <3>1. i - 1 \in 1..(n - 1) /\ from[i - 1] = i
      BY <1>1, <1>2, <2>2
    <3> HIDE DEF from
    <3> QED
      BY <3>1
  <2> QED
    BY <1>1, <1>2, <2>1, <2>2
<1>5. \A k, l \in 1..(n - 1) : from[k] = from[l] => k = l
  BY <1>1, <1>2
<1> HIDE DEF from
<1>6. ASSUME NEW i \in DOMAIN store
      PROVE  Loose(store[i]) \/ \E j \in DOMAIN store' : store'[j] = store[i]
  <2>1. CASE i = p
    BY <2>1 DEF Loose
  <2>2. CASE i # p
    <3>1. i \in 1..n
      BY <1>1
    <3>2. PICK k \in 1..(n - 1) : from[k] = i
      BY <1>4, <2>2, <3>1
    <3>3. store'[k] = store[i] /\ k \in DOMAIN store'
      BY <1>1, <1>3, <3>2
    <3> QED
      BY <3>3
  <2> QED
    BY <2>1, <2>2
<1>7. \A j \in DOMAIN store' : Descends(store'[j], id, role, holds)
  BY <1>1, <1>3 DEF Descends
<1>8. DifferById(store) => DifferById(store')
  BY <1>1, <1>3, <1>5 DEF DifferById
<1> QED
  BY <1>1, <1>6, <1>7, <1>8 DEF Renewed

\* and one that is written over.
LEMMA RewriteRenews ==
  ASSUME NEW E, store \in Seq(E), NEW key, key # NoKey, NEW said, NEW holds, NEW uploaded,
         Documents(holds), Rewrite(key, said, holds, uploaded), NEW id
  PROVE  Renewed(id, said.role, holds) /\ holds \subseteq Held(store')
<1> DEFINE new(i) == Rewritten(store[i], said, holds, uploaded)
           F == E \cup {new(i) : i \in DOMAIN store}
<1>1. DOMAIN store' = DOMAIN store /\ \A i \in DOMAIN store : store'[i] = IF i \in Under(key) THEN new(i) ELSE store[i]
  BY DEF Rewrite
<1>2. \A i \in DOMAIN store :
        /\ new(i).id = store[i].id /\ new(i).role = said.role
        /\ new(i).holds \subseteq store[i].holds \cup holds /\ holds \subseteq new(i).holds
  BY DEF Rewritten, Row
<1>3. \A i \in DOMAIN store : i \in Under(key) => Loose(store[i])
  BY DEF Under, Loose
<1>4. Under(key) \subseteq DOMAIN store /\ Under(key) # {}
  BY DEF Under, Rewrite
<1>5. store' \in Seq(F)
  <2>1. Len(store) \in Nat /\ DOMAIN store = 1..Len(store)
    OBVIOUS
  <2>2. PICK n \in Nat : DOMAIN store = 1..n
    BY <2>1
  <2>3. \A i \in 1..n : store[i] \in E
    BY <2>2
  <2>4. PICK g : g = [i \in 1..n |-> IF i \in Under(key) THEN new(i) ELSE store[i]]
    OBVIOUS
  <2>5. store' = g
    BY <2>2, <2>4 DEF Rewrite
  <2>6. \A i \in 1..n : new(i) \in F /\ store[i] \in F
    BY <2>2, <2>3
  <2> HIDE DEF new, F
  <2>7. g \in [1..n -> F]
    BY <2>4, <2>6
  <2> QED
    BY <2>5, <2>7
<1> HIDE DEF new, F
<1>6. \A i \in DOMAIN store : Loose(store[i]) \/ \E j \in DOMAIN store' : store'[j] = store[i]
  BY <1>1, <1>3
<1>7. ASSUME NEW j \in DOMAIN store'
      PROVE  Descends(store'[j], id, said.role, holds)
  <2>1. CASE j \in Under(key)
    BY <1>1, <1>2, <1>3, <2>1 DEF Descends
  <2>2. CASE j \notin Under(key)
    BY <1>1, <2>2 DEF Descends
  <2> QED
    BY <2>1, <2>2
<1>8. \A j \in DOMAIN store : store'[j].id = store[j].id
  BY <1>1, <1>2
<1>9. DifferById(store) => DifferById(store')
  BY <1>1, <1>8 DEF DifferById
<1>10. holds \subseteq Held(store')
  <2>1. PICK i \in Under(key) : i \in DOMAIN store
    BY <1>4
  <2>2. holds \subseteq store'[i].holds /\ i \in DOMAIN store'
    BY <1>1, <1>2, <2>1
  <2> QED
    BY <2>2 DEF Held
<1> QED
  BY <1>5, <1>6, <1>7, <1>9, <1>10 DEF Renewed

-----------------------------------------------------------------------------
(* What an update finds stored *)

\* A part of a turn is held; a message that is a document may have been once.
There(events, gone, part) == part \in Held(events) \/ (part[2] = 0 /\ part \in gone)

ThereFor(job, events, gone) == \A part \in job.parts : There(events, gone, part)

Jobs == [turn : Nat, tries : Nat, parts : SUBSET (Nat \X Nat)]

\* A turn in the background has stored the parts it counts as done, as long as some
\* are to be stored or the update is to be asked for.
StoredSoFar(s) ==
  (s.phase = "background" /\ Duty(s) \in {"write", "update"}) =>
    \A n \in 1..s.part : There(store, lost, Part(s.q, s.turn, n))

UpdateStates(S) ==
  [phase : {"idle", "events", "version"}, job : Jobs \cup {<< >>}, seen : S, lost : S, version : S]

\* What was read of a turn, and what is there of it now.
ReadWhole(u) ==
  u.phase # "idle" =>
    u.job \in Jobs /\ ThereFor(u.job, u.seen, u.lost) /\ ThereFor(u.job, store, lost)

\* Requests in progress are requests, and those in the foreground have stored nothing.
Begun(s) ==
  /\ s.phase # "idle" => s.q \in Requests
  /\ s.phase \in {"loading", "asking", "known"} => s.part = 0

\* E and S are what events, and what stores, losses and versions there are.
Shaped ==
  /\ \E E : store \in Seq(E)
  /\ jobs \in Seq(Jobs)
  /\ \E S : {<< >>, {}, 0} \subseteq S /\ update \in [Workers -> UpdateStates(S)]

\* Rows that can be written over, or go, hold no line and no reply.
LinesStay == \A i \in DOMAIN store : Loose(store[i]) => Documents(store[i].holds)

\* Every turn, every job and every update has the whole of what it is about behind it.
Whole ==
  /\ Shaped /\ LinesStay
  /\ \A r \in Sessions : Begun(session[r]) /\ StoredSoFar(session[r])
  /\ \A k \in DOMAIN jobs : ThereFor(jobs[k], store, lost)
  /\ \A w \in Workers : ReadWhole(update[w])

\* Proceeding changes neither the turn nor what is done of it.
LEMMA ProceedKeepsPart ==
  ASSUME NEW K, NEW s \in SessionStates(K), Proceed(s).phase \in {"background", "loading", "asking", "known"}
  PROVE  /\ Proceed(s).phase = "background" /\ Proceed(s).q = s.q
         /\ Proceed(s).turn = s.turn /\ Proceed(s).part = s.part
         /\ Duty(Proceed(s)) = Duty(s)
<1>1. Proceed(s) = [s EXCEPT !.phase = "background", !.key = << >>, !.age = 0]
  BY DEF Proceed, IdleSession
<1>2. /\ Proceed(s).phase = "background" /\ Proceed(s).q = s.q
      /\ Proceed(s).turn = s.turn /\ Proceed(s).part = s.part
  BY <1>1 DEF SessionStates
<1> QED
  BY <1>2 DEF Duty

\* Nothing is queued, and nothing read, in the beginning.
LEMMA InitWhole == Init => Whole
<1> SUFFICES ASSUME Init PROVE Whole
  OBVIOUS
<1>1. store \in Seq({}) /\ jobs \in Seq(Jobs) /\ DOMAIN store = {} /\ DOMAIN jobs = {}
  BY DEF Init
<1>2. PICK S : S = {<< >>, {}, 0}
  OBVIOUS
<1>3. update \in [Workers -> UpdateStates(S)] /\ {<< >>, {}, 0} \subseteq S
  BY <1>2 DEF Init, NoUpdate, UpdateStates
<1>4. Shaped /\ LinesStay
  BY <1>1, <1>3 DEF Shaped, LinesStay
<1>5. \A r \in Sessions : session[r].phase = "idle"
  BY DEF Init, IdleSession
<1>6. \A w \in Workers : ReadWhole(update[w])
  BY DEF Init, NoUpdate, ReadWhole
<1> QED
  BY <1>1, <1>4, <1>5, <1>6 DEF Whole, Begun, StoredSoFar

\* What was there is there while rows that are not loose stay.
LEMMA ThereLater ==
  ASSUME LinesStay, Lose, NEW id, NEW role, NEW holds, Renewed(id, role, holds),
         NEW part, There(store, lost, part)
  PROVE  There(store', lost', part)
<1>1. lost' = lost \cup (Held(store) \ Held(store'))
  BY DEF Lose
<1>2. CASE part[2] = 0 /\ part \in lost
  BY <1>1, <1>2 DEF There
<1>3. CASE part \in Held(store)
  <2>1. PICK i \in DOMAIN store : part \in store[i].holds
    BY <1>3 DEF Held
  <2>2. CASE Loose(store[i])
    <3>1. part[2] = 0
      BY <2>1, <2>2 DEF LinesStay, Documents
    <3>2. part \in Held(store') \/ part \in lost'
      BY <1>1, <1>3
    <3> QED
      BY <3>1, <3>2 DEF There
  <2>3. CASE ~Loose(store[i])
    <3>1. PICK j \in DOMAIN store' : store'[j] = store[i]
      BY <2>3 DEF Renewed
    <3>2. part \in Held(store')
      BY <2>1, <3>1 DEF Held
    <3> QED
      BY <3>2 DEF There
  <2> QED
    BY <2>2, <2>3
<1> QED
  BY <1>2, <1>3 DEF There

\* What is written over holds documents, before and after.
LEMMA LinesStayLater ==
  ASSUME LinesStay, NEW id, NEW role, NEW holds, Renewed(id, role, holds)
  PROVE  LinesStay'
<1> SUFFICES ASSUME NEW j \in DOMAIN store', Loose(store'[j])
             PROVE  Documents(store'[j].holds)
  BY DEF LinesStay
<1>1. Descends(store'[j], id, role, holds)
  BY DEF Renewed
<1>2. CASE \E i \in DOMAIN store : store'[j] = store[i]
  BY <1>2 DEF LinesStay
<1>3. CASE /\ Documents(holds)
           /\ \E i \in DOMAIN store : Loose(store[i]) /\ store'[j].holds \subseteq store[i].holds \cup holds
  BY <1>3 DEF LinesStay, Documents
<1>4. CASE store'[j].holds = holds /\ Documents(holds)
  BY <1>4
<1> QED
  BY <1>1, <1>2, <1>3, <1>4 DEF Descends

\* A step of one session that leaves the events, the jobs and the updates alone.
LEMMA SessionWhole ==
  ASSUME Whole, DOMAIN session = Sessions, NEW r \in Sessions, NEW s,
         session' = [session EXCEPT ![r] = s], UNCHANGED <<store, lost, jobs, update>>,
         Begun(s), StoredSoFar(s)
  PROVE  Whole'
<1>1. Shaped' /\ LinesStay'
  BY DEF Whole, Shaped, LinesStay
<1>2. ASSUME NEW p \in Sessions
      PROVE  Begun(session'[p]) /\ StoredSoFar(session[p])'
  <2>1. CASE p = r
    BY <2>1 DEF StoredSoFar
  <2>2. CASE p # r
    BY <2>2 DEF StoredSoFar, Whole
  <2> QED
    BY <2>1, <2>2
<1>3. \A k \in DOMAIN jobs' : ThereFor(jobs[k], store, lost)'
  BY DEF Whole
<1>4. \A w \in Workers : ReadWhole(update[w])'
  BY DEF Whole, ReadWhole
<1>5. \A p \in Sessions : Begun(session[p])' /\ StoredSoFar(session[p])'
  BY <1>2 DEF Begun
<1> QED
  BY <1>1, <1>3, <1>4, <1>5 DEF Whole

\* What begins or answers a request, or ends a turn, has nothing stored to answer for.
LEMMA RequestWhole ==
  ASSUME Whole, Recent, NEW r \in Sessions,
         \/ \E q \in Requests : Begin(r, q)
         \/ \E n \in 1..3 : Load(r, n)
         \/ Resolve(r) \/ Retrieve(r) \/ AnswerStatus(r) \/ AnswerTurn(r)
         \/ RequestDigest(r) \/ RequestFails(r) \/ BackgroundFails(r)
  PROVE  Whole'
<1>1. PICK K : << >> \in K /\ session \in [Sessions -> SessionStates(K)]
  BY DEF Recent
<1>3. CASE AnswerStatus(r) \/ RequestDigest(r) \/ RequestFails(r) \/ BackgroundFails(r)
  <2>1. /\ session' = [session EXCEPT ![r] = IdleSession]
        /\ UNCHANGED <<store, lost, jobs, update>>
    BY <1>3 DEF AnswerStatus, RequestDigest, RequestFails, BackgroundFails, data, queues
  <2>2. IdleSession.phase = "idle"
    BY DEF IdleSession
  <2> QED
    BY <1>1, <2>1, <2>2, SessionWhole DEF StoredSoFar, Begun
<1>4. CASE AnswerTurn(r)
  <2>1. /\ session' = [session EXCEPT ![r] = Proceed(session[r])]
        /\ UNCHANGED <<store, lost, jobs, update>>
    BY <1>4 DEF AnswerTurn, data, queues
  <2>2. session[r].part = 0 /\ session[r].q \in Requests /\ session[r].phase = "known"
    BY <1>4 DEF AnswerTurn, Whole, Begun
  <2>3. Proceed(session[r]).phase \in {"idle", "background"}
    BY <1>1 DEF Proceed, IdleSession, SessionStates
  <2>4. Proceed(session[r]).phase = "background" =>
          Proceed(session[r]).part = 0 /\ Proceed(session[r]).q \in Requests
    BY <1>1, <2>2, ProceedKeepsPart
  <2> HIDE DEF Proceed
  <2>5. StoredSoFar(Proceed(session[r])) /\ Begun(Proceed(session[r]))
    BY <2>3, <2>4 DEF StoredSoFar, Begun
  <2> QED
    BY <1>1, <2>1, <2>5, SessionWhole
<1>5. CASE (\E n \in 1..3 : Load(r, n)) \/ Resolve(r) \/ Retrieve(r)
  <2>1. PICK s : /\ session' = [session EXCEPT ![r] = s]
                 /\ s.phase \in {"loading", "asking", "known"}
                 /\ s.q = session[r].q /\ s.part = session[r].part
    BY <1>5, Onward
  <2>2. session[r].phase \in {"loading", "asking"} /\ UNCHANGED <<store, lost, jobs, update>>
    BY <1>5, Onward DEF data, queues
  <2>3. session[r].part = 0 /\ session[r].q \in Requests
    BY <2>2 DEF Whole, Begun
  <2> QED
    BY <1>1, <2>1, <2>2, <2>3, SessionWhole DEF StoredSoFar, Begun
<1>6. ASSUME NEW q \in Requests, Begin(r, q)
      PROVE  Whole'
  <2>1. /\ session' = [session EXCEPT ![r] = Started(q)]
        /\ Started(q).phase = "loading" /\ Started(q).q = q /\ Started(q).part = 0
        /\ UNCHANGED <<store, lost, jobs, update>>
    BY <1>6, Entered DEF data, queues
  <2> QED
    BY <1>1, <2>1, SessionWhole DEF StoredSoFar, Begun
<1> QED
  BY <1>3, <1>4, <1>5, <1>6

\* What a part of a turn is called, and which of them is a document.
LEMMA WriteRenews ==
  ASSUME Whole, Recent, NEW r \in Sessions, Write(r)
  PROVE  LET id == Part(session[r].q, session[r].turn, session[r].part + 1)
         IN  /\ \E role \in {"user", "assistant"} : Renewed(id, role, {id})
             /\ id \in Held(store')
<1> DEFINE s     == session[r]
           q     == s.q
           id    == Part(q, s.turn, s.part + 1)
           last  == s.part + 1 = Parts(q)
           whole == [text |-> <<q.message, 1>>, says |-> UNION ToSet(q.says), role |-> "user"]
           line  == [text |-> <<q.message, s.part + 1>>, says |-> q.says[s.part + 1], role |-> "user"]
           reply == [text |-> NoText, says |-> {}, role |-> "assistant"]
           said  == IF last THEN reply ELSE line
           document == Row(id, "document", DocumentKey(q), FALSE, whole, {id}, FALSE)
           spoken == Row(id, "stream", NoKey, ~Joins(said), said, {id}, FALSE)
<1>1. PICK E : store \in Seq(E)
  BY DEF Whole, Shaped
<1>2. s.phase = "background" /\ Duty(s) = "write" /\ s.part \in Nat
  <2>1. PICK K : << >> \in K /\ session \in [Sessions -> SessionStates(K)]
    BY DEF Recent
  <2>2. s \in SessionStates(K)
    BY <2>1
  <2> QED
    BY <2>2 DEF Write, SessionStates
<1>3. q \in Requests
  BY <1>2 DEF Whole, Begun
<1>4. DocumentKey(q) # NoKey
  BY <1>3, ConstantsAssumption
<1>5. /\ whole.role = "user" /\ said.role \in {"user", "assistant"}
      /\ document.id = id /\ document.role = "user" /\ document.holds = {id}
      /\ spoken.id = id /\ spoken.role = said.role /\ spoken.holds = {id}
      /\ spoken.key = NoKey /\ spoken.uploaded = FALSE
  BY DEF Row
<1>6. \/ /\ TierOf(q) = "documented" /\ ~last
         /\ \/ Rewrite(DocumentKey(q), whole, {id}, FALSE)
            \/ store' = Append(store, document)
      \/ store' = Append(store, spoken)
  BY DEF Write
<1>7. TierOf(q) = "documented" /\ ~last => Documents({id})
  <2> SUFFICES ASSUME TierOf(q) = "documented", ~last PROVE Documents({id})
    OBVIOUS
  <2>1. Parts(q) = 2
    BY DEF Parts
  <2>2. s.part < 2
    BY <1>2, <2>1 DEF Duty
  <2>3. s.part + 1 = 1
    BY <1>2, <2>1, <2>2
  <2>4. id = <<s.turn, 0>>
    BY <2>3 DEF Part
  <2> QED
    BY <2>4 DEF Documents
<1> HIDE DEF s, q, id, last, whole, line, reply, said, document, spoken
<1>8. CASE TierOf(q) = "documented" /\ ~last /\ Rewrite(DocumentKey(q), whole, {id}, FALSE)
  <2>1. Renewed(id, whole.role, {id}) /\ {id} \subseteq Held(store')
    BY <1>1, <1>4, <1>7, <1>8, RewriteRenews
  <2> QED
    BY <1>5, <2>1 DEF id, q, s
<1>9. CASE TierOf(q) = "documented" /\ ~last /\ store' = Append(store, document)
  <2>1. Renewed(document.id, document.role, document.holds) /\ document.holds \subseteq Held(store')
    BY <1>1, <1>5, <1>7, <1>9, AppendRenews
  <2> QED
    BY <1>5, <2>1 DEF id, q, s
<1>10. CASE store' = Append(store, spoken)
  <2>1. ~Loose(spoken)
    BY <1>5 DEF Loose
  <2>2. Renewed(spoken.id, spoken.role, spoken.holds) /\ spoken.holds \subseteq Held(store')
    BY <1>1, <1>10, <2>1, AppendRenews
  <2> QED
    BY <1>5, <2>2 DEF id, q, s
<1> QED
  BY <1>6, <1>8, <1>9, <1>10

\* What comes from elsewhere holds no part of a turn.
LEMMA UploadRenews ==
  ASSUME Whole, NEW h \in Uploads, Upload(h)
  PROVE  \E role \in {"user", "assistant"} : Renewed(<<0, uploads + 1>>, role, {})
<1> DEFINE id == <<0, uploads + 1>>
           row(begins) == Row(id, h.type, h.key, begins, h, {}, TRUE)
<1>1. PICK E : store \in Seq(E)
  BY DEF Whole, Shaped
<1>2. h.role \in {"user", "assistant"} /\ (h.type = "document" => h.key # NoKey)
  BY ConstantsAssumption DEF IsUpload
<1>3. \A begins : row(begins).id = id /\ row(begins).role = h.role /\ row(begins).holds = {}
  BY DEF Row
<1>4. Documents({})
  BY DEF Documents
<1>5. \/ h.type = "document" /\ Rewrite(h.key, h, {}, TRUE)
      \/ \E begins : store' = Append(store, row(begins))
      \/ \E begins : \E p \in DOMAIN store : store' = InsertAt(store, p, row(begins))
  BY DEF Upload
<1> HIDE DEF id, row
<1>6. CASE h.type = "document" /\ Rewrite(h.key, h, {}, TRUE)
  <2>1. Renewed(id, h.role, {})
    BY <1>1, <1>2, <1>4, <1>6, RewriteRenews
  <2> QED
    BY <1>2, <2>1 DEF id
<1>7. CASE \E begins : store' = Append(store, row(begins))
  <2>1. PICK begins : store' = Append(store, row(begins))
    BY <1>7
  <2>2. Renewed(row(begins).id, row(begins).role, row(begins).holds)
    BY <1>1, <1>3, <1>4, <2>1, AppendRenews
  <2> QED
    BY <1>2, <1>3, <2>2 DEF id
<1>8. CASE \E begins : \E p \in DOMAIN store : store' = InsertAt(store, p, row(begins))
  <2>1. PICK begins : \E p \in DOMAIN store : store' = InsertAt(store, p, row(begins))
    BY <1>8
  <2>2. Renewed(row(begins).id, row(begins).role, row(begins).holds)
    BY <1>1, <1>3, <1>4, <2>1, InsertRenews
  <2> QED
    BY <1>2, <1>3, <2>2 DEF id
<1> QED
  BY <1>5, <1>6, <1>7, <1>8

\* What expires was uploaded.
LEMMA ExpireRenews ==
  ASSUME Whole, Expire, NEW id, NEW role, NEW holds
  PROVE  Renewed(id, role, holds)
<1>1. PICK E : store \in Seq(E)
  BY DEF Whole, Shaped
<1>2. PICK p \in DOMAIN store : store[p].uploaded /\ store' = RemoveAt(store, p)
  BY DEF Expire
<1> QED
  BY <1>1, <1>2, RemoveRenews

\* A change of the store that leaves the jobs and the updates alone.
LEMMA StoreWhole ==
  ASSUME Whole, Lose, NEW id, NEW role, NEW holds, Renewed(id, role, holds), UNCHANGED <<jobs, update>>,
         \A p \in Sessions :
           /\ Begun(session'[p])
           /\ session'[p] = session[p] \/ StoredSoFar(session[p])'
  PROVE  Whole'
<1>1. LinesStay /\ LinesStay'
  BY LinesStayLater DEF Whole
<1>2. \A part : There(store, lost, part) => There(store', lost', part)
  BY <1>1, ThereLater
<1>3. Shaped'
  BY DEF Whole, Shaped, Renewed
<1>4. \A k \in DOMAIN jobs' : ThereFor(jobs[k], store, lost)'
  BY <1>2 DEF Whole, ThereFor
<1>5. \A w \in Workers : ReadWhole(update[w])'
  <2> SUFFICES ASSUME NEW w \in Workers PROVE ReadWhole(update[w])'
    OBVIOUS
  <2>1. ReadWhole(update[w])
    BY DEF Whole
  <2> QED
    BY <1>2, <2>1 DEF ReadWhole, ThereFor
<1>6. \A p \in Sessions : Begun(session[p])' /\ StoredSoFar(session[p])'
  <2> SUFFICES ASSUME NEW p \in Sessions PROVE Begun(session[p])' /\ StoredSoFar(session[p])'
    OBVIOUS
  <2>1. Begun(session[p])'
    BY DEF Begun
  <2>2. CASE session'[p] = session[p]
    <3>1. StoredSoFar(session[p])
      BY DEF Whole
    <3> QED
      BY <1>2, <2>1, <2>2, <3>1 DEF StoredSoFar
  <2> QED
    BY <2>1, <2>2
<1> QED
  BY <1>1, <1>3, <1>4, <1>5, <1>6 DEF Whole

\* Writing the next part of a turn holds it.
LEMMA WriteWhole ==
  ASSUME Whole, Recent, NEW r \in Sessions, Write(r)
  PROVE  Whole'
<1> DEFINE s == session[r]
           done == [s EXCEPT !.part = @ + 1]
           id == Part(s.q, s.turn, s.part + 1)
<1>1. PICK K : << >> \in K /\ session \in [Sessions -> SessionStates(K)]
  BY DEF Recent
<1>2. s \in SessionStates(K)
  BY <1>1
<1>3. /\ s.phase = "background" /\ Duty(s) = "write"
      /\ session' = [session EXCEPT ![r] = Proceed(done)]
      /\ Lose /\ UNCHANGED <<jobs, update>>
  BY DEF Write, queues
<1>4. /\ done \in SessionStates(K) /\ done.part = s.part + 1 /\ done.turn = s.turn /\ done.q = s.q
      /\ s.part \in Nat
  <2> HIDE DEF s
  <2> QED
    BY <1>2 DEF SessionStates
<1>5. s.q \in Requests /\ LinesStay /\ \A n \in 1..s.part : There(store, lost, Part(s.q, s.turn, n))
  BY <1>3 DEF Whole, Begun, StoredSoFar
<1>6. PICK role : Renewed(id, role, {id})
  BY WriteRenews
<1>7. There(store', lost', id)
  BY WriteRenews DEF There
<1>8. \A n \in 1..s.part : There(store', lost', Part(s.q, s.turn, n))
  BY <1>3, <1>5, <1>6, ThereLater
<1>9. \A n \in 1..(s.part + 1) : There(store', lost', Part(s.q, s.turn, n))
  <2>1. \A n \in 1..(s.part + 1) : n = s.part + 1 \/ n \in 1..s.part
    BY <1>4
  <2> QED
    BY <1>7, <1>8, <2>1
<1> HIDE DEF s, done, id
<1>10. ASSUME NEW p \in Sessions
       PROVE  Begun(session'[p]) /\ (session'[p] = session[p] \/ StoredSoFar(session[p])')
  <2>1. CASE p = r
    <3>1. session'[p] = Proceed(done)
      BY <1>1, <1>3, <2>1
    <3>2. Proceed(done).phase \in {"idle", "background"}
      BY <1>4 DEF Proceed, IdleSession, SessionStates
    <3>3. Proceed(done).phase = "background" =>
            /\ Proceed(done).turn = s.turn /\ Proceed(done).part = s.part + 1 /\ Proceed(done).q = s.q
      BY <1>4, ProceedKeepsPart
    <3> HIDE DEF Proceed
    <3>4. Begun(session'[p])
      BY <1>5, <3>1, <3>2, <3>3 DEF Begun
    <3>5. StoredSoFar(session[p])'
      BY <1>9, <3>1, <3>3 DEF StoredSoFar
    <3> QED
      BY <3>4, <3>5
  <2>2. CASE p # r
    <3>1. session'[p] = session[p]
      BY <1>1, <1>3, <2>2
    <3>2. Begun(session[p])
      BY DEF Whole
    <3> QED
      BY <3>1, <3>2
  <2> QED
    BY <2>1, <2>2
<1> QED
  BY <1>3, <1>6, <1>10, StoreWhole

\* What is in a sequence with one more element.
LEMMA AppendEach ==
  ASSUME NEW S, NEW s \in Seq(S), NEW e \in S
  PROVE  /\ Append(s, e) \in Seq(S)
         /\ \A k \in DOMAIN Append(s, e) : Append(s, e)[k] = e \/ (k \in DOMAIN s /\ Append(s, e)[k] = s[k])
<1> DEFINE t == Append(s, e)
           n == Len(s)
<1>1. t \in Seq(S) /\ n \in Nat
  OBVIOUS
<1>2. DOMAIN t = 1..(n + 1) /\ DOMAIN s = 1..n
  OBVIOUS
<1>3. t[n + 1] = e /\ \A k \in 1..n : t[k] = s[k]
  OBVIOUS
<1> HIDE DEF t, n
<1>4. \A k \in 1..(n + 1) : k = n + 1 \/ k \in 1..n
  BY <1>1
<1>5. \A k \in DOMAIN t : t[k] = e \/ (k \in DOMAIN s /\ t[k] = s[k])
  <2>1. n \in Nat
    BY <1>1
  <2> QED
    BY <1>2, <1>3, <1>4, <2>1
<1> QED
  BY <1>1, <1>5 DEF t

\* The parts of a turn have two numbers.
LEMMA PartType ==
  ASSUME NEW q, NEW turn \in Nat, NEW n \in Nat
  PROVE  Part(q, turn, n) \in Nat \X Nat /\ Part(q, turn, n)[1] = turn
BY DEF Part

\* The update is queued when every part is stored.
LEMMA RequestUpdateWhole ==
  ASSUME Whole, Recent, NEW r \in Sessions, RequestUpdate(r)
  PROVE  Whole'
<1> DEFINE s == session[r]
           done == [s EXCEPT !.part = @ + 1]
           parts == {Part(s.q, s.turn, n) : n \in 1..Parts(s.q)}
           job == [turn |-> s.turn, tries |-> 0, parts |-> parts]
<1>1. PICK K : << >> \in K /\ session \in [Sessions -> SessionStates(K)]
  BY DEF Recent
<1>2. s \in SessionStates(K)
  BY <1>1
<1>3. /\ s.phase = "background" /\ Duty(s) = "update"
      /\ session' = [session EXCEPT ![r] = Proceed(done)]
      /\ jobs' = Append(jobs, job)
      /\ UNCHANGED <<store, lost, update>>
  BY DEF RequestUpdate, data
<1>4. /\ done \in SessionStates(K) /\ done.part = s.part + 1 /\ done.q = s.q
      /\ s.part \in Nat /\ s.turn \in Nat
  <2> HIDE DEF s
  <2> QED
    BY <1>2 DEF SessionStates
<1>5. s.q \in Requests /\ \A n \in 1..s.part : There(store, lost, Part(s.q, s.turn, n))
  BY <1>3 DEF Whole, Begun, StoredSoFar
<1>6. Parts(s.q) = s.part
  BY <1>3 DEF Duty
<1>7. \A part \in parts : part \in Nat \X Nat /\ There(store, lost, part)
  <2> SUFFICES ASSUME NEW n \in 1..s.part
               PROVE  Part(s.q, s.turn, n) \in Nat \X Nat /\ There(store, lost, Part(s.q, s.turn, n))
    BY <1>6
  <2>1. n \in Nat
    BY <1>4
  <2> QED
    BY <1>4, <1>5, <2>1, PartType
<1> HIDE DEF s, done, parts
<1>8. job \in Jobs /\ ThereFor(job, store, lost)
  <2>1. parts \in SUBSET (Nat \X Nat)
    BY <1>7
  <2>2. job.parts = parts
    OBVIOUS
  <2>3. job \in Jobs
    BY <1>4, <2>1 DEF Jobs
  <2> HIDE DEF job
  <2> QED
    BY <1>7, <2>2, <2>3 DEF ThereFor
<1> HIDE DEF job
<1>9. jobs \in Seq(Jobs)
  BY DEF Whole, Shaped
<1>10. jobs' \in Seq(Jobs) /\ \A k \in DOMAIN jobs' : jobs'[k] = job \/ (k \in DOMAIN jobs /\ jobs'[k] = jobs[k])
  BY <1>3, <1>8, <1>9, AppendEach
<1>11. Shaped' /\ LinesStay'
  BY <1>3, <1>10 DEF Whole, Shaped, LinesStay
<1>12. ASSUME NEW p \in Sessions
       PROVE  Begun(session[p])' /\ StoredSoFar(session[p])'
  <2>1. CASE p = r
    <3>1. session'[p] = Proceed(done)
      BY <1>1, <1>3, <2>1
    <3>2. Proceed(done).phase \in {"idle", "background"}
      BY <1>4 DEF Proceed, IdleSession, SessionStates
    <3>3. Proceed(done).phase = "background" =>
            Proceed(done).q = s.q /\ Duty(Proceed(done)) = Duty(done)
      BY <1>4, ProceedKeepsPart
    <3>4. Duty(done) \notin {"write", "update"}
      BY <1>4, <1>6 DEF Duty
    <3> HIDE DEF Proceed
    <3>5. Begun(session[p])'
      BY <1>5, <3>1, <3>2, <3>3 DEF Begun
    <3>6. StoredSoFar(session[p])'
      BY <3>1, <3>3, <3>4 DEF StoredSoFar
    <3> QED
      BY <3>5, <3>6
  <2>2. CASE p # r
    <3>1. session'[p] = session[p]
      BY <1>1, <1>3, <2>2
    <3>2. Begun(session[p]) /\ StoredSoFar(session[p])
      BY DEF Whole
    <3> QED
      BY <1>3, <3>1, <3>2 DEF StoredSoFar, Begun
  <2> QED
    BY <2>1, <2>2
<1>13. \A k \in DOMAIN jobs' : ThereFor(jobs[k], store, lost)'
  <2> SUFFICES ASSUME NEW k \in DOMAIN jobs' PROVE ThereFor(jobs'[k], store', lost')
    OBVIOUS
  <2>1. ThereFor(jobs'[k], store, lost)
    BY <1>8, <1>10 DEF Whole
  <2> QED
    BY <1>3, <2>1
<1>14. \A w \in Workers : ReadWhole(update[w])'
  BY <1>3 DEF Whole, ReadWhole
<1> QED
  BY <1>11, <1>12, <1>13, <1>14 DEF Whole

\* A step of a worker that leaves the sessions and what they stored alone.
LEMMA WorkerWhole ==
  ASSUME Whole, NEW S, {<< >>, {}, 0} \subseteq S, update \in [Workers -> UpdateStates(S)],
         NEW w \in Workers, NEW u \in UpdateStates(S),
         update' = [update EXCEPT ![w] = u], ReadWhole(u),
         UNCHANGED <<store, lost, session>>,
         jobs' \in Seq(Jobs),
         \A k \in DOMAIN jobs' : ThereFor(jobs'[k], store, lost)
  PROVE  Whole'
<1>1. update' \in [Workers -> UpdateStates(S)]
  OBVIOUS
<1>2. Shaped' /\ LinesStay'
  BY <1>1 DEF Whole, Shaped, LinesStay
<1>3. \A v \in Workers : ReadWhole(update[v])'
  <2> SUFFICES ASSUME NEW v \in Workers PROVE ReadWhole(update[v])'
    OBVIOUS
  <2>1. CASE v = w
    BY <2>1 DEF ReadWhole
  <2>2. CASE v # w
    BY <2>2 DEF ReadWhole, Whole
  <2> QED
    BY <2>1, <2>2
<1>4. \A p \in Sessions : Begun(session[p])' /\ StoredSoFar(session[p])'
  BY DEF Whole, StoredSoFar, Begun
<1>5. \A k \in DOMAIN jobs' : ThereFor(jobs[k], store, lost)'
  OBVIOUS
<1> QED
  BY <1>2, <1>3, <1>4, <1>5 DEF Whole

\* An update reads all there is, and a job that is tried again is the same job.
LEMMA UpdateWhole ==
  ASSUME Whole, NEW w \in Workers, Work(w)
  PROVE  Whole'
<1> DEFINE u == update[w]
<1>1. PICK S : {<< >>, {}, 0} \subseteq S /\ update \in [Workers -> UpdateStates(S)]
  BY DEF Whole, Shaped
<1>2. u \in UpdateStates(S) /\ ReadWhole(u)
  BY <1>1 DEF Whole
<1>3. jobs \in Seq(Jobs) /\ \A k \in DOMAIN jobs : ThereFor(jobs[k], store, lost)
  BY DEF Whole, Shaped
<1>4. NoUpdate \in UpdateStates(S) /\ ReadWhole(NoUpdate)
  BY <1>1 DEF NoUpdate, UpdateStates, ReadWhole
<1>5. CASE UpdateRead(w)
  <2> DEFINE T == S \cup {store, lost}
             v == [NoUpdate EXCEPT !.phase = "events", !.job = Head(jobs), !.seen = store, !.lost = lost]
  <2>1. /\ update' = [update EXCEPT ![w] = v] /\ jobs' = Tail(jobs) /\ jobs # << >>
        /\ UNCHANGED <<store, lost, session>>
    BY <1>5 DEF UpdateRead, data
  <2>2. /\ Head(jobs) \in Jobs /\ Tail(jobs) \in Seq(Jobs) /\ Head(jobs) = jobs[1] /\ 1 \in DOMAIN jobs
        /\ \A k \in DOMAIN Tail(jobs) : k + 1 \in DOMAIN jobs /\ Tail(jobs)[k] = jobs[k + 1]
    BY <1>3, <2>1
  <2>3. S \subseteq T /\ {<< >>, {}, 0} \subseteq T /\ store \in T /\ lost \in T
    BY <1>1
  <2> HIDE DEF T
  <2>4. /\ v \in UpdateStates(T)
        /\ v.phase = "events" /\ v.job = jobs[1] /\ v.seen = store /\ v.lost = lost
    BY <2>2, <2>3 DEF UpdateStates, NoUpdate
  <2>5. update \in [Workers -> UpdateStates(T)]
    BY <1>1, <2>3 DEF UpdateStates
  <2> HIDE DEF v
  <2>6. ReadWhole(v)
    BY <1>3, <2>2, <2>4 DEF ReadWhole
  <2>7. \A k \in DOMAIN jobs' : ThereFor(jobs'[k], store, lost)
    BY <1>3, <2>1, <2>2
  <2> QED
    BY <2>1, <2>2, <2>3, <2>4, <2>5, <2>6, <2>7, WorkerWhole
<1>6. CASE UpdateVersion(w)
  <2> DEFINE T == S \cup {memory.version}
             v == [u EXCEPT !.phase = "version", !.version = memory.version]
  <2>1. /\ update' = [update EXCEPT ![w] = v] /\ u.phase = "events"
        /\ UNCHANGED <<store, lost, session, jobs>>
    BY <1>1, <1>6 DEF UpdateVersion, data, queues
  <2>2. S \subseteq T /\ {<< >>, {}, 0} \subseteq T /\ memory.version \in T
    BY <1>1
  <2> HIDE DEF T
  <2>3. update \in [Workers -> UpdateStates(T)]
    BY <1>1, <2>2 DEF UpdateStates
  <2> HIDE DEF u
  <2>4. /\ v \in UpdateStates(T) /\ v.phase = "version"
        /\ v.job = u.job /\ v.seen = u.seen /\ v.lost = u.lost
    BY <1>2, <2>2 DEF UpdateStates
  <2> HIDE DEF v
  <2>5. ReadWhole(v)
    BY <1>2, <2>1, <2>4 DEF ReadWhole
  <2> QED
    BY <1>3, <2>1, <2>2, <2>3, <2>4, <2>5, WorkerWhole
<1>7. CASE UpdateWrite(w)
  <2>1. /\ update' = [update EXCEPT ![w] = NoUpdate]
        /\ UNCHANGED <<store, lost, session, jobs>>
    BY <1>7 DEF UpdateWrite, queues
  <2> QED
    BY <1>1, <1>3, <1>4, <2>1, WorkerWhole
<1>8. CASE UpdateFails(w)
  <2> DEFINE job == [u.job EXCEPT !.tries = @ + 1]
  <2>1. /\ update' = [update EXCEPT ![w] = NoUpdate] /\ u.phase # "idle"
        /\ jobs' = jobs \/ jobs' = Append(jobs, job)
        /\ UNCHANGED <<store, lost, session>>
    BY <1>8 DEF UpdateFails, data
  <2>2. u.job \in Jobs /\ ThereFor(u.job, store, lost)
    BY <1>2, <2>1 DEF ReadWhole
  <2> HIDE DEF u
  <2>3. job \in Jobs /\ job.parts = u.job.parts
    BY <2>2 DEF Jobs
  <2> HIDE DEF job
  <2>4. ThereFor(job, store, lost)
    BY <2>2, <2>3 DEF ThereFor
  <2>5. CASE jobs' = jobs
    BY <1>1, <1>3, <1>4, <2>1, <2>5, WorkerWhole
  <2>6. CASE jobs' = Append(jobs, job)
    <3>1. /\ jobs' \in Seq(Jobs)
          /\ \A k \in DOMAIN jobs' : jobs'[k] = job \/ (k \in DOMAIN jobs /\ jobs'[k] = jobs[k])
      BY <1>3, <2>3, <2>6, AppendEach
    <3>2. \A k \in DOMAIN jobs' : ThereFor(jobs'[k], store, lost)
      BY <1>3, <2>4, <3>1
    <3> QED
      BY <1>1, <1>4, <2>1, <3>1, <3>2, WorkerWhole
  <2> QED
    BY <2>1, <2>5, <2>6
<1> QED
  BY <1>5, <1>6, <1>7, <1>8 DEF Work

\* Every step keeps it: uploads, digests, ticks and restarts lose no line.
LEMMA NextWhole ==
  ASSUME Whole, Recent, [Next]_vars
  PROVE  Whole'
<1>1. ASSUME UNCHANGED <<store, lost, jobs, update>>,
             session' = session \/ session' = [r \in Sessions |-> IdleSession]
      PROVE  Whole'
  <2>1. Shaped' /\ LinesStay' /\ \A w \in Workers : ReadWhole(update[w])'
    BY <1>1 DEF Whole, Shaped, LinesStay, ReadWhole
  <2>2. \A k \in DOMAIN jobs' : ThereFor(jobs[k], store, lost)'
    BY <1>1 DEF Whole
  <2>3. IdleSession.phase = "idle"
    BY DEF IdleSession
  <2>4. \A r \in Sessions : Begun(session[r])' /\ StoredSoFar(session[r])'
    BY <1>1, <2>3 DEF Whole, StoredSoFar, Begun
  <2> QED
    BY <2>1, <2>2, <2>4 DEF Whole
<1>2. CASE Digest \/ Tick \/ Restart \/ UNCHANGED vars
  <2>1. /\ UNCHANGED <<store, lost, jobs, update>>
        /\ session' = session \/ session' = [r \in Sessions |-> IdleSession]
    BY <1>2 DEF Digest, Tick, Restart, vars, data, queues
  <2> QED
    BY <1>1, <2>1
<1>3. ASSUME NEW id, NEW role, NEW holds, Renewed(id, role, holds), Lose, UNCHANGED <<session, queues, update>>
      PROVE  Whole'
  <2>1. UNCHANGED <<jobs, update>>
    BY <1>3 DEF queues
  <2>2. \A p \in Sessions : Begun(session'[p]) /\ session'[p] = session[p]
    BY <1>3 DEF Whole
  <2> QED
    BY <1>3, <2>1, <2>2, StoreWhole
<1>4. ASSUME NEW h \in Uploads, Upload(h)
      PROVE  Whole'
  <2>1. Lose /\ UNCHANGED <<session, queues, update>>
    BY <1>4 DEF Upload
  <2> QED
    BY <1>3, <1>4, <2>1, UploadRenews
<1>5. CASE Expire
  <2>1. Lose /\ UNCHANGED <<session, queues, update>>
    BY <1>5 DEF Expire
  <2> QED
    BY <1>3, <1>5, <2>1, ExpireRenews
<1> QED
  BY <1>2, <1>4, <1>5, RequestWhole, WriteWhole, RequestUpdateWhole, UpdateWhole DEF Next, Serve

\* However turns and uploads overlap, whatever fails in the background, and however often a
\* job is tried: the update that a turn asks for reads all its lines and the reply, and its
\* document too unless that was written over or has expired.
THEOREM UpdateAlwaysSeesItsTurn == Spec => []UpdateSeesItsTurn
<1>1. Whole => UpdateSeesItsTurn
  BY DEF Whole, ReadWhole, ThereFor, There, UpdateSeesItsTurn
<1> QED
  BY <1>1, InitRecent, NextRecent, InitWhole, NextWhole, PTL DEF Spec

-----------------------------------------------------------------------------
(* Lists *)

\* An array whose positions are the first naturals.
IsList(s) == \E n \in Nat : DOMAIN s = 1..n

\* The size of a list is the number of its positions.
LEMMA ListSize ==
  ASSUME NEW s, NEW n \in Nat, DOMAIN s = 1..n
  PROVE  IsList(s) /\ Size(s) = n
<1>1. Cardinality(1..n) = IF 1 > n THEN 0 ELSE n - 1 + 1
  BY FS_Interval
<1>2. Cardinality(1..n) = n
  BY <1>1
<1> QED
  BY <1>2 DEF IsList, Size

\* What a list's positions are.
LEMMA ListDomain ==
  ASSUME NEW s, IsList(s)
  PROVE  /\ Size(s) \in Nat /\ DOMAIN s = 1..Size(s) /\ DOMAIN s \in SUBSET Nat
         /\ IsFiniteSet(DOMAIN s) /\ Cardinality(DOMAIN s) = Size(s)
<1>1. PICK n \in Nat : DOMAIN s = 1..n
  BY DEF IsList
<1>2. Size(s) = n
  BY <1>1, ListSize
<1> QED
  BY <1>1, <1>2, FS_Interval DEF Size

-----------------------------------------------------------------------------
(* Ranks *)

\* How many positions come before one of them: fewer than there are.
LEMMA RankType ==
  ASSUME NEW I \in SUBSET Nat, IsFiniteSet(I), NEW p \in I
  PROVE  Rank(I, p) \in 0..(Cardinality(I) - 1)
<1> DEFINE before == {q \in I : q < p}
<1>1. before \in SUBSET I /\ p \notin before
  OBVIOUS
<1>2. before # I
  BY <1>1
<1> HIDE DEF before
<1>3. Cardinality(before) \in Nat /\ Cardinality(I) \in Nat /\ Cardinality(before) <= Cardinality(I)
  BY <1>1, FS_Subset, FS_CardinalityType
<1>4. Cardinality(before) # Cardinality(I)
  BY <1>1, <1>2, FS_Subset
<1> QED
  BY <1>3, <1>4 DEF Rank, before

\* A later position has a higher rank.
LEMMA RankOrder ==
  ASSUME NEW I \in SUBSET Nat, IsFiniteSet(I), NEW p \in I, NEW q \in I, p < q
  PROVE  Rank(I, p) < Rank(I, q)
<1> DEFINE below(r) == {x \in I : x < r}
<1>1. below(p) \in SUBSET below(q) /\ p \in below(q) /\ p \notin below(p)
  <2>1. p \in Nat /\ q \in Nat /\ \A x \in I : x \in Nat
    OBVIOUS
  <2>2. (\A x \in I : x < p => x < q) /\ ~(p < p)
    BY <2>1
  <2>3. below(p) \subseteq below(q)
    BY <2>2
  <2> QED
    BY <2>2, <2>3
<1>2. below(p) # below(q)
  BY <1>1
<1>3. IsFiniteSet(below(q)) /\ IsFiniteSet(below(p))
  BY FS_Subset
<1> HIDE DEF below
<1>4. /\ Cardinality(below(p)) \in Nat /\ Cardinality(below(q)) \in Nat
      /\ Cardinality(below(p)) <= Cardinality(below(q))
  BY <1>1, <1>3, FS_Subset, FS_CardinalityType
<1>5. Cardinality(below(p)) # Cardinality(below(q))
  BY <1>1, <1>2, <1>3, FS_Subset
<1> QED
  BY <1>4, <1>5 DEF Rank, below

\* Two positions have two ranks.
LEMMA RankInjective ==
  ASSUME NEW I \in SUBSET Nat, IsFiniteSet(I), NEW p \in I, NEW q \in I, Rank(I, p) = Rank(I, q)
  PROVE  p = q
<1>1. Rank(I, p) \in Nat /\ Rank(I, q) \in Nat
  BY RankType
<1>2. ~(p < q) /\ ~(q < p)
  BY <1>1, RankOrder
<1> QED
  BY <1>2

\* Every rank below the number of positions is the rank of one.
LEMMA RankOnto ==
  ASSUME NEW I \in SUBSET Nat, IsFiniteSet(I)
  PROVE  /\ [p \in I |-> Rank(I, p)] \in Bijection(I, 0..(Cardinality(I) - 1))
         /\ \A n \in 0..(Cardinality(I) - 1) : \E p \in I : Rank(I, p) = n
<1> DEFINE R == [p \in I |-> Rank(I, p)]
           T == 0..(Cardinality(I) - 1)
<1>1. Cardinality(I) \in Nat
  BY FS_CardinalityType
<1>2. IsFiniteSet(T) /\ Cardinality(T) = Cardinality(I)
  <2> DEFINE m == Cardinality(I) - 1
  <2>1. m \in Int /\ (0 > m => Cardinality(I) = 0) /\ (~(0 > m) => m - 0 + 1 = Cardinality(I))
    BY <1>1
  <2> HIDE DEF m
  <2>2. IsFiniteSet(0..m) /\ Cardinality(0..m) = IF 0 > m THEN 0 ELSE m - 0 + 1
    BY <2>1, FS_Interval
  <2> QED
    BY <2>1, <2>2 DEF m
<1>3. R \in Injection(I, T)
  <2>1. R \in [I -> T]
    BY RankType
  <2>2. \A p, q \in I : R[p] = R[q] => p = q
    BY RankInjective
  <2> QED
    BY <2>1, <2>2 DEF Injection, IsInjective
<1>4. R \in Surjection(I, T)
  BY <1>2, <1>3, FS_Injection
<1> QED
  BY <1>3, <1>4 DEF Bijection, Surjection

-----------------------------------------------------------------------------
(* filter() and splice() of a list *)

\* What is filtered is a list of as many elements as positions were given; the element
\* at a position of the list goes where its rank says.
LEMMA FilterList ==
  ASSUME NEW s, IsList(s), NEW I \in SUBSET DOMAIN s
  PROVE  /\ IsList(Filter(s, I)) /\ Size(Filter(s, I)) = Cardinality(I)
         /\ DOMAIN Filter(s, I) = 1..Cardinality(I)
         /\ \A p \in I : /\ Rank(I, p) + 1 \in DOMAIN Filter(s, I)
                         /\ Filter(s, I)[Rank(I, p) + 1] = s[p]
         /\ \A k \in DOMAIN Filter(s, I) : \E p \in I : k = Rank(I, p) + 1 /\ Filter(s, I)[k] = s[p]
<1> DEFINE D == {Rank(I, p) + 1 : p \in I}
           at(k) == CHOOSE p \in I : Rank(I, p) + 1 = k
<1>0. I \in SUBSET Nat /\ IsFiniteSet(I) /\ Cardinality(I) \in Nat
  BY ListDomain, FS_Subset, FS_CardinalityType
<1>1. \A p \in I : Rank(I, p) \in 0..(Cardinality(I) - 1)
  BY <1>0, RankType
<1>2. D = 1..Cardinality(I)
  <2>1. \A k \in 1..Cardinality(I) : \E p \in I : k = Rank(I, p) + 1
    <3> SUFFICES ASSUME NEW k \in 1..Cardinality(I)
                 PROVE  \E p \in I : k = Rank(I, p) + 1
      OBVIOUS
    <3>1. k - 1 \in 0..(Cardinality(I) - 1)
      BY <1>0
    <3>2. PICK p \in I : Rank(I, p) = k - 1
      BY <1>0, <3>1, RankOnto
    <3> QED
      BY <3>2
  <2>2. \A p \in I : Rank(I, p) + 1 \in 1..Cardinality(I)
    BY <1>0, <1>1
  <2> QED
    BY <2>1, <2>2
<1>3. ASSUME NEW p \in I
      PROVE  at(Rank(I, p) + 1) = p
  <2>1. \A q \in I : Rank(I, q) + 1 = Rank(I, p) + 1 => q = p
    <3> SUFFICES ASSUME NEW q \in I, Rank(I, q) + 1 = Rank(I, p) + 1
                 PROVE  q = p
      OBVIOUS
    <3>1. Rank(I, q) = Rank(I, p)
      BY <1>1
    <3> QED
      BY <1>0, <3>1, RankInjective
  <2> QED
    BY <2>1
<1>4. Filter(s, I) = [k \in D |-> s[at(k)]]
  BY DEF Filter
<1> HIDE DEF at
<1>5. DOMAIN Filter(s, I) = 1..Cardinality(I)
  BY <1>2, <1>4
<1>6. \A p \in I : Rank(I, p) + 1 \in DOMAIN Filter(s, I) /\ Filter(s, I)[Rank(I, p) + 1] = s[p]
  BY <1>3, <1>4
<1>7. \A k \in DOMAIN Filter(s, I) : \E p \in I : k = Rank(I, p) + 1
  BY <1>4
<1> QED
  BY <1>0, <1>5, <1>6, <1>7, ListSize

\* concat() puts the second list behind the first.
LEMMA ConcatList ==
  ASSUME NEW s, IsList(s), NEW t, IsList(t)
  PROVE  /\ IsList(Concat(s, t)) /\ Size(Concat(s, t)) = Size(s) + Size(t)
         /\ DOMAIN s \subseteq DOMAIN Concat(s, t) /\ \A i \in DOMAIN s : Concat(s, t)[i] = s[i]
         /\ \A j \in DOMAIN t : /\ Size(s) + j \in DOMAIN Concat(s, t) \ DOMAIN s
                                /\ Concat(s, t)[Size(s) + j] = t[j]
         /\ \A i \in DOMAIN Concat(s, t) : i \in DOMAIN s \/ \E j \in DOMAIN t : i = Size(s) + j
<1>1. /\ Size(s) \in Nat /\ DOMAIN s = 1..Size(s)
      /\ Size(t) \in Nat /\ DOMAIN t = 1..Size(t)
  BY ListDomain
<1> DEFINE D == DOMAIN s \cup {Size(s) + j : j \in DOMAIN t}
           of(i) == CHOOSE j \in DOMAIN t : i = Size(s) + j
<1>2. Concat(s, t) = [i \in D |-> IF i \in DOMAIN s THEN s[i] ELSE t[of(i)]]
  BY DEF Concat
<1>3. \A j \in DOMAIN t : of(Size(s) + j) = j /\ Size(s) + j \notin DOMAIN s
  BY <1>1
<1> HIDE DEF of
<1>4. D = 1..(Size(s) + Size(t)) /\ Size(s) + Size(t) \in Nat
  <2>1. \A i \in 1..(Size(s) + Size(t)) : i \notin 1..Size(s) => i - Size(s) \in 1..Size(t) /\ i = Size(s) + (i - Size(s))
    BY <1>1
  <2> QED
    BY <1>1, <2>1
<1>5. DOMAIN Concat(s, t) = 1..(Size(s) + Size(t))
  BY <1>2, <1>4
<1>6. IsList(Concat(s, t)) /\ Size(Concat(s, t)) = Size(s) + Size(t)
  BY <1>4, <1>5, ListSize
<1>7. DOMAIN s \subseteq DOMAIN Concat(s, t) /\ \A i \in DOMAIN s : Concat(s, t)[i] = s[i]
  BY <1>2
<1>8. \A j \in DOMAIN t : Size(s) + j \in DOMAIN Concat(s, t) \ DOMAIN s /\ Concat(s, t)[Size(s) + j] = t[j]
  BY <1>2, <1>3
<1>9. \A i \in DOMAIN Concat(s, t) : i \in DOMAIN s \/ \E j \in DOMAIN t : i = Size(s) + j
  BY <1>2
<1> QED
  BY <1>6, <1>7, <1>8, <1>9

-----------------------------------------------------------------------------
(* Selections *)

\* A list whose elements are elements of s, in the order they have there.
InOrder(s, t) ==
  /\ IsList(t)
  /\ \A p \in DOMAIN t : \E i \in DOMAIN s : t[p] = s[i]
  /\ \A p, q \in DOMAIN t, i, j \in DOMAIN s : (t[p] = s[i] /\ t[q] = s[j] /\ p < q) => i < j

Differ(s) == \A i, j \in DOMAIN s : s[i] = s[j] => i = j

\* What is filtered of a list is in its order, and ends with the last that is kept.
LEMMA FilterInOrder ==
  ASSUME NEW s, NEW t, InOrder(s, t), NEW I \in SUBSET DOMAIN t
  PROVE  InOrder(s, Filter(t, I)) /\ Values(Filter(t, I)) = {t[p] : p \in I}
<1> DEFINE u == Filter(t, I)
<1>0. I \in SUBSET Nat /\ IsFiniteSet(I) /\ IsList(t)
  BY ListDomain, FS_Subset DEF InOrder
<1>1. /\ IsList(u)
      /\ \A p \in I : Rank(I, p) + 1 \in DOMAIN u /\ u[Rank(I, p) + 1] = t[p]
      /\ \A k \in DOMAIN u : \E p \in I : k = Rank(I, p) + 1 /\ u[k] = t[p]
  BY <1>0, FilterList
<1> HIDE DEF u
<1>2. Values(u) = {t[p] : p \in I}
  BY <1>1 DEF Values
<1>3. \A k \in DOMAIN u : \E i \in DOMAIN s : u[k] = s[i]
  BY <1>1 DEF InOrder
<1>4. ASSUME NEW k \in DOMAIN u, NEW l \in DOMAIN u, k < l, NEW i \in DOMAIN s, NEW j \in DOMAIN s,
             u[k] = s[i], u[l] = s[j]
      PROVE  i < j
  <2>1. PICK p \in I : k = Rank(I, p) + 1 /\ u[k] = t[p]
    BY <1>1
  <2>2. PICK q \in I : l = Rank(I, q) + 1 /\ u[l] = t[q]
    BY <1>1
  <2>3. Rank(I, p) \in Nat /\ Rank(I, q) \in Nat
    BY <1>0, RankType
  <2>4. ~(q < p) /\ p # q
    BY <1>0, <1>4, <2>1, <2>2, <2>3, RankOrder
  <2>5. p < q /\ p \in DOMAIN t /\ q \in DOMAIN t
    BY <1>0, <2>4
  <2> QED
    BY <1>4, <2>1, <2>2, <2>5 DEF InOrder
<1> QED
  BY <1>1, <1>2, <1>3, <1>4 DEF InOrder, u

\* The last of a selection is the newest in it.
LEMMA EndIsNewest ==
  ASSUME NEW s, Differ(s), DOMAIN s \subseteq Nat, NEW t, InOrder(s, t), Values(t) # {}
  PROVE  /\ AtEnd(t) \in Values(t)
         /\ \A i, m \in DOMAIN s : (AtEnd(t) = s[m] /\ s[i] \in Values(t)) => i <= m
<1>1. Size(t) \in Nat /\ DOMAIN t = 1..Size(t)
  BY ListDomain DEF InOrder
<1>2. Size(t) \in DOMAIN t /\ \A p \in DOMAIN t : p < Size(t) \/ p = Size(t)
  BY <1>1 DEF Values
<1>3. ASSUME NEW i \in DOMAIN s, NEW m \in DOMAIN s, AtEnd(t) = s[m], s[i] \in Values(t)
      PROVE  i <= m
  <2>1. PICK p \in DOMAIN t : t[p] = s[i]
    BY <1>3 DEF Values
  <2>2. CASE p < Size(t)
    <3>1. i < m
      BY <1>2, <1>3, <2>1, <2>2 DEF InOrder, AtEnd
    <3> QED
      BY <3>1
  <2>3. CASE p = Size(t)
    <3>1. i = m
      BY <1>3, <2>1, <2>3 DEF Differ, AtEnd
    <3> QED
      BY <3>1
  <2> QED
    BY <1>2, <2>2, <2>3
<1> QED
  BY <1>2, <1>3 DEF AtEnd, Values

\* slice(-n) of a selection: what is newer than something in it, it has too.
LEMMA LatestInOrder ==
  ASSUME NEW s, Differ(s), DOMAIN s \subseteq Nat, NEW t, InOrder(s, t), NEW n \in Nat \ {0}
  PROVE  /\ InOrder(s, Latest(t, n)) /\ Values(Latest(t, n)) \subseteq Values(t)
         /\ Values(t) # {} => AtEnd(t) \in Values(Latest(t, n))
         /\ \A i, j \in DOMAIN s :
              (i <= j /\ s[i] \in Values(Latest(t, n)) /\ s[j] \in Values(t)) => s[j] \in Values(Latest(t, n))
<1> DEFINE I == {p \in DOMAIN t : p > Size(t) - n}
<1>1. Size(t) \in Nat /\ DOMAIN t = 1..Size(t)
  BY ListDomain DEF InOrder
<1>2. InOrder(s, Latest(t, n)) /\ Values(Latest(t, n)) = {t[p] : p \in I}
  BY FilterInOrder DEF Latest
<1>3. Values(t) # {} => Size(t) \in I
  BY <1>1 DEF Values
<1>4. ASSUME NEW i \in DOMAIN s, NEW j \in DOMAIN s, i <= j, NEW p \in I, s[i] = t[p], s[j] \in Values(t)
      PROVE  \E q \in I : s[j] = t[q]
  <2>1. PICK q \in DOMAIN t : t[q] = s[j]
    BY <1>4 DEF Values
  <2>2. ~(q < p)
    <3> SUFFICES ASSUME q < p PROVE FALSE
      OBVIOUS
    <3>1. j < i
      BY <1>4, <2>1 DEF InOrder
    <3> QED
      BY <1>4, <3>1
  <2>3. q \in I
    BY <1>1, <2>2
  <2> QED
    BY <2>1, <2>3
<1>5. {t[p] : p \in I} \subseteq Values(t)
  BY DEF Values
<1> QED
  BY <1>2, <1>3, <1>4, <1>5 DEF AtEnd

\* concat() of a selection and a newer one.
LEMMA ConcatInOrder ==
  ASSUME NEW s, NEW t, InOrder(s, t), NEW u, InOrder(s, u),
         \A i, j \in DOMAIN s : (s[i] \in Values(t) /\ s[j] \in Values(u)) => i < j
  PROVE  InOrder(s, Concat(t, u)) /\ Values(Concat(t, u)) = Values(t) \cup Values(u)
<1> DEFINE c == Concat(t, u)
<1>1. /\ Size(t) \in Nat /\ DOMAIN t = 1..Size(t)
      /\ Size(u) \in Nat /\ DOMAIN u = 1..Size(u)
  BY ListDomain DEF InOrder
<1>2. /\ IsList(c) /\ Size(c) = Size(t) + Size(u)
      /\ \A i \in DOMAIN t : i \in DOMAIN c /\ c[i] = t[i]
      /\ \A j \in DOMAIN u : Size(t) + j \in DOMAIN c /\ c[Size(t) + j] = u[j]
      /\ \A i \in DOMAIN c : i \in DOMAIN t \/ \E j \in DOMAIN u : i = Size(t) + j
  BY ConcatList DEF InOrder
<1> HIDE DEF c
<1>3. Values(c) = Values(t) \cup Values(u)
  BY <1>2 DEF Values
<1>4. \A k \in DOMAIN c : \E i \in DOMAIN s : c[k] = s[i]
  BY <1>2 DEF InOrder
<1>5. ASSUME NEW p \in DOMAIN c, NEW q \in DOMAIN c, p < q, NEW i \in DOMAIN s, NEW j \in DOMAIN s,
             c[p] = s[i], c[q] = s[j]
      PROVE  i < j
  <2>1. CASE p \in DOMAIN t /\ q \in DOMAIN t
    BY <1>2, <1>5, <2>1 DEF InOrder
  <2>2. CASE p \in DOMAIN t /\ q \notin DOMAIN t
    <3>1. s[i] \in Values(t) /\ s[j] \in Values(u)
      BY <1>2, <1>5, <2>2 DEF Values
    <3> QED
      BY <3>1
  <2>3. CASE p \notin DOMAIN t
    <3>1. PICK k \in DOMAIN u : p = Size(t) + k /\ c[p] = u[k]
      BY <1>2, <2>3
    <3>2. q \notin DOMAIN t
      BY <1>1, <1>5, <3>1
    <3>3. PICK l \in DOMAIN u : q = Size(t) + l /\ c[q] = u[l]
      BY <1>2, <3>2
    <3>4. k < l
      BY <1>1, <1>5, <3>1, <3>3
    <3> QED
      BY <1>5, <3>1, <3>3, <3>4 DEF InOrder
  <2> QED
    BY <2>1, <2>2, <2>3
<1> QED
  BY <1>2, <1>3, <1>4, <1>5 DEF InOrder, c

\* What is selected of a list of events: those of the user only, and the newest of
\* them that states a goal.
LEMMA SelectedWell ==
  ASSUME NEW s, IsList(s), Differ(s)
  PROVE  LET sel == Selected(s)
             heard(i) == i \in DOMAIN s /\ s[i].role = "user"
         IN  /\ InOrder(s, sel)
             /\ \A i \in DOMAIN s : s[i] \in Values(sel) => heard(i)
             /\ \A i \in DOMAIN s : heard(i) /\ "goal" \in s[i].says =>
                  \E j \in DOMAIN s : heard(j) /\ i <= j /\ "goal" \in s[j].says /\ s[j] \in Values(sel)
<1> DEFINE mine == Mine(s)
           goals == Saying(mine, "goal")
           recent == Latest(mine, MaxRecentTurns)
           goal == Latest(goals, 1)
           sel == Selected(s)
           heard(i) == i \in DOMAIN s /\ s[i].role = "user"
<1>0. DOMAIN s \subseteq Nat /\ MaxRecentTurns \in Nat \ {0} /\ 1 \in Nat \ {0}
  BY ListDomain, WorkingMemoryAssumption
<1>1. InOrder(s, s)
  BY DEF InOrder, Differ
<1>4. InOrder(s, mine) /\ Values(mine) = {s[p] : p \in {p \in DOMAIN s : s[p].role = "user"}}
  BY <1>1, FilterInOrder DEF Mine
<1>5. \A i \in DOMAIN s : s[i] \in Values(mine) <=> heard(i)
  BY <1>4
<1> HIDE DEF mine
<1>6. InOrder(s, goals) /\ Values(goals) = {mine[p] : p \in {p \in DOMAIN mine : "goal" \in mine[p].says}}
  BY <1>4, FilterInOrder DEF Saying
<1>7. \A i \in DOMAIN s : s[i] \in Values(goals) <=> heard(i) /\ "goal" \in s[i].says
  BY <1>5, <1>6 DEF Values
<1> HIDE DEF goals
<1>8. /\ InOrder(s, recent) /\ Values(recent) \subseteq Values(mine)
      /\ Values(mine) # {} => AtEnd(mine) \in Values(recent)
      /\ \A i, j \in DOMAIN s :
           (i <= j /\ s[i] \in Values(recent) /\ s[j] \in Values(mine)) => s[j] \in Values(recent)
  BY <1>0, <1>4, LatestInOrder
<1>9. /\ InOrder(s, goal) /\ Values(goal) \subseteq Values(goals)
      /\ Values(goals) # {} => AtEnd(goals) \in Values(goal)
      /\ \A i, j \in DOMAIN s :
           (i <= j /\ s[i] \in Values(goal) /\ s[j] \in Values(goals)) => s[j] \in Values(goal)
  BY <1>0, <1>6, LatestInOrder
<1>10. \A v, w \in Values(goal) : v = w
  <2>1. Size(goals) \in Nat /\ DOMAIN goals = 1..Size(goals)
    BY <1>6, ListDomain DEF InOrder
  <2>2. Values(goal) = {goals[p] : p \in {p \in DOMAIN goals : p > Size(goals) - 1}}
    BY <1>6, FilterInOrder DEF Latest
  <2>3. \A p \in DOMAIN goals : p > Size(goals) - 1 => p = Size(goals)
    BY <2>1
  <2> QED
    BY <2>2, <2>3
<1>11. sel = IF Values(goal) \subseteq Values(recent) THEN recent ELSE Concat(goal, recent)
  BY DEF Selected, recent, goal, goals, mine
<1> HIDE DEF recent, goal, sel
<1>12. InOrder(s, sel) /\ Values(sel) = Values(goal) \cup Values(recent)
  <2>1. CASE Values(goal) \subseteq Values(recent)
    BY <1>8, <1>11, <2>1
  <2>2. CASE ~(Values(goal) \subseteq Values(recent))
    <3>1. ASSUME NEW i \in DOMAIN s, NEW j \in DOMAIN s, s[i] \in Values(goal), s[j] \in Values(recent)
          PROVE  i < j
      <4>1. s[i] \notin Values(recent)
        BY <1>10, <2>2, <3>1
      <4>2. s[i] \in Values(mine)
        BY <1>5, <1>7, <1>9, <3>1
      <4>3. ~(j <= i)
        BY <1>8, <3>1, <4>1, <4>2
      <4> QED
        BY <1>0, <4>3
    <3> QED
      BY <1>8, <1>9, <1>11, <2>2, <3>1, ConcatInOrder
  <2> QED
    BY <2>1, <2>2
<1>13. \A i \in DOMAIN s : s[i] \in Values(sel) => heard(i)
  BY <1>5, <1>7, <1>8, <1>9, <1>12
<1>15. ASSUME NEW i \in DOMAIN s, heard(i), "goal" \in s[i].says
       PROVE  \E j \in DOMAIN s : heard(j) /\ i <= j /\ "goal" \in s[j].says /\ s[j] \in Values(sel)
  <2>1. s[i] \in Values(goals)
    BY <1>7, <1>15
  <2>2. AtEnd(goals) \in Values(goal)
    BY <1>9, <2>1
  <2>3. PICK j \in DOMAIN s : AtEnd(goals) = s[j]
    BY <1>9, <2>2 DEF InOrder, Values
  <2>4. i <= j
    BY <1>0, <1>6, <2>1, <2>3, EndIsNewest
  <2> QED
    BY <1>7, <1>9, <1>12, <2>2, <2>3, <2>4
<1> QED
  BY <1>12, <1>13, <1>15 DEF sel

\* A model keeps the goal or states its own.
LEMMA RefinedGoal ==
  ASSUME NEW sel, NEW base, NEW state \in Refinements(sel, base)
  PROVE  state.goal \in {base.goal} \cup ({p.goal : p \in Patches} \ {NoText})
<1>1. CASE state = base
  BY <1>1
<1>2. CASE \E p \in Patches : state = Merged(base, p)
  BY <1>2 DEF Merged, Or
<1> QED
  BY <1>1, <1>2 DEF Refinements

\* What an update makes of the events it takes has the goal that was stated last in them.
LEMMA GoalKept ==
  ASSUME NEW s, IsList(s), Differ(s), NEW sel, sel = Selected(s),
         NEW state \in Refinements(sel, Extracted(sel)),
         NEW i \in DOMAIN s, s[i].role = "user", "goal" \in s[i].says,
         \A j \in DOMAIN s : (s[j].role = "user" /\ "goal" \in s[j].says) => j <= i
  PROVE  state.goal \in {s[i].text} \cup ({p.goal : p \in Patches} \ {NoText})
<1> DEFINE heard(k) == k \in DOMAIN s /\ s[k].role = "user"
           goals == Saying(sel, "goal")
<1>0. DOMAIN s \subseteq Nat
  BY ListDomain
<1>2. /\ InOrder(s, sel)
      /\ \A k \in DOMAIN s : s[k] \in Values(sel) => heard(k)
      /\ \A k \in DOMAIN s : heard(k) /\ "goal" \in s[k].says =>
           \E j \in DOMAIN s : heard(j) /\ k <= j /\ "goal" \in s[j].says /\ s[j] \in Values(sel)
  BY SelectedWell
<1>8. s[i] \in Values(sel)
  <2>1. PICK j \in DOMAIN s : heard(j) /\ i <= j /\ "goal" \in s[j].says /\ s[j] \in Values(sel)
    BY <1>2
  <2>2. j <= i
    BY <2>1
  <2>3. i = j
    BY <1>0, <2>1, <2>2
  <2> QED
    BY <2>1, <2>3
<1>9. InOrder(s, goals) /\ Values(goals) = {sel[p] : p \in {p \in DOMAIN sel : "goal" \in sel[p].says}}
  BY <1>2, FilterInOrder DEF Saying
<1> HIDE DEF goals
<1>10. s[i] \in Values(goals) /\ \A k \in DOMAIN s : s[k] \in Values(goals) => s[k] \in Values(sel) /\ "goal" \in s[k].says
  BY <1>8, <1>9 DEF Values
<1>11. AtEnd(goals) = s[i]
  <2>1. AtEnd(goals) \in Values(goals)
    BY <1>0, <1>9, <1>10, EndIsNewest
  <2>2. PICK k \in DOMAIN s : AtEnd(goals) = s[k]
    BY <1>9, <2>1 DEF InOrder, Values
  <2>3. i <= k
    BY <1>0, <1>9, <1>10, <2>2, EndIsNewest
  <2>4. k <= i
    BY <1>2, <1>10, <2>1, <2>2
  <2>5. i = k
    BY <1>0, <2>3, <2>4
  <2> QED
    BY <2>2, <2>5
<1>12. goals # << >>
  BY <1>10 DEF Values
<1>13. Extracted(sel).goal = s[i].text
  BY <1>11, <1>12 DEF Extracted, goals
<1> QED
  BY <1>13, RefinedGoal

-----------------------------------------------------------------------------
(* Whose an event is *)

Busy(r) == session[r].phase # "idle"

\* A message that is a document is the first of its turn's events.
Place(part) == IF part = 0 THEN 1 ELSE part

\* An event was uploaded, or is of a turn that has begun, and not of a part a session
\* has yet to write.
Stems(e, begun, sessions, uploaded) ==
  /\ e.role \in {"user", "assistant"}
  /\ \/ \E n \in 1..uploaded : e.id = <<0, n>>
     \/ \E t \in 1..begun, part \in Nat :
          /\ e.id = <<t, part>>
          /\ \A r \in Sessions :
               (sessions[r].phase # "idle" /\ sessions[r].turn = t) => Place(part) <= sessions[r].part

\* Turns in progress have numbers of their own.
Numbered ==
  /\ \A r \in Sessions : Busy(r) =>
       /\ session[r].turn <= turns
       /\ session[r].q.turn \/ session[r].phase = "background" => session[r].turn # 0
  /\ \A p, r \in Sessions : (p # r /\ Busy(p) /\ Busy(r) /\ session[p].turn = session[r].turn) => session[r].turn = 0

\* No two events have one id, now or when they were read.
Own ==
  /\ Numbered
  /\ \A i \in DOMAIN store : Stems(store[i], turns, session, uploads) /\ store[i].holds \subseteq (1..turns) \X Nat
  /\ DifferById(store)
  /\ lost \subseteq (1..turns) \X {0}
  /\ \A w \in Workers : update[w].phase # "idle" => IsList(update[w].seen) /\ DifferById(update[w].seen)

\* A session that goes on with its turn, or ends, leaves numbers and ids as they are.
LEMMA SessionNumbered ==
  ASSUME Numbered, Recent, NEW r \in Sessions, NEW u, session' = [session EXCEPT ![r] = u], turns' = turns,
         u.phase = "idle" \/
           (/\ Busy(r) /\ u.turn = session[r].turn /\ u.q = session[r].q
            /\ u.part \in Nat /\ session[r].part <= u.part
            /\ u.phase = "background" => session[r].turn # 0)
  PROVE  /\ Numbered'
         /\ \A e : Stems(e, turns, session, uploads) => Stems(e, turns', session', uploads)
<1>1. PICK K : << >> \in K /\ session \in [Sessions -> SessionStates(K)]
  BY DEF Recent
<1>2. turns \in Nat /\ \A p \in Sessions : session[p].turn \in Nat /\ session[p].part \in Nat
  BY <1>1 DEF Recent, SessionStates
<1>3. session'[r] = u /\ \A p \in Sessions \ {r} : session'[p] = session[p]
  BY <1>1
<1>4. \A p \in Sessions : Busy(p)' => Busy(p) /\ session'[p].turn = session[p].turn /\ session'[p].q = session[p].q
                                      /\ session[p].part <= session'[p].part /\ session'[p].part \in Nat
  BY <1>2, <1>3 DEF Busy
<1>5. \A p \in Sessions : Busy(p)' =>
        /\ session'[p].turn <= turns
        /\ session'[p].q.turn \/ session'[p].phase = "background" => session'[p].turn # 0
  BY <1>3, <1>4 DEF Numbered, Busy
<1>6. \A p, o \in Sessions :
        (p # o /\ Busy(p)' /\ Busy(o)' /\ session'[p].turn = session'[o].turn) => session'[o].turn = 0
  BY <1>4 DEF Numbered
<1>7. ASSUME NEW e, Stems(e, turns, session, uploads)
      PROVE  Stems(e, turns', session', uploads)
  <2>1. CASE \E n \in 1..uploads : e.id = <<0, n>>
    BY <1>7, <2>1 DEF Stems
  <2>2. CASE \E t \in 1..turns, part \in Nat :
          /\ e.id = <<t, part>>
          /\ \A p \in Sessions : (session[p].phase # "idle" /\ session[p].turn = t) => Place(part) <= session[p].part
    <3>1. PICK t \in 1..turns, part \in Nat :
            /\ e.id = <<t, part>>
            /\ \A p \in Sessions : (Busy(p) /\ session[p].turn = t) => Place(part) <= session[p].part
      BY <2>2 DEF Busy
    <3>2. Place(part) \in Nat
      BY DEF Place
    <3>3. \A p \in Sessions : (Busy(p)' /\ session'[p].turn = t) => Place(part) <= session'[p].part
      BY <1>2, <1>4, <3>1, <3>2
    <3> QED
      BY <1>7, <3>1, <3>3 DEF Stems, Busy
  <2> QED
    BY <1>7, <2>1, <2>2 DEF Stems
<1>8. Numbered'
  BY <1>5, <1>6 DEF Numbered
<1> QED
  BY <1>7, <1>8

\* A step that stores nothing.
LEMMA StoreKept ==
  ASSUME Own, Numbered', \A e : Stems(e, turns, session, uploads) => Stems(e, turns', session', uploads'),
         UNCHANGED <<store, lost, update>>, turns \in Nat, turns' \in Nat, turns <= turns'
  PROVE  Own'
<1>1. 1..turns \subseteq 1..turns'
  OBVIOUS
<1>2. \A i \in DOMAIN store' : Stems(store'[i], turns', session', uploads') /\ store'[i].holds \subseteq (1..turns') \X Nat
  BY <1>1 DEF Own
<1>3. DifferById(store') /\ lost' \subseteq (1..turns') \X {0}
  BY <1>1 DEF Own
<1>4. \A w \in Workers : update'[w].phase # "idle" => IsList(update'[w].seen) /\ DifferById(update'[w].seen)
  BY DEF Own
<1> QED
  BY <1>2, <1>3, <1>4 DEF Own

\* A step that stores an event, writes over one, or deletes one.
LEMMA StoreOwn ==
  ASSUME Own, Whole, Lose, NEW id, NEW role \in {"user", "assistant"}, NEW holds, Renewed(id, role, holds),
         DifferById(store'), Numbered', UNCHANGED <<update, turns>>,
         holds \subseteq (1..turns) \X Nat,
         \A e : Stems(e, turns, session, uploads) => Stems(e, turns', session', uploads'),
         \A e : (e.id = id /\ e.role = role) => Stems(e, turns', session', uploads')
  PROVE  Own'
<1>1. ASSUME NEW j \in DOMAIN store'
      PROVE  Stems(store'[j], turns', session', uploads') /\ store'[j].holds \subseteq (1..turns') \X Nat
  <2>1. Descends(store'[j], id, role, holds)
    BY DEF Renewed
  <2>2. CASE \E i \in DOMAIN store : store'[j] = store[i]
    BY <2>2 DEF Own
  <2>3. CASE /\ store'[j].role = role
             /\ \E i \in DOMAIN store : store'[j].id = store[i].id /\ store'[j].holds \subseteq store[i].holds \cup holds
    <3>1. PICK i \in DOMAIN store : store'[j].id = store[i].id /\ store'[j].holds \subseteq store[i].holds \cup holds
      BY <2>3
    <3>2. Stems(store[i], turns', session', uploads') /\ store[i].holds \subseteq (1..turns) \X Nat
      BY DEF Own
    <3>3. Stems(store'[j], turns', session', uploads')
      BY <2>3, <3>1, <3>2 DEF Stems
    <3> QED
      BY <3>1, <3>2, <3>3
  <2>4. CASE store'[j].id = id /\ store'[j].role = role /\ store'[j].holds = holds
    BY <2>4
  <2> QED
    BY <2>1, <2>2, <2>3, <2>4 DEF Descends
<1>2. lost' \subseteq (1..turns') \X {0}
  <2>1. lost' = lost \cup (Held(store) \ Held(store')) /\ lost \subseteq (1..turns) \X {0}
    BY DEF Lose, Own
  <2>2. ASSUME NEW x \in Held(store) \ Held(store')
        PROVE  x \in (1..turns) \X {0}
    <3>1. PICK i \in DOMAIN store : x \in store[i].holds
      BY <2>2 DEF Held
    <3>2. x \in (1..turns) \X Nat
      BY <3>1 DEF Own
    <3>3. Loose(store[i])
      <4> SUFFICES ASSUME ~Loose(store[i]) PROVE FALSE
        OBVIOUS
      <4>1. PICK j \in DOMAIN store' : store'[j] = store[i]
        BY DEF Renewed
      <4>2. x \in Held(store')
        BY <3>1, <4>1 DEF Held
      <4> QED
        BY <2>2, <4>2
    <3>4. x[2] = 0
      BY <3>1, <3>3 DEF Whole, LinesStay, Documents
    <3> QED
      BY <3>2, <3>4
  <2> QED
    BY <2>1, <2>2
<1>3. \A w \in Workers : update'[w].phase # "idle" => IsList(update'[w].seen) /\ DifferById(update'[w].seen)
  BY DEF Own
<1> QED
  BY <1>1, <1>2, <1>3 DEF Own

\* In the beginning there is no event and no turn.
LEMMA InitOwn == Init => Own
BY DEF Init, Own, Numbered, Busy, IdleSession, DifferById, NoUpdate

\* A turn that begins has a number nobody has.
LEMMA BeginOwn ==
  ASSUME Own, Whole, Recent, NEW r \in Sessions, NEW q \in Requests, Begin(r, q)
  PROVE  Own'
<1>1. PICK K : << >> \in K /\ session \in [Sessions -> SessionStates(K)]
  BY DEF Recent
<1>2. turns \in Nat /\ \A p \in Sessions : session[p].turn \in Nat
  BY <1>1 DEF Recent, SessionStates
<1>3. PICK u : /\ session' = [session EXCEPT ![r] = u]
               /\ u.q = q /\ u.turn = (IF q.turn THEN turns + 1 ELSE 0) /\ u.phase = "loading"
  BY Entered
<1>4. /\ UNCHANGED <<store, lost, uploads, update>>
      /\ turns' = (IF q.turn THEN turns + 1 ELSE turns)
  BY Entered DEF data
<1>5. turns' \in Nat /\ turns <= turns' /\ u.turn <= turns' /\ (u.turn = 0 \/ u.turn = turns + 1) /\ u.turn \in Nat
  BY <1>2, <1>3, <1>4
<1>6. session'[r] = u /\ \A p \in Sessions \ {r} : session'[p] = session[p]
  BY <1>1, <1>3
<1>7. \A p \in Sessions : Busy(p)' =>
        /\ session'[p].turn <= turns'
        /\ session'[p].q.turn \/ session'[p].phase = "background" => session'[p].turn # 0
  <2> SUFFICES ASSUME NEW p \in Sessions, Busy(p)'
               PROVE  /\ session'[p].turn <= turns'
                      /\ session'[p].q.turn \/ session'[p].phase = "background" => session'[p].turn # 0
    OBVIOUS
  <2>1. CASE p = r
    <3>1. u.q.turn => u.turn # 0
      BY <1>2, <1>3
    <3> QED
      BY <1>3, <1>5, <1>6, <2>1, <3>1
  <2>2. CASE p # r
    BY <1>2, <1>5, <1>6, <2>2 DEF Own, Numbered, Busy
  <2> QED
    BY <2>1, <2>2
<1>8. ASSUME NEW p \in Sessions, NEW o \in Sessions, p # o, Busy(p)', Busy(o)', session'[p].turn = session'[o].turn
      PROVE  session'[o].turn = 0
  <2>1. CASE p # r /\ o # r
    BY <1>6, <1>8, <2>1 DEF Own, Numbered, Busy
  <2>2. CASE p = r
    <3>1. session[o].turn <= turns /\ session'[o] = session[o]
      BY <1>6, <1>8, <2>2 DEF Own, Numbered, Busy
    <3> QED
      BY <1>2, <1>5, <1>6, <1>8, <2>2, <3>1
  <2>3. CASE o = r
    <3>1. session[p].turn <= turns /\ session'[p] = session[p]
      BY <1>6, <1>8, <2>3 DEF Own, Numbered, Busy
    <3> QED
      BY <1>2, <1>5, <1>6, <1>8, <2>3, <3>1
  <2> QED
    BY <2>1, <2>2, <2>3
<1>9. ASSUME NEW e, Stems(e, turns, session, uploads)
      PROVE  Stems(e, turns', session', uploads')
  <2>1. CASE \E n \in 1..uploads : e.id = <<0, n>>
    BY <1>4, <1>9, <2>1 DEF Stems
  <2>2. CASE \E t \in 1..turns, part \in Nat :
          /\ e.id = <<t, part>>
          /\ \A p \in Sessions : (session[p].phase # "idle" /\ session[p].turn = t) => Place(part) <= session[p].part
    <3>1. PICK t \in 1..turns, part \in Nat :
            /\ e.id = <<t, part>>
            /\ \A p \in Sessions : (session[p].phase # "idle" /\ session[p].turn = t) => Place(part) <= session[p].part
      BY <2>2
    <3>2. t \in 1..turns' /\ u.turn # t
      BY <1>2, <1>5
    <3>3. \A p \in Sessions : (session'[p].phase # "idle" /\ session'[p].turn = t) => Place(part) <= session'[p].part
      BY <1>6, <3>1, <3>2
    <3> QED
      BY <1>9, <3>1, <3>2, <3>3 DEF Stems
  <2> QED
    BY <1>9, <2>1, <2>2 DEF Stems
<1>10. Numbered'
  BY <1>7, <1>8 DEF Numbered
<1> QED
  BY <1>2, <1>4, <1>5, <1>9, <1>10, StoreKept

\* A step of a session that stores nothing.
LEMMA RequestOwn ==
  ASSUME Own, Recent, NEW r \in Sessions,
         \/ \E n \in 1..3 : Load(r, n)
         \/ Resolve(r) \/ Retrieve(r) \/ AnswerStatus(r) \/ AnswerTurn(r) \/ RequestUpdate(r)
         \/ RequestDigest(r) \/ RequestFails(r) \/ BackgroundFails(r)
  PROVE  Own'
<1>1. PICK K : << >> \in K /\ session \in [Sessions -> SessionStates(K)]
  BY DEF Recent
<1>2. UNCHANGED <<store, lost, uploads, update, turns>>
  BY DEF Load, Resolve, Retrieve, AnswerStatus, AnswerTurn, RequestUpdate, RequestDigest, RequestFails, BackgroundFails, data
<1>3. ASSUME NEW u, session' = [session EXCEPT ![r] = u],
             u.phase = "idle" \/
               (/\ Busy(r) /\ u.turn = session[r].turn /\ u.q = session[r].q
                /\ u.part \in Nat /\ session[r].part <= u.part
                /\ u.phase = "background" => session[r].turn # 0)
      PROVE  Own'
  <2>1. turns \in Nat /\ turns' = turns /\ turns <= turns' /\ uploads' = uploads
    BY <1>2 DEF Recent
  <2>2. Numbered
    BY DEF Own
  <2>3. Numbered' /\ \A e : Stems(e, turns, session, uploads) => Stems(e, turns', session', uploads)
    BY <1>3, <2>1, <2>2, SessionNumbered
  <2> QED
    BY <1>2, <2>1, <2>3, StoreKept
<1>4. session[r] \in SessionStates(K) /\ session[r].part \in Nat /\ session[r].part <= session[r].part
  <2>1. session[r] \in SessionStates(K)
    BY <1>1
  <2> QED
    BY <2>1 DEF SessionStates
<1>5. CASE AnswerStatus(r) \/ RequestDigest(r) \/ RequestFails(r) \/ BackgroundFails(r)
  <2>1. session' = [session EXCEPT ![r] = IdleSession]
    BY <1>5 DEF AnswerStatus, RequestDigest, RequestFails, BackgroundFails
  <2>2. IdleSession.phase = "idle"
    BY DEF IdleSession
  <2> QED
    BY <1>3, <2>1, <2>2
<1>6. CASE (\E n \in 1..3 : Load(r, n)) \/ Resolve(r) \/ Retrieve(r)
  <2>1. PICK u : /\ session' = [session EXCEPT ![r] = u]
                 /\ u.phase \in {"loading", "asking", "known"}
                 /\ u.q = session[r].q /\ u.turn = session[r].turn /\ u.part = session[r].part
    BY <1>6, Onward
  <2>2. Busy(r)
    BY <1>6, Onward DEF Busy
  <2> QED
    BY <1>3, <1>4, <2>1, <2>2
<1>7. CASE AnswerTurn(r)
  <2>1. session' = [session EXCEPT ![r] = Proceed(session[r])] /\ Busy(r) /\ session[r].q.turn
    BY <1>7 DEF AnswerTurn, Busy
  <2>2. session[r].turn # 0
    BY <2>1 DEF Own, Numbered
  <2>3. Proceed(session[r]).phase \in {"idle", "background"}
    BY <1>4 DEF Proceed, IdleSession, SessionStates
  <2>4. CASE Proceed(session[r]).phase = "idle"
    BY <1>3, <2>1, <2>4
  <2>5. CASE Proceed(session[r]).phase = "background"
    <3>1. /\ Proceed(session[r]).q = session[r].q /\ Proceed(session[r]).turn = session[r].turn
          /\ Proceed(session[r]).part = session[r].part
      BY <1>4, <2>5, ProceedKeepsPart
    <3> QED
      BY <1>3, <1>4, <2>1, <2>2, <3>1
  <2> QED
    BY <2>3, <2>4, <2>5
<1>8. CASE RequestUpdate(r)
  <2> DEFINE done == [session[r] EXCEPT !.part = @ + 1]
  <2>1. session' = [session EXCEPT ![r] = Proceed(done)] /\ Busy(r) /\ session[r].phase = "background"
    BY <1>8 DEF RequestUpdate, Busy
  <2>2. session[r].turn # 0
    BY <2>1 DEF Own, Numbered
  <2>3. /\ done \in SessionStates(K) /\ done.part = session[r].part + 1
        /\ done.turn = session[r].turn /\ done.q = session[r].q
    BY <1>4 DEF SessionStates
  <2> HIDE DEF done
  <2>4. Proceed(done).phase \in {"idle", "background"}
    BY <2>3 DEF Proceed, IdleSession, SessionStates
  <2>5. CASE Proceed(done).phase = "idle"
    BY <1>3, <2>1, <2>5
  <2>6. CASE Proceed(done).phase = "background"
    <3>1. Proceed(done).q = session[r].q /\ Proceed(done).turn = session[r].turn /\ Proceed(done).part = session[r].part + 1
      BY <2>3, <2>6, ProceedKeepsPart
    <3>2. Proceed(done).part \in Nat /\ session[r].part <= Proceed(done).part
      BY <1>4, <3>1
    <3> QED
      BY <1>3, <2>1, <2>2, <3>1, <3>2
  <2> QED
    BY <2>4, <2>5, <2>6
<1> QED
  BY <1>5, <1>6, <1>7, <1>8

\* The next part of a turn has an id that no event has.
LEMMA WriteOwn ==
  ASSUME Own, Whole, Recent, NEW r \in Sessions, Write(r)
  PROVE  Own'
<1> DEFINE done == [session[r] EXCEPT !.part = @ + 1]
           id == Part(session[r].q, session[r].turn, session[r].part + 1)
<1>1. PICK K : << >> \in K /\ session \in [Sessions -> SessionStates(K)]
  BY DEF Recent
<1>2. session[r] \in SessionStates(K)
  BY <1>1
<1>3. session[r].part \in Nat /\ session[r].turn \in Nat /\ turns \in Nat
  BY <1>2 DEF SessionStates, Recent
<1>4. /\ session[r].phase = "background" /\ Busy(r) /\ session' = [session EXCEPT ![r] = Proceed(done)]
      /\ Lose /\ UNCHANGED <<update, turns, uploads>>
  BY DEF Write, Busy
<1>5. session[r].turn \in 1..turns
  BY <1>3, <1>4 DEF Own, Numbered
<1>6. PICK part \in Nat : id = <<session[r].turn, part>> /\ Place(part) = session[r].part + 1
  <2>1. \A n \in Nat \ {0} : Place(n) = n
    BY DEF Place
  <2>2. Place(0) = 1 /\ session[r].part + 1 \in Nat \ {0}
    BY <1>3 DEF Place
  <2>3. \/ id = <<session[r].turn, 0>> /\ session[r].part + 1 = 1
        \/ id = <<session[r].turn, session[r].part + 1>>
    BY DEF Part
  <2> QED
    BY <2>1, <2>2, <2>3
<1>7. PICK role \in {"user", "assistant"} : Renewed(id, role, {id})
  BY WriteRenews
<1> HIDE DEF id
<1>8. /\ done \in SessionStates(K) /\ done.part = session[r].part + 1
      /\ done.turn = session[r].turn /\ done.q = session[r].q
  BY <1>2 DEF SessionStates
<1> HIDE DEF done
<1>9. Proceed(done).phase \in {"idle", "background"}
  BY <1>8 DEF Proceed, IdleSession, SessionStates
<1>10. Proceed(done).phase = "background" =>
         /\ Proceed(done).q = session[r].q /\ Proceed(done).turn = session[r].turn
         /\ Proceed(done).part = session[r].part + 1
  BY <1>8, ProceedKeepsPart
<1>11. PICK u : u = Proceed(done)
  OBVIOUS
<1>12. u.phase = "idle" \/
         (/\ Busy(r) /\ u.turn = session[r].turn /\ u.q = session[r].q
          /\ u.part \in Nat /\ session[r].part <= u.part
          /\ u.phase = "background" => session[r].turn # 0)
  <2>1. CASE u.phase = "idle"
    BY <2>1
  <2>2. CASE u.phase = "background"
    <3>1. u.q = session[r].q /\ u.turn = session[r].turn /\ u.part = session[r].part + 1
      BY <1>10, <1>11, <2>2
    <3>2. u.part \in Nat /\ session[r].part <= u.part /\ session[r].turn # 0
      BY <1>3, <1>5, <3>1
    <3> QED
      BY <1>4, <3>1, <3>2
  <2> QED
    BY <1>9, <1>11, <2>1, <2>2
<1>13. Numbered' /\ \A e : Stems(e, turns, session, uploads) => Stems(e, turns', session', uploads)
  <2>1. Numbered /\ turns' = turns /\ session' = [session EXCEPT ![r] = u]
    BY <1>4, <1>11 DEF Own
  <2> QED
    BY <1>12, <2>1, SessionNumbered
<1>14. \A i \in DOMAIN store : store[i].id # id
  <2> SUFFICES ASSUME NEW i \in DOMAIN store, store[i].id = id PROVE FALSE
    OBVIOUS
  <2>1. Stems(store[i], turns, session, uploads)
    BY DEF Own
  <2>2. CASE \E n \in 1..uploads : store[i].id = <<0, n>>
    BY <1>5, <1>6, <2>2
  <2>3. CASE \E t \in 1..turns, n \in Nat :
          /\ store[i].id = <<t, n>>
          /\ \A p \in Sessions : (session[p].phase # "idle" /\ session[p].turn = t) => Place(n) <= session[p].part
    <3>1. PICK t \in 1..turns, n \in Nat :
            /\ store[i].id = <<t, n>>
            /\ \A p \in Sessions : (session[p].phase # "idle" /\ session[p].turn = t) => Place(n) <= session[p].part
      BY <2>3
    <3>2. t = session[r].turn /\ n = part
      BY <1>6, <3>1
    <3>3. Place(part) <= session[r].part
      BY <1>4, <3>1, <3>2
    <3> QED
      BY <1>3, <1>6, <3>3
  <2> QED
    BY <2>1, <2>2, <2>3 DEF Stems
<1>15. DifferById(store')
  BY <1>7, <1>14 DEF Renewed, Own
<1>16. ASSUME NEW e, e.id = id, e.role = role
       PROVE  Stems(e, turns', session', uploads')
  <2>1. session'[r] = u /\ \A p \in Sessions \ {r} : session'[p] = session[p]
    BY <1>1, <1>4, <1>11
  <2>2. \A p \in Sessions : (session'[p].phase # "idle" /\ session'[p].turn = session[r].turn) => p = r
    <3> SUFFICES ASSUME NEW p \in Sessions, session'[p].phase # "idle", session'[p].turn = session[r].turn, p # r
                 PROVE  FALSE
      OBVIOUS
    <3>1. Busy(p) /\ session[p].turn = session[r].turn
      BY <2>1 DEF Busy
    <3>2. session[r].turn = 0
      BY <1>4, <3>1 DEF Own, Numbered
    <3> QED
      BY <1>5, <3>2
  <2>3. u.phase # "idle" => Place(part) <= u.part
    <3>1. u.phase # "idle" => u.part = session[r].part + 1
      BY <1>9, <1>10, <1>11
    <3> QED
      BY <1>3, <1>6, <3>1
  <2>4. \A p \in Sessions :
          (session'[p].phase # "idle" /\ session'[p].turn = session[r].turn) => Place(part) <= session'[p].part
    BY <2>1, <2>2, <2>3
  <2>5. session[r].turn \in 1..turns'
    BY <1>4, <1>5
  <2> QED
    BY <1>6, <1>16, <2>4, <2>5 DEF Stems
<1>17. {id} \subseteq (1..turns) \X Nat
  BY <1>5, <1>6
<1>18. \A e : Stems(e, turns, session, uploads) => Stems(e, turns', session', uploads')
  BY <1>4, <1>13
<1> QED
  BY <1>4, <1>7, <1>13, <1>15, <1>16, <1>17, <1>18, StoreOwn

\* What is uploaded has one too.
LEMMA UploadOwn ==
  ASSUME Own, Whole, uploads \in Nat, NEW h \in Uploads, Upload(h)
  PROVE  Own' /\ uploads' \in Nat
<1> DEFINE id == <<0, uploads + 1>>
<1>1. Lose /\ uploads' = uploads + 1 /\ UNCHANGED <<session, update, turns>>
  BY DEF Upload
<1>2. 1..uploads \subseteq 1..uploads' /\ uploads + 1 \in 1..uploads' /\ uploads + 1 \notin 1..uploads
  BY <1>1
<1>3. PICK role \in {"user", "assistant"} : Renewed(id, role, {})
  BY UploadRenews
<1>4. \A i \in DOMAIN store : store[i].id # id
  <2> SUFFICES ASSUME NEW i \in DOMAIN store, store[i].id = id PROVE FALSE
    OBVIOUS
  <2>1. Stems(store[i], turns, session, uploads)
    BY DEF Own
  <2> QED
    BY <1>2, <2>1 DEF Stems
<1>5. DifferById(store')
  BY <1>3, <1>4 DEF Renewed, Own
<1>6. Numbered'
  BY <1>1 DEF Own, Numbered, Busy
<1>7. \A e : Stems(e, turns, session, uploads) => Stems(e, turns', session', uploads')
  BY <1>1, <1>2 DEF Stems
<1>8. \A e : (e.id = id /\ e.role = role) => Stems(e, turns', session', uploads')
  BY <1>2 DEF Stems
<1> HIDE DEF id
<1>9. Own'
  BY <1>1, <1>3, <1>5, <1>6, <1>7, <1>8, StoreOwn
<1> QED
  BY <1>1, <1>9

\* What is deleted leaves the others.
LEMMA ExpireOwn ==
  ASSUME Own, Whole, uploads \in Nat, Expire
  PROVE  Own'
<1>1. Lose /\ UNCHANGED <<uploads, session, update, turns>>
  BY DEF Expire
<1>2. PICK p \in DOMAIN store : store[p].uploaded
  BY DEF Expire
<1>3. Stems(store[p], turns, session, uploads)
  BY DEF Own
<1>4. PICK role \in {"user", "assistant"} : role = store[p].role
  BY <1>3 DEF Stems
<1> DEFINE id == store[p].id
<1>5. Renewed(id, role, {})
  BY ExpireRenews
<1>6. DifferById(store')
  <2> DEFINE new == <<0, uploads + 1>>
  <2>1. Renewed(new, role, {})
    BY ExpireRenews
  <2>2. \A i \in DOMAIN store : store[i].id # new
    <3> SUFFICES ASSUME NEW i \in DOMAIN store, store[i].id = new PROVE FALSE
      OBVIOUS
    <3>1. Stems(store[i], turns, session, uploads)
      BY DEF Own
    <3>2. uploads + 1 \notin 1..uploads
      OBVIOUS
    <3> QED
      BY <3>1, <3>2 DEF Stems
  <2> HIDE DEF new
  <2> QED
    BY <2>1, <2>2 DEF Renewed, Own
<1>7. Numbered'
  BY <1>1 DEF Own, Numbered, Busy
<1>8. \A e : Stems(e, turns, session, uploads) => Stems(e, turns', session', uploads')
  BY <1>1 DEF Stems
<1>9. \A e : (e.id = id /\ e.role = role) => Stems(e, turns', session', uploads')
  BY <1>3, <1>4, <1>8 DEF Stems
<1> HIDE DEF id
<1> QED
  BY <1>1, <1>5, <1>6, <1>7, <1>8, <1>9, StoreOwn

\* An update reads what is stored.
LEMMA UpdateOwn ==
  ASSUME Own, Whole, NEW w \in Workers, Work(w)
  PROVE  Own'
<1>1. PICK S : {<< >>, {}, 0} \subseteq S /\ update \in [Workers -> UpdateStates(S)]
  BY DEF Whole, Shaped
<1>2. UNCHANGED <<store, lost, uploads, session, turns>>
  BY DEF Work, UpdateRead, UpdateVersion, UpdateWrite, UpdateFails, data
<1>3. /\ Numbered' /\ DifferById(store') /\ lost' \subseteq (1..turns') \X {0}
      /\ \A i \in DOMAIN store' : Stems(store'[i], turns', session', uploads') /\ store'[i].holds \subseteq (1..turns') \X Nat
  BY <1>2 DEF Own, Numbered, Busy
<1>4. ASSUME NEW u, update' = [update EXCEPT ![w] = u], u.phase # "idle" => IsList(u.seen) /\ DifferById(u.seen)
      PROVE  Own'
  <2>1. \A v \in Workers : update'[v].phase # "idle" => IsList(update'[v].seen) /\ DifferById(update'[v].seen)
    <3> SUFFICES ASSUME NEW v \in Workers
                 PROVE  update'[v].phase # "idle" => IsList(update'[v].seen) /\ DifferById(update'[v].seen)
      OBVIOUS
    <3>1. CASE v = w
      BY <1>1, <1>4, <3>1
    <3>2. CASE v # w
      BY <1>1, <1>4, <3>2 DEF Own
    <3> QED
      BY <3>1, <3>2
  <2> QED
    BY <1>3, <2>1 DEF Own
<1>5. CASE UpdateRead(w)
  <2> DEFINE u == [NoUpdate EXCEPT !.phase = "events", !.job = Head(jobs), !.seen = store, !.lost = lost]
  <2>1. update' = [update EXCEPT ![w] = u]
    BY <1>5 DEF UpdateRead
  <2>2. u.seen = store
    BY DEF NoUpdate
  <2>3. IsList(store) /\ DifferById(store)
    <3>1. PICK E : store \in Seq(E)
      BY DEF Whole, Shaped
    <3>2. Len(store) \in Nat /\ DOMAIN store = 1..Len(store)
      BY <3>1
    <3> QED
      BY <3>2 DEF IsList, Own
  <2> HIDE DEF u
  <2> QED
    BY <1>4, <2>1, <2>2, <2>3
<1>6. CASE UpdateVersion(w)
  <2> DEFINE u == [update[w] EXCEPT !.phase = "version", !.version = memory.version]
  <2>1. update' = [update EXCEPT ![w] = u] /\ update[w].phase = "events"
    BY <1>1, <1>6 DEF UpdateVersion
  <2>2. u.seen = update[w].seen
    <3>1. update[w] \in UpdateStates(S)
      BY <1>1
    <3> QED
      BY <3>1 DEF UpdateStates
  <2>3. IsList(update[w].seen) /\ DifferById(update[w].seen)
    BY <2>1 DEF Own
  <2> HIDE DEF u
  <2> QED
    BY <1>4, <2>1, <2>2, <2>3
<1>7. CASE UpdateWrite(w) \/ UpdateFails(w)
  <2>1. update' = [update EXCEPT ![w] = NoUpdate] /\ NoUpdate.phase = "idle"
    BY <1>7 DEF UpdateWrite, UpdateFails, NoUpdate
  <2> QED
    BY <1>4, <2>1
<1> QED
  BY <1>5, <1>6, <1>7 DEF Work

Uploaded == uploads \in Nat

\* Every step keeps ids and numbers apart.
LEMMA NextOwn ==
  ASSUME Own, Uploaded, Whole, Recent, [Next]_vars
  PROVE  Own' /\ Uploaded'
<1>1. CASE Digest \/ Tick \/ UNCHANGED vars
  <2>1. UNCHANGED <<store, lost, uploads, update, session, turns>>
    BY <1>1 DEF Digest, Tick, vars, data
  <2> QED
    BY <2>1 DEF Own, Numbered, Busy, Stems, DifferById, IsList, Uploaded
<1>2. CASE Restart
  <2>1. UNCHANGED <<store, lost, uploads, update, turns>> /\ session' = [r \in Sessions |-> IdleSession]
    BY <1>2 DEF Restart, data
  <2>2. \A p \in Sessions : session'[p].phase = "idle"
    BY <2>1 DEF IdleSession
  <2>3. Numbered'
    BY <2>2 DEF Numbered, Busy
  <2>4. \A e : Stems(e, turns, session, uploads) => Stems(e, turns', session', uploads')
    BY <2>1, <2>2 DEF Stems
  <2>5. turns \in Nat /\ turns' \in Nat /\ turns <= turns'
    BY <2>1 DEF Recent
  <2> QED
    BY <2>1, <2>3, <2>4, <2>5, StoreKept DEF Uploaded
<1>3. ASSUME NEW r \in Sessions, Serve(r)
      PROVE  Own' /\ Uploaded'
  <2>1. Own'
    BY <1>3, BeginOwn, RequestOwn, WriteOwn DEF Serve
  <2>2. uploads' = uploads
    BY <1>3 DEF Serve, Begin, Load, Resolve, Retrieve, AnswerStatus, AnswerTurn, Write, RequestUpdate, RequestDigest,
                RequestFails, BackgroundFails, data
  <2> QED
    BY <2>1, <2>2 DEF Uploaded
<1>4. ASSUME NEW w \in Workers, Work(w)
      PROVE  Own' /\ Uploaded'
  <2>1. uploads' = uploads
    BY <1>4 DEF Work, UpdateRead, UpdateVersion, UpdateWrite, UpdateFails, data
  <2> QED
    BY <1>4, <2>1, UpdateOwn DEF Uploaded
<1>5. CASE Expire
  <2>1. uploads' = uploads
    BY <1>5 DEF Expire
  <2> QED
    BY <1>5, <2>1, ExpireOwn DEF Uploaded
<1> QED
  BY <1>1, <1>2, <1>3, <1>4, <1>5, UploadOwn DEF Next, Uploaded

-----------------------------------------------------------------------------
(* What a snapshot is made of *)

\* A state is extracted from the events an update took, with what the model adds.
MadeOf(snapshot) ==
  \/ snapshot.state = NothingKnown /\ snapshot.took = << >>
  \/ /\ IsList(snapshot.took) /\ Differ(snapshot.took)
     /\ \E selected : /\ selected = Selected(snapshot.took)
                      /\ snapshot.state \in Refinements(selected, Extracted(selected))

\* slice(-n) of events that differ.
LEMMA LatestDiffer ==
  ASSUME NEW s, IsList(s), DifferById(s), NEW n \in Nat \ {0}
  PROVE  IsList(Latest(s, n)) /\ Differ(Latest(s, n))
<1>1. Differ(s) /\ DOMAIN s \subseteq Nat
  BY ListDomain DEF Differ, DifferById
<1>2. InOrder(s, s)
  BY <1>1 DEF InOrder, Differ
<1>3. InOrder(s, Latest(s, n))
  BY <1>1, <1>2, LatestInOrder
<1> DEFINE t == Latest(s, n)
<1> HIDE DEF t
<1>4. ASSUME NEW p \in DOMAIN t, NEW q \in DOMAIN t, t[p] = t[q], InOrder(s, t)
      PROVE  p = q
  <2>1. PICK i \in DOMAIN s : t[p] = s[i]
    BY <1>4 DEF InOrder
  <2>2. ~(p < q) /\ ~(q < p)
    <3>1. ~(i < i)
      BY <1>1, <2>1
    <3> QED
      BY <1>4, <2>1, <3>1 DEF InOrder
  <2>3. p \in Nat /\ q \in Nat
    BY <1>4, ListDomain DEF InOrder
  <2> QED
    BY <2>2, <2>3
<1> QED
  BY <1>3, <1>4 DEF InOrder, Differ, t

\* A step leaves the snapshot, or writes one made of the latest events an update read.
LEMMA NextMade ==
  ASSUME Own, MadeOf(memory), [Next]_vars
  PROVE  MadeOf(memory)'
<1>1. ASSUME NEW w \in Workers, UpdateWrite(w)
      PROVE  MadeOf(memory)'
  <2>1. IsList(update[w].seen) /\ DifferById(update[w].seen)
    BY <1>1 DEF UpdateWrite, Own
  <2>2. TakeSize \in Nat \ {0}
    BY WorkingMemoryAssumption DEF TakeSize, AtLeast
  <2>3. PICK took : took = Taken(update[w].seen)
    OBVIOUS
  <2>4. IsList(took) /\ Differ(took)
    BY <2>1, <2>2, <2>3, LatestDiffer DEF Taken
  <2>5. PICK selected : selected = Selected(took)
    OBVIOUS
  <2>6. PICK state \in Refinements(selected, Extracted(selected)) :
          memory' = [version |-> update[w].version + 1, state |-> state, took |-> took]
    BY <1>1, <2>3, <2>5 DEF UpdateWrite
  <2>7. memory'.state = state /\ memory'.took = took
    BY <2>6
  <2> QED
    BY <2>4, <2>5, <2>6, <2>7 DEF MadeOf
<1>2. ASSUME memory' = memory
      PROVE  MadeOf(memory)'
  BY <1>2 DEF MadeOf
<1>3. (\E w \in Workers : UpdateWrite(w)) \/ memory' = memory
  BY DEF Next, Serve, Begin, Load, Resolve, Retrieve, AnswerStatus, AnswerTurn, Write, RequestUpdate, RequestDigest,
         RequestFails, BackgroundFails, Work, UpdateRead, UpdateVersion, UpdateFails, Upload, Expire, Digest,
         Tick, Restart, vars, data
<1> QED
  BY <1>1, <1>2, <1>3

\* The goal of a snapshot is the last that was stated of what it is made of.
LEMMA MadeHears ==
  ASSUME MadeOf(memory)
  PROVE  GoalIsHeard
<1> DEFINE took   == memory.took
           stated == {i \in DOMAIN took : took[i].role = "user" /\ "goal" \in took[i].says}
<1>1. SUFFICES ASSUME NEW i \in stated, \A j \in stated : j <= i
               PROVE  memory.state.goal \in {took[i].text} \cup ({p.goal : p \in Patches} \ {NoText})
  BY DEF GoalIsHeard
<1>2. took # << >>
  OBVIOUS
<1>3. IsList(took) /\ Differ(took)
  BY <1>2 DEF MadeOf
<1>4. PICK selected : selected = Selected(took) /\ memory.state \in Refinements(selected, Extracted(selected))
  BY <1>2 DEF MadeOf
<1> HIDE DEF took
<1>5. i \in DOMAIN took /\ took[i].role = "user" /\ "goal" \in took[i].says
  OBVIOUS
<1>6. \A j \in DOMAIN took : (took[j].role = "user" /\ "goal" \in took[j].says) => j <= i
  BY <1>1
<1> HIDE DEF stated
<1> QED
  BY <1>3, <1>4, <1>5, <1>6, GoalKept

\* Whatever is stored, written over, inserted or deleted, and whichever updates overlap: of
\* the goals stated in the events a snapshot is made of, as they read then, it has the last,
\* unless a model has put its own in its place.
THEOREM GoalAlwaysHeard == Spec => []GoalIsHeard
<1>1. Init => MadeOf(memory) /\ Uploaded
  BY DEF Init, MadeOf, Uploaded
<1> QED
  BY <1>1, InitRecent, NextRecent, InitWhole, NextWhole, InitOwn, NextOwn, NextMade, MadeHears, PTL DEF Spec

-----------------------------------------------------------------------------
(* What the caches and the fields hold *)

\* push() to a list.
LEMMA PushList ==
  ASSUME NEW s, IsList(s), NEW e
  PROVE  /\ IsList(Push(s, e)) /\ Size(Push(s, e)) = Size(s) + 1
         /\ \A i \in DOMAIN Push(s, e) : (i \in DOMAIN s /\ Push(s, e)[i] = s[i]) \/ (i = Size(s) + 1 /\ Push(s, e)[i] = e)
<1>1. Size(s) \in Nat /\ DOMAIN s = 1..Size(s)
  BY ListDomain
<1>2. DOMAIN Push(s, e) = 1..(Size(s) + 1)
  <2>1. DOMAIN Push(s, e) = DOMAIN s \cup {Size(s) + 1}
    BY DEF Push
  <2> QED
    BY <1>1, <2>1
<1>3. IsList(Push(s, e)) /\ Size(Push(s, e)) = Size(s) + 1
  BY <1>1, <1>2, ListSize
<1>4. \A i \in DOMAIN Push(s, e) : (i \in DOMAIN s /\ Push(s, e)[i] = s[i]) \/ (i = Size(s) + 1 /\ Push(s, e)[i] = e)
  <2>1. \A i \in DOMAIN s \cup {Size(s) + 1} : Push(s, e)[i] = IF i \in DOMAIN s THEN s[i] ELSE e
    BY DEF Push
  <2> QED
    BY <1>1, <1>2, <2>1
<1> QED
  BY <1>3, <1>4

\* A list with one entry under a key.
Keyed(cache) ==
  /\ IsList(cache)
  /\ \A i, j \in DOMAIN cache : cache[i].key = cache[j].key => i = j

\* filter() keeps one entry a key.
LEMMA FilterKeyed ==
  ASSUME NEW cache, Keyed(cache), NEW I \in SUBSET DOMAIN cache
  PROVE  /\ Keyed(Filter(cache, I)) /\ Size(Filter(cache, I)) = Cardinality(I)
         /\ \A k \in DOMAIN Filter(cache, I) : \E p \in I : Filter(cache, I)[k] = cache[p]
<1> DEFINE u == Filter(cache, I)
<1>1. /\ IsList(u) /\ Size(u) = Cardinality(I)
      /\ \A k \in DOMAIN u : \E p \in I : k = Rank(I, p) + 1 /\ u[k] = cache[p]
  BY FilterList DEF Keyed
<1> HIDE DEF u
<1>2. ASSUME NEW k \in DOMAIN u, NEW l \in DOMAIN u, u[k].key = u[l].key
      PROVE  k = l
  <2>1. PICK p \in I : k = Rank(I, p) + 1 /\ u[k] = cache[p]
    BY <1>1
  <2>2. PICK q \in I : l = Rank(I, q) + 1 /\ u[l] = cache[q]
    BY <1>1
  <2>3. p = q
    BY <1>2, <2>1, <2>2 DEF Keyed
  <2> QED
    BY <2>1, <2>2, <2>3
<1>3. \A k \in DOMAIN u : \E p \in I : u[k] = cache[p]
  BY <1>1
<1> QED
  BY <1>1, <1>2, <1>3 DEF Keyed, u

\* An entry takes the place of the one under its key, and over the cap the first goes.
LEMMA PutBounded ==
  ASSUME NEW cache, Keyed(cache), NEW key, NEW age
  PROVE  Keyed(Put(cache, key, age)) /\ Size(Put(cache, key, age)) <= MaxEntries
<1> DEFINE e == [key |-> key, left |-> TTL, age |-> age]
           K == DOMAIN cache \ Entries(cache, key)
           kept == Without(cache, Entries(cache, key))
           written == Push(kept, e)
           k == Size(written) - MaxEntries
           I == DOMAIN written \ Least(DOMAIN written, k)
<1>1. Put(cache, key, age) = Filter(written, I)
  BY DEF Put, Without
<1>2. Keyed(kept) /\ \A i \in DOMAIN kept : kept[i].key # key
  <2>1. kept = Filter(cache, K) /\ K \in SUBSET DOMAIN cache /\ \A p \in K : cache[p].key # key
    BY DEF Without, Entries
  <2> HIDE DEF kept, K
  <2> QED
    BY <2>1, FilterKeyed
<1> HIDE DEF kept
<1>3. e.key = key
  OBVIOUS
<1> HIDE DEF e
<1>4. /\ IsList(written) /\ Size(written) = Size(kept) + 1
      /\ \A i \in DOMAIN written : (i \in DOMAIN kept /\ written[i] = kept[i]) \/ (i = Size(kept) + 1 /\ written[i] = e)
  BY <1>2, PushList DEF Keyed
<1> HIDE DEF written
<1>5. Keyed(written)
  <2> SUFFICES ASSUME NEW i \in DOMAIN written, NEW j \in DOMAIN written, written[i].key = written[j].key
               PROVE  i = j
    BY <1>4 DEF Keyed
  <2> QED
    BY <1>2, <1>3, <1>4 DEF Keyed
<1>6. Size(written) \in Nat /\ DOMAIN written = 1..Size(written) /\ MaxEntries \in Nat /\ k \in Int
  BY <1>4, ListDomain, ConstantsAssumption
<1>7. \A p \in DOMAIN written : Rank(DOMAIN written, p) = p - 1
  <2> SUFFICES ASSUME NEW p \in 1..Size(written) PROVE Rank(1..Size(written), p) = p - 1
    BY <1>6
  <2>1. {q \in 1..Size(written) : q < p} = 1..(p - 1)
    BY <1>6
  <2>2. Cardinality(1..(p - 1)) = p - 1
    <3>1. 1 \in Int /\ p - 1 \in Int /\ p - 1 >= 0
      BY <1>6
    <3>2. Cardinality(1..(p - 1)) = IF 1 > p - 1 THEN 0 ELSE (p - 1) - 1 + 1
      BY <3>1, FS_Interval
    <3> QED
      BY <3>1, <3>2
  <2> QED
    BY <2>1, <2>2 DEF Rank
<1>8. I \in SUBSET ((k + 1)..Size(written)) /\ I \in SUBSET (1..Size(written)) /\ I \in SUBSET DOMAIN written
  BY <1>6, <1>7 DEF Least
<1> HIDE DEF I
<1>9. Cardinality(I) <= MaxEntries
  <2>1. CASE k <= 0
    <3>1. Cardinality(I) <= Cardinality(1..Size(written)) /\ Cardinality(1..Size(written)) = Size(written)
          /\ Cardinality(I) \in Nat
      <4>1. IsFiniteSet(1..Size(written)) /\ Cardinality(1..Size(written)) = Size(written)
        BY <1>4, <1>6, ListDomain
      <4> QED
        BY <1>8, <4>1, FS_Subset, FS_CardinalityType
    <3> QED
      BY <1>6, <2>1, <3>1
  <2>2. CASE k > 0
    <3>1. IsFiniteSet((k + 1)..Size(written)) /\ Cardinality((k + 1)..Size(written)) = MaxEntries
      <4>1. k + 1 \in Int /\ Size(written) \in Int /\ MaxEntries > 0
        BY <1>6, ConstantsAssumption
      <4>2. /\ IsFiniteSet((k + 1)..Size(written))
            /\ Cardinality((k + 1)..Size(written)) = IF k + 1 > Size(written) THEN 0 ELSE Size(written) - (k + 1) + 1
        BY <4>1, FS_Interval
      <4> QED
        BY <1>6, <4>1, <4>2
    <3>2. Cardinality(I) <= Cardinality((k + 1)..Size(written))
      BY <1>8, <3>1, FS_Subset, FS_CardinalityType
    <3> QED
      BY <3>1, <3>2
  <2> QED
    BY <1>6, <2>1, <2>2
<1> QED
  BY <1>1, <1>5, <1>8, <1>9, FilterKeyed

\* What expires goes, the rest keeps its order and its keys.
LEMMA OlderBounded ==
  ASSUME NEW cache, Keyed(cache), Size(cache) <= MaxEntries, NEW K, NEW bound, IsArray(cache, Fresh(K, bound))
  PROVE  Keyed(Older(cache)) /\ Size(Older(cache)) <= MaxEntries
<1> DEFINE aged == [i \in DOMAIN cache |-> [cache[i] EXCEPT !.left = @ - 1, !.age = AtMost(OldestAge, @ + 1)]]
           I == {i \in DOMAIN aged : aged[i].left > 0}
<1>1. Older(cache) = Filter(aged, I) /\ I \in SUBSET DOMAIN aged
  BY DEF Older
<1>2. DOMAIN aged = DOMAIN cache
  OBVIOUS
<1>3. \A i \in DOMAIN cache : aged[i].key = cache[i].key
  <2> SUFFICES ASSUME NEW i \in DOMAIN cache PROVE aged[i].key = cache[i].key
    OBVIOUS
  <2>1. cache[i] \in [key : K, left : 1..TTL, age : Nat]
    BY DEF IsArray, Fresh
  <2> QED
    BY <2>1
<1> HIDE DEF aged, I
<1>4. Size(cache) \in Nat /\ DOMAIN cache = 1..Size(cache) /\ IsFiniteSet(DOMAIN cache)
  BY ListDomain DEF Keyed
<1>5. Keyed(aged)
  <2>1. IsList(aged)
    BY <1>2, <1>4, ListSize
  <2> QED
    BY <1>2, <1>3, <2>1 DEF Keyed
<1>6. Keyed(Older(cache)) /\ Size(Older(cache)) = Cardinality(I)
  BY <1>1, <1>5, FilterKeyed
<1>7. Cardinality(I) <= Size(cache) /\ Cardinality(I) \in Nat
  <2>1. IsFiniteSet(I) /\ Cardinality(I) <= Cardinality(DOMAIN cache)
    BY <1>1, <1>2, <1>4, FS_Subset
  <2>2. Cardinality(DOMAIN cache) = Size(cache)
    BY DEF Size
  <2> QED
    BY <2>1, <2>2, FS_CardinalityType
<1> QED
  BY <1>4, <1>6, <1>7, ConstantsAssumption

\* A list that holds nothing twice holds as many as it has places.
LEMMA ListOfDifferent ==
  ASSUME NEW s, IsList(s), \A i, j \in DOMAIN s : s[i] = s[j] => i = j
  PROVE  Cardinality(Values(s)) = Size(s)
<1> DEFINE f == [i \in DOMAIN s |-> s[i]]
<1>1. f \in Bijection(DOMAIN s, Values(s))
  <2>1. f \in Injection(DOMAIN s, Values(s))
    BY DEF Injection, IsInjective, Values
  <2>2. f \in Surjection(DOMAIN s, Values(s))
    BY DEF Surjection, Values
  <2> QED
    BY <2>1, <2>2 DEF Bijection
<1>2. ExistsBijection(DOMAIN s, Values(s))
  BY <1>1 DEF ExistsBijection
<1>3. IsFiniteSet(DOMAIN s)
  BY ListDomain
<1> QED
  BY <1>2, <1>3, FS_Bijection DEF Size

\* A list that holds nothing twice.
Single(s) == IsList(s) /\ \A i, j \in DOMAIN s : s[i] = s[j] => i = j

\* filter() repeats nothing.
LEMMA FilterSingle ==
  ASSUME NEW s, Single(s), NEW I \in SUBSET DOMAIN s
  PROVE  Single(Filter(s, I)) /\ Size(Filter(s, I)) = Cardinality(I)
<1> DEFINE u == Filter(s, I)
<1>1. /\ IsList(u) /\ Size(u) = Cardinality(I)
      /\ \A k \in DOMAIN u : \E p \in I : k = Rank(I, p) + 1 /\ u[k] = s[p]
  BY FilterList DEF Single
<1> HIDE DEF u
<1>2. ASSUME NEW k \in DOMAIN u, NEW l \in DOMAIN u, u[k] = u[l]
      PROVE  k = l
  <2>1. PICK p \in I : k = Rank(I, p) + 1 /\ u[k] = s[p]
    BY <1>1
  <2>2. PICK q \in I : l = Rank(I, q) + 1 /\ u[l] = s[q]
    BY <1>1
  <2>3. p = q
    BY <1>2, <2>1, <2>2 DEF Single
  <2> QED
    BY <2>1, <2>2, <2>3
<1> QED
  BY <1>1, <1>2 DEF Single, u

\* uniq() leaves everything once.
LEMMA UniqSingle ==
  ASSUME NEW s, IsList(s)
  PROVE  Single(Uniq(s))
<1> DEFINE I == {i \in DOMAIN s : \A j \in DOMAIN s : s[j] = s[i] => i <= j}
           u == Filter(s, I)
<1>1. Uniq(s) = u /\ I \in SUBSET DOMAIN s
  BY DEF Uniq
<1>2. \A p, q \in I : s[p] = s[q] => p = q
  <2>1. \A p, q \in I : s[p] = s[q] => p <= q /\ q <= p
    OBVIOUS
  <2>2. DOMAIN s \in SUBSET Nat
    BY ListDomain
  <2> QED
    BY <2>1, <2>2
<1> HIDE DEF I
<1>3. /\ IsList(u)
      /\ \A k \in DOMAIN u : \E p \in I : k = Rank(I, p) + 1 /\ u[k] = s[p]
  BY <1>1, FilterList
<1> HIDE DEF u
<1>4. ASSUME NEW k \in DOMAIN u, NEW l \in DOMAIN u, u[k] = u[l]
      PROVE  k = l
  <2>1. PICK p \in I : k = Rank(I, p) + 1 /\ u[k] = s[p]
    BY <1>3
  <2>2. PICK q \in I : l = Rank(I, q) + 1 /\ u[l] = s[q]
    BY <1>3
  <2>3. p = q
    BY <1>2, <1>4, <2>1, <2>2
  <2> QED
    BY <2>1, <2>2, <2>3
<1> QED
  BY <1>1, <1>3, <1>4 DEF Single

\* slice(-n) leaves n at most, and repeats nothing.
LEMMA LatestSingle ==
  ASSUME NEW s, Single(s), NEW n \in Nat
  PROVE  Single(Latest(s, n)) /\ Size(Latest(s, n)) <= n
<1> DEFINE I == {i \in DOMAIN s : i > Size(s) - n}
<1>1. Latest(s, n) = Filter(s, I) /\ I \in SUBSET DOMAIN s
  BY DEF Latest
<1>2. Size(s) \in Nat /\ DOMAIN s = 1..Size(s)
  BY ListDomain DEF Single
<1>3. I \in SUBSET ((Size(s) - n + 1)..Size(s))
  BY <1>2
<1> HIDE DEF I
<1>4. /\ IsFiniteSet((Size(s) - n + 1)..Size(s))
      /\ Cardinality((Size(s) - n + 1)..Size(s)) <= n
  <2>1. Size(s) - n + 1 \in Int /\ Size(s) \in Int
    BY <1>2
  <2>2. /\ IsFiniteSet((Size(s) - n + 1)..Size(s))
        /\ Cardinality((Size(s) - n + 1)..Size(s)) =
             IF Size(s) - n + 1 > Size(s) THEN 0 ELSE Size(s) - (Size(s) - n + 1) + 1
    BY <2>1, FS_Interval
  <2> QED
    BY <1>2, <2>2
<1>5. Cardinality(I) <= n
  <2>1. /\ Cardinality(I) <= Cardinality((Size(s) - n + 1)..Size(s)) /\ Cardinality(I) \in Nat
        /\ Cardinality((Size(s) - n + 1)..Size(s)) \in Nat
    BY <1>3, <1>4, FS_Subset, FS_CardinalityType
  <2> QED
    BY <1>4, <2>1
<1> QED
  BY <1>1, <1>5, FilterSingle

\* Fields within their caps, each item once.
WithinCaps(state) ==
  \A f \in Fields : Single(state.items[f]) /\ Size(state.items[f]) <= CapOf(f)

\* The caps of the fields are positive.
LEMMA CapsAreNat == \A f \in Fields : CapOf(f) \in Nat /\ 1 <= CapOf(f)
BY WorkingMemoryAssumption DEF CapOf

\* What an update extracts, and what a model adds, stays within the caps.
LEMMA MadeKeepsCaps ==
  ASSUME MadeOf(memory)
  PROVE  WithinCaps(memory.state)
<1>2. CASE memory.state = NothingKnown
  <2> SUFFICES ASSUME NEW f \in Fields
               PROVE  Single(memory.state.items[f]) /\ Size(memory.state.items[f]) <= CapOf(f)
    BY DEF WithinCaps
  <2>1. memory.state.items[f] = << >>
    BY <1>2 DEF NothingKnown, NoItems
  <2>2. DOMAIN << >> = 1..0 /\ 0 \in Nat
    OBVIOUS
  <2>3. IsList(<< >>) /\ Size(<< >>) = 0
    BY <2>2, ListSize
  <2> QED
    BY <2>1, <2>2, <2>3, CapsAreNat DEF Single
<1>3. CASE memory.state # NothingKnown
  <2>1. IsList(memory.took) /\ Differ(memory.took)
    BY <1>3 DEF MadeOf
  <2>2. PICK selected : selected = Selected(memory.took) /\ memory.state \in Refinements(selected, Extracted(selected))
    BY <1>3 DEF MadeOf
  <2>3. InOrder(memory.took, selected)
    BY <2>1, <2>2, SelectedWell
  <2>4. WithinCaps(Extracted(selected))
    <3> SUFFICES ASSUME NEW f \in Fields
                 PROVE  Single(Extracted(selected).items[f]) /\ Size(Extracted(selected).items[f]) <= CapOf(f)
      BY DEF WithinCaps
    <3> DEFINE saying == Saying(selected, f)
               texts == [i \in DOMAIN saying |-> saying[i].text]
    <3>1. Extracted(selected).items[f] = Latest(Uniq(texts), CapOf(f))
      BY DEF Extracted, Said
    <3>2. IsList(saying)
      <4> DEFINE I == {i \in DOMAIN selected : f \in selected[i].says}
      <4>1. saying = Filter(selected, I) /\ I \in SUBSET DOMAIN selected
        BY DEF Saying
      <4> QED
        BY <2>3, <4>1, FilterList DEF InOrder
    <3> HIDE DEF saying
    <3>3. IsList(texts)
      <4>1. Size(saying) \in Nat /\ DOMAIN saying = 1..Size(saying)
        BY <3>2, ListDomain
      <4> QED
        BY <4>1, ListSize
    <3> HIDE DEF texts
    <3> QED
      BY <3>1, <3>3, UniqSingle, LatestSingle, CapsAreNat
  <2>5. ASSUME NEW p \in Patches
        PROVE  WithinCaps(Merged(Extracted(selected), p))
    <3> DEFINE base == Extracted(selected)
    <3> HIDE DEF base
    <3> SUFFICES ASSUME NEW f \in Fields
                 PROVE  Single(Merged(base, p).items[f]) /\ Size(Merged(base, p).items[f]) <= CapOf(f)
      BY DEF WithinCaps, base
    <3>1. Single(base.items[f]) /\ Size(base.items[f]) <= CapOf(f)
      BY <2>4 DEF WithinCaps, base
    <3>2. /\ IsFiniteSet(DOMAIN p.items[f]) /\ DOMAIN p.items[f] = 1..Size(p.items[f])
          /\ Size(p.items["progress"]) <= 1
      BY WorkingMemoryAssumption DEF IsPatch
    <3>3. Size(p.items[f]) \in Nat /\ IsList(p.items[f])
      <4>1. Size(p.items[f]) \in Nat
        BY <3>2, FS_CardinalityType DEF Size
      <4> QED
        BY <3>2, <4>1, ListSize
    <3>4. CASE f # "progress"
      <4>1. Merged(base, p).items[f] = Latest(Uniq(Concat(base.items[f], p.items[f])), MaxItems)
        BY <3>4 DEF Merged
      <4>2. IsList(Concat(base.items[f], p.items[f]))
        BY <3>1, <3>3, ConcatList DEF Single
      <4>3. CapOf(f) = MaxItems /\ MaxItems \in Nat
        BY <3>4, WorkingMemoryAssumption DEF CapOf
      <4> QED
        BY <4>1, <4>2, <4>3, UniqSingle, LatestSingle
    <3>5. CASE f = "progress"
      <4>1. Merged(base, p).items[f] = IF p.items[f] # << >> THEN p.items[f] ELSE base.items[f]
        BY <3>5 DEF Merged
      <4>2. Size(p.items[f]) <= 1 /\ \A i, j \in DOMAIN p.items[f] : i = j
        <5>1. Size(p.items[f]) <= 1
          BY <3>2, <3>5
        <5>2. \A i \in DOMAIN p.items[f] : i = 1
          BY <3>2, <3>3, <5>1
        <5> QED
          BY <5>1, <5>2
      <4>3. Single(p.items[f]) /\ Size(p.items[f]) <= CapOf(f)
        BY <3>3, <4>2, CapsAreNat DEF Single
      <4> QED
        BY <3>1, <4>1, <4>3
    <3> QED
      BY <3>4, <3>5
  <2>6. memory.state = Extracted(selected) \/ \E p \in Patches : memory.state = Merged(Extracted(selected), p)
    BY <2>2 DEF Refinements
  <2> QED
    BY <2>4, <2>5, <2>6
<1> QED
  BY <1>2, <1>3

\* Each cache holds an entry a key, and no more than its capacity.
Bounded ==
  \A cache \in {resolved, recalled} : Keyed(cache) /\ Size(cache) <= MaxEntries

\* A cache in the beginning, and after a restart.
LEMMA NoneBounded == Keyed(<< >>) /\ Size(<< >>) <= MaxEntries
<1>1. DOMAIN << >> = 1..0 /\ 0 \in Nat
  OBVIOUS
<1>2. IsList(<< >>) /\ Size(<< >>) = 0
  BY <1>1, ListSize
<1> QED
  BY <1>2, ConstantsAssumption DEF Keyed

\* Every cache that changes is written to, or ages, or is lost.
LEMMA NextBounded ==
  ASSUME Bounded, Recent, [Next]_vars
  PROVE  Bounded'
<1>1. Keyed(resolved) /\ Keyed(recalled) /\ Size(resolved) <= MaxEntries /\ Size(recalled) <= MaxEntries
  BY DEF Bounded
<1>2. ASSUME resolved' = resolved \/ \E key, age : resolved' = Put(resolved, key, age),
             recalled' = recalled \/ \E key, age : recalled' = Put(recalled, key, age)
      PROVE  Bounded'
  <2>1. Keyed(resolved') /\ Size(resolved') <= MaxEntries
    BY <1>1, <1>2, PutBounded
  <2>2. Keyed(recalled') /\ Size(recalled') <= MaxEntries
    BY <1>1, <1>2, PutBounded
  <2> QED
    BY <2>1, <2>2 DEF Bounded
<1>3. ASSUME NEW r \in Sessions, Serve(r)
      PROVE  Bounded'
  <2>1. CASE Resolve(r)
    <3>1. /\ resolved' = resolved \/ \E key, age : resolved' = Put(resolved, key, age)
          /\ recalled' = recalled \/ \E key, age : recalled' = Put(recalled, key, age)
      <4> DEFINE key == <<ResolvedKey(session[r].q, session[r].key), RecallKey(session[r].q, session[r].key)>>
      <4> HIDE DEF key
      <4>1. \/ resolved' = resolved /\ recalled' = recalled
            \/ resolved' = Put(resolved, key[1], 0) /\ recalled' = recalled
            \/ resolved' = Put(resolved, key[1], AgeIn(recalled, key[2])) /\ recalled' = recalled
        BY <2>1 DEF Resolve, AfterGet, caches, key
      <4> QED
        BY <4>1
    <3> QED
      BY <1>2, <3>1
  <2>2. CASE Retrieve(r)
    <3>1. resolved' = Put(resolved, session[r].key[1], 0) /\ recalled' = Put(recalled, session[r].key[2], 0)
      BY <2>2 DEF Retrieve
    <3> QED
      BY <1>2, <3>1
  <2>3. CASE \/ \E q \in Requests : Begin(r, q)
             \/ \E n \in 1..3 : Load(r, n)
             \/ AnswerStatus(r) \/ AnswerTurn(r) \/ Write(r) \/ RequestUpdate(r) \/ RequestDigest(r)
             \/ RequestFails(r) \/ BackgroundFails(r)
    <3>1. resolved' = resolved /\ recalled' = recalled
      BY <2>3 DEF Begin, Load, AnswerStatus, AnswerTurn, Write, RequestUpdate, RequestDigest, RequestFails, BackgroundFails, caches
    <3> QED
      BY <1>2, <3>1
  <2> QED
    BY <1>3, <2>1, <2>2, <2>3 DEF Serve
<1>4. CASE (\E w \in Workers : Work(w)) \/ (\E h \in Uploads : Upload(h)) \/ Expire \/ Digest \/ UNCHANGED vars
  <2>1. resolved' = resolved /\ recalled' = recalled
    BY <1>4 DEF Work, UpdateRead, UpdateVersion, UpdateWrite, UpdateFails, Upload, Expire, Digest, vars, caches
  <2> QED
    BY <1>2, <2>1
<1>5. CASE Tick
  <2>1. PICK C : IsArray(recalled, Fresh(C, TTL))
    BY DEF Recent
  <2>2. PICK D : IsArray(resolved, Fresh(D, 2 * TTL - 1))
    BY DEF Recent
  <2>3. resolved' = Older(resolved) /\ recalled' = Older(recalled)
    BY <1>5 DEF Tick
  <2>4. Keyed(Older(resolved)) /\ Size(Older(resolved)) <= MaxEntries
    BY <1>1, <2>2, OlderBounded
  <2>5. Keyed(Older(recalled)) /\ Size(Older(recalled)) <= MaxEntries
    BY <1>1, <2>1, OlderBounded
  <2> QED
    BY <2>3, <2>4, <2>5 DEF Bounded
<1>6. CASE Restart
  BY <1>6, NoneBounded DEF Restart, Bounded
<1> QED
  BY <1>3, <1>4, <1>5, <1>6 DEF Next

-----------------------------------------------------------------------------
(* What a turn leads to *)

\* The update of a turn is yet to be asked for.
Awaits(s) ==
  s.phase \in {"loading", "asking", "known"} \/ (s.phase = "background" /\ Duty(s) \in {"write", "update"})

Running(w) == update[w].phase # "idle"

\* U are the turns whose update is written, D those whose digest was asked for: either
\* happens once a turn.
Counted(U, D) ==
  /\ U \subseteq 1..turns /\ D \subseteq 1..turns
  /\ memory.version \in 0..Cardinality(U) /\ digests \in 0..Cardinality(D)
  /\ \A w \in Workers : update[w].phase = "version" => update[w].version \in 0..Cardinality(U)
  /\ \A k \in DOMAIN jobs : jobs[k].turn \in (1..turns) \ U
  /\ \A w \in Workers : Running(w) => update[w].job.turn \in (1..turns) \ U
  /\ \A k, l \in DOMAIN jobs : jobs[k].turn = jobs[l].turn => k = l
  /\ \A v, w \in Workers : (Running(v) /\ Running(w) /\ update[v].job.turn = update[w].job.turn) => v = w
  /\ \A k \in DOMAIN jobs, w \in Workers : Running(w) => jobs[k].turn # update[w].job.turn
  /\ \A r \in Sessions : Busy(r) => session[r].turn \notin D
  /\ \A r \in Sessions : Awaits(session[r]) =>
       /\ session[r].turn \notin U
       /\ \A k \in DOMAIN jobs : jobs[k].turn # session[r].turn
       /\ \A w \in Workers : Running(w) => update[w].job.turn # session[r].turn

Within ==
  /\ turns \in 0..MaxTurns /\ uploads \in 0..MaxUploads /\ gap \in 0..(Window + 1) /\ digest \in 0..MaxDigests
  /\ \E U, D : Counted(U, D)

\* There are no more turns of a kind than turns.
LEMMA TurnsFinite ==
  ASSUME NEW n \in Nat, NEW U, U \subseteq 1..n
  PROVE  IsFiniteSet(U) /\ Cardinality(U) \in Nat /\ Cardinality(U) <= n
<1>1. IsFiniteSet(1..n) /\ Cardinality(1..n) = n
  <2>1. IsFiniteSet(1..n) /\ Cardinality(1..n) = IF 1 > n THEN 0 ELSE n - 1 + 1
    BY FS_Interval
  <2> QED
    BY <2>1
<1> QED
  BY <1>1, FS_Subset, FS_CardinalityType

\* A turn that was none of them makes one more.
LEMMA TurnsMore ==
  ASSUME NEW n \in Nat, NEW U, U \subseteq 1..n, NEW t \in (1..n) \ U
  PROVE  U \cup {t} \subseteq 1..n /\ Cardinality(U \cup {t}) = Cardinality(U) + 1
BY TurnsFinite, FS_AddElement

\* No turn has led to anything in the beginning.
LEMMA InitWithin == Init => Within
<1> SUFFICES ASSUME Init PROVE Within
  OBVIOUS
<1>1. Cardinality({}) = 0
  BY FS_EmptySet
<1>2. \A r \in Sessions : ~Busy(r) /\ ~Awaits(session[r])
  BY DEF Init, Busy, Awaits, IdleSession
<1>3. \A w \in Workers : ~Running(w) /\ update[w].phase # "version"
  BY DEF Init, Running, NoUpdate
<1>4. turns = 0 /\ memory.version = 0 /\ digests = 0 /\ DOMAIN jobs = {}
  BY DEF Init
<1>5. Counted({}, {})
  BY <1>1, <1>2, <1>3, <1>4 DEF Counted
<1>6. gap \in 0..(Window + 1) /\ digest \in 0..MaxDigests /\ turns \in 0..MaxTurns /\ uploads \in 0..MaxUploads
  BY ConstantsAssumption DEF Init
<1> QED
  BY <1>5, <1>6 DEF Within

\* A session that goes on with its turn, or ends, or begins one: nothing is asked for.
LEMMA SessionCounted ==
  ASSUME NEW U, NEW D, Counted(U, D), turns \in Nat, turns' \in Nat, turns <= turns',
         UNCHANGED <<memory, digests, jobs, update>>,
         \A p \in Sessions :
           \/ /\ Busy(p)' => Busy(p) /\ session'[p].turn = session[p].turn
              /\ Awaits(session'[p]) => Awaits(session[p]) /\ session'[p].turn = session[p].turn
           \/ session'[p].turn = 0 \/ session'[p].turn = turns + 1
  PROVE  Counted(U, D)'
<1>1. 1..turns \subseteq 1..turns' /\ 0 \notin 1..turns /\ turns + 1 \notin 1..turns
  OBVIOUS
<1>2. \A w \in Workers : Running(w)' <=> Running(w)
  BY DEF Running
<1>3. /\ (U \subseteq 1..turns)' /\ (D \subseteq 1..turns)'
      /\ (memory.version \in 0..Cardinality(U))' /\ (digests \in 0..Cardinality(D))'
      /\ (\A w \in Workers : update[w].phase = "version" => update[w].version \in 0..Cardinality(U))'
  BY <1>1 DEF Counted
<1>4. /\ (\A k \in DOMAIN jobs : jobs[k].turn \in (1..turns) \ U)'
      /\ (\A w \in Workers : Running(w) => update[w].job.turn \in (1..turns) \ U)'
  BY <1>1, <1>2 DEF Counted
<1>5. /\ (\A k, l \in DOMAIN jobs : jobs[k].turn = jobs[l].turn => k = l)'
      /\ (\A v, w \in Workers : (Running(v) /\ Running(w) /\ update[v].job.turn = update[w].job.turn) => v = w)'
      /\ (\A k \in DOMAIN jobs, w \in Workers : Running(w) => jobs[k].turn # update[w].job.turn)'
  BY <1>2 DEF Counted
<1>6. (\A r \in Sessions : Busy(r) => session[r].turn \notin D)'
  BY <1>1 DEF Counted
<1>7. (\A r \in Sessions : Awaits(session[r]) =>
         /\ session[r].turn \notin U
         /\ \A k \in DOMAIN jobs : jobs[k].turn # session[r].turn
         /\ \A w \in Workers : Running(w) => update[w].job.turn # session[r].turn)'
  BY <1>1, <1>2 DEF Counted
<1> QED
  BY <1>3, <1>4, <1>5, <1>6, <1>7 DEF Counted

\* Turns, digests and the gap stay in their bounds.
LEMMA NextSmall ==
  ASSUME turns \in 0..MaxTurns, uploads \in 0..MaxUploads, gap \in 0..(Window + 1), digest \in 0..MaxDigests,
         [Next]_vars
  PROVE  (/\ turns \in 0..MaxTurns /\ uploads \in 0..MaxUploads
          /\ gap \in 0..(Window + 1) /\ digest \in 0..MaxDigests)'
<1>1. Window \in Nat /\ MaxTurns \in Nat /\ MaxUploads \in Nat /\ MaxDigests \in Nat
  BY ConstantsAssumption
<1>2. ASSUME NEW r \in Sessions, NEW q \in Requests, Begin(r, q)
      PROVE  turns' \in 0..MaxTurns /\ UNCHANGED <<uploads, gap, digest>>
  <2>1. /\ (q.turn => turns < MaxTurns) /\ turns' = (IF q.turn THEN turns + 1 ELSE turns)
        /\ UNCHANGED <<uploads, gap, digest>>
    BY <1>2 DEF Begin, data
  <2> QED
    BY <1>1, <2>1
<1>3. \A said : GapAfter(said) \in 0..(Window + 1)
  BY <1>1 DEF GapAfter
<1>4. ASSUME NEW r \in Sessions, Write(r)
      PROVE  gap' \in 0..(Window + 1) /\ UNCHANGED <<turns, uploads, digest>>
  <2>1. (gap' = gap \/ \E said : gap' = GapAfter(said)) /\ UNCHANGED <<turns, uploads, digest>>
    BY <1>4 DEF Write
  <2> QED
    BY <1>3, <2>1
<1>5. ASSUME NEW r \in Sessions,
             \/ \E n \in 1..3 : Load(r, n)
             \/ Resolve(r) \/ Retrieve(r) \/ AnswerStatus(r) \/ AnswerTurn(r) \/ RequestUpdate(r) \/ RequestDigest(r)
             \/ RequestFails(r) \/ BackgroundFails(r)
      PROVE  UNCHANGED <<turns, uploads, gap, digest>>
  BY <1>5 DEF Load, Resolve, Retrieve, AnswerStatus, AnswerTurn, RequestUpdate, RequestDigest, RequestFails, BackgroundFails, data
<1>6. ASSUME NEW w \in Workers, Work(w)
      PROVE  UNCHANGED <<turns, uploads, gap, digest>>
  BY <1>6 DEF Work, UpdateRead, UpdateVersion, UpdateWrite, UpdateFails, data
<1>7. CASE Digest
  <2>1. digest' = digest + 1 /\ digest < MaxDigests /\ UNCHANGED <<turns, uploads, gap>>
    BY <1>7 DEF Digest, data
  <2> QED
    BY <1>1, <2>1
<1>8. CASE Tick
  <2>1. gap' = AtMost(Window + 1, gap + 1) /\ UNCHANGED <<turns, uploads, digest>>
    BY <1>8 DEF Tick
  <2> QED
    BY <1>1, <2>1 DEF AtMost
<1>9. ASSUME NEW h \in Uploads, Upload(h)
      PROVE  uploads' \in 0..MaxUploads /\ gap' \in 0..(Window + 1) /\ UNCHANGED <<turns, digest>>
  <2>1. /\ uploads' = uploads + 1 /\ uploads < MaxUploads /\ UNCHANGED <<turns, digest>>
        /\ gap' = gap \/ \E said : gap' = GapAfter(said)
    BY <1>9 DEF Upload
  <2>2. uploads' \in 0..MaxUploads
    BY <1>1, <2>1
  <2> QED
    BY <1>3, <2>1, <2>2
<1>10. CASE Expire \/ Restart \/ UNCHANGED vars
  BY <1>10 DEF Expire, Restart, vars, data
<1> QED
  BY <1>2, <1>4, <1>5, <1>6, <1>7, <1>8, <1>9, <1>10 DEF Next, Serve

\* What a session goes on with is its turn still.
GoesOn(s, u) ==
  /\ u.phase # "idle" => s.phase # "idle" /\ u.turn = s.turn
  /\ Awaits(u) => Awaits(s) /\ u.turn = s.turn

\* A turn in the background is the turn that was answered.
LEMMA ProceedGoesOn ==
  ASSUME NEW K, NEW s \in SessionStates(K), s.phase # "idle", NEW u \in SessionStates(K), u.turn = s.turn,
         Awaits(s)
  PROVE  GoesOn(s, Proceed(u))
<1>1. Proceed(u).phase \in {"idle", "background"}
  BY DEF Proceed, IdleSession, SessionStates
<1>2. CASE Proceed(u).phase = "idle"
  BY <1>2 DEF GoesOn, Awaits
<1>3. CASE Proceed(u).phase = "background"
  <2>1. Proceed(u).turn = u.turn
    BY <1>3, ProceedKeepsPart
  <2> QED
    BY <2>1 DEF GoesOn
<1> QED
  BY <1>1, <1>2, <1>3

\* A step of a session that asks for nothing.
LEMMA StepCounted ==
  ASSUME NEW U, NEW D, Counted(U, D), Recent, NEW r \in Sessions, NEW u,
         session' = [session EXCEPT ![r] = u], GoesOn(session[r], u),
         UNCHANGED <<memory, digests, jobs, update, turns>>
  PROVE  Counted(U, D)'
<1>1. PICK K : << >> \in K /\ session \in [Sessions -> SessionStates(K)]
  BY DEF Recent
<1>2. \A p \in Sessions : session'[p] = IF p = r THEN u ELSE session[p]
  BY <1>1
<1>3. turns \in Nat /\ turns' \in Nat /\ turns <= turns'
  BY DEF Recent
<1>4. \A p \in Sessions :
        /\ Busy(p)' => Busy(p) /\ session'[p].turn = session[p].turn
        /\ Awaits(session'[p]) => Awaits(session[p]) /\ session'[p].turn = session[p].turn
  BY <1>2 DEF Busy, GoesOn
<1> QED
  BY <1>3, <1>4, SessionCounted

\* Beginning, answering and storing a turn, and failing at it, ask for nothing.
LEMMA RequestCounted ==
  ASSUME NEW U, NEW D, Counted(U, D), Recent, NEW r \in Sessions,
         \/ \E q \in Requests : Begin(r, q)
         \/ \E n \in 1..3 : Load(r, n)
         \/ Resolve(r) \/ Retrieve(r) \/ AnswerStatus(r) \/ AnswerTurn(r) \/ Write(r) \/ RequestFails(r) \/ BackgroundFails(r)
  PROVE  Counted(U, D)'
<1>1. PICK K : << >> \in K /\ session \in [Sessions -> SessionStates(K)]
  BY DEF Recent
<1>2. session[r] \in SessionStates(K)
  BY <1>1
<1>3. CASE AnswerStatus(r) \/ RequestFails(r) \/ BackgroundFails(r)
  <2>1. session' = [session EXCEPT ![r] = IdleSession] /\ UNCHANGED <<memory, digests, jobs, update, turns>>
    BY <1>3 DEF AnswerStatus, RequestFails, BackgroundFails, data, queues
  <2>2. GoesOn(session[r], IdleSession)
    BY DEF IdleSession, GoesOn, Awaits
  <2> QED
    BY <2>1, <2>2, StepCounted
<1>4. CASE (\E n \in 1..3 : Load(r, n)) \/ Resolve(r) \/ Retrieve(r)
  <2>1. PICK u : /\ session' = [session EXCEPT ![r] = u]
                 /\ u.phase \in {"loading", "asking", "known"} /\ u.turn = session[r].turn
    BY <1>4, Onward
  <2>2. session[r].phase \in {"loading", "asking"} /\ UNCHANGED <<memory, digests, jobs, update, turns>>
    BY <1>4, Onward DEF data, queues
  <2>3. GoesOn(session[r], u)
    BY <2>1, <2>2 DEF GoesOn, Awaits
  <2> QED
    BY <2>1, <2>2, <2>3, StepCounted
<1>5. CASE AnswerTurn(r)
  <2>1. /\ session' = [session EXCEPT ![r] = Proceed(session[r])] /\ session[r].phase = "known"
        /\ UNCHANGED <<memory, digests, jobs, update, turns>>
    BY <1>5 DEF AnswerTurn, data, queues
  <2>2. Awaits(session[r])
    BY <2>1 DEF Awaits
  <2>3. GoesOn(session[r], Proceed(session[r]))
    BY <1>2, <2>1, <2>2, ProceedGoesOn
  <2> QED
    BY <2>1, <2>3, StepCounted
<1>6. CASE Write(r)
  <2> DEFINE done == [session[r] EXCEPT !.part = @ + 1]
  <2>1. /\ session' = [session EXCEPT ![r] = Proceed(done)]
        /\ session[r].phase = "background" /\ Duty(session[r]) = "write"
        /\ UNCHANGED <<memory, digests, jobs, update, turns>>
    BY <1>6 DEF Write, queues
  <2>2. done \in SessionStates(K) /\ done.turn = session[r].turn
    BY <1>2 DEF SessionStates
  <2> HIDE DEF done
  <2>3. Awaits(session[r])
    BY <2>1 DEF Awaits
  <2>4. GoesOn(session[r], Proceed(done))
    BY <1>2, <2>1, <2>2, <2>3, ProceedGoesOn
  <2> QED
    BY <2>1, <2>4, StepCounted
<1>7. ASSUME NEW q \in Requests, Begin(r, q)
      PROVE  Counted(U, D)'
  <2>1. /\ turns \in Nat /\ UNCHANGED <<memory, digests, jobs, update>>
        /\ turns' = (IF q.turn THEN turns + 1 ELSE turns)
        /\ session' = [session EXCEPT ![r] = Started(q)]
        /\ Started(q).turn = (IF q.turn THEN turns + 1 ELSE 0)
    BY <1>7, Entered DEF data, queues, Recent
  <2>2. turns' \in Nat /\ turns <= turns'
    BY <2>1
  <2>3. session'[r].turn = 0 \/ session'[r].turn = turns + 1
    BY <1>1, <2>1
  <2>4. \A p \in Sessions : p # r => session'[p] = session[p]
    BY <1>1, <2>1
  <2>5. \A p \in Sessions :
          \/ /\ Busy(p)' => Busy(p) /\ session'[p].turn = session[p].turn
             /\ Awaits(session'[p]) => Awaits(session[p]) /\ session'[p].turn = session[p].turn
          \/ session'[p].turn = 0 \/ session'[p].turn = turns + 1
    BY <2>3, <2>4 DEF Busy
  <2> QED
    BY <2>1, <2>2, <2>5, SessionCounted
<1> QED
  BY <1>3, <1>4, <1>5, <1>6, <1>7

\* The update is asked for once a turn.
LEMMA RequestUpdateCounted ==
  ASSUME NEW U, NEW D, Counted(U, D), Own, Whole, Recent, NEW r \in Sessions, RequestUpdate(r)
  PROVE  Counted(U, D)'
<1> DEFINE s == session[r]
           done == [s EXCEPT !.part = @ + 1]
           job == [turn |-> s.turn, tries |-> 0, parts |-> {Part(s.q, s.turn, n) : n \in 1..Parts(s.q)}]
           u == Proceed(done)
<1>1. PICK K : << >> \in K /\ session \in [Sessions -> SessionStates(K)]
  BY DEF Recent
<1>2. s \in SessionStates(K)
  BY <1>1
<1>3. /\ s.phase = "background" /\ Duty(s) = "update"
      /\ jobs' = Append(jobs, job) /\ session' = [session EXCEPT ![r] = u]
      /\ UNCHANGED <<memory, digests, update, turns>>
  BY DEF RequestUpdate, data
<1>4. Awaits(s) /\ Busy(r)
  BY <1>3 DEF Awaits, Busy
<1>5. s.turn \in 1..turns
  <2>1. s.turn \in Nat /\ turns \in Nat
    BY <1>2 DEF SessionStates, Recent
  <2> QED
    BY <1>3, <1>4, <2>1 DEF Own, Numbered
<1>6. /\ done \in SessionStates(K) /\ done.part = s.part + 1 /\ done.turn = s.turn /\ done.q = s.q /\ s.part \in Nat
  BY <1>2 DEF SessionStates
<1>7. s.part = Parts(s.q)
  BY <1>3 DEF Duty
<1>8. Duty(done) \notin {"write", "update"}
  BY <1>6, <1>7 DEF Duty
<1>9. job.turn = s.turn
  OBVIOUS
<1> HIDE DEF job, done
<1>10. ~Awaits(u) /\ (u.phase # "idle" => u.turn = s.turn)
  <2>1. u.phase \in {"idle", "background"}
    BY <1>6 DEF Proceed, IdleSession, SessionStates
  <2>2. CASE u.phase = "background"
    <3>1. u.turn = done.turn /\ Duty(u) = Duty(done)
      BY <1>6, <2>2, ProceedKeepsPart
    <3> QED
      BY <1>6, <1>8, <2>2, <3>1 DEF Awaits
  <2> QED
    BY <2>1, <2>2 DEF Awaits
<1> HIDE DEF u
<1>11. /\ DOMAIN jobs' = DOMAIN jobs \cup {Len(jobs) + 1} /\ Len(jobs) + 1 \notin DOMAIN jobs
       /\ jobs'[Len(jobs) + 1] = job /\ \A k \in DOMAIN jobs : jobs'[k] = jobs[k]
  <2>1. PICK J : jobs \in Seq(J) /\ job \in J
    <3>1. jobs \in Seq(Jobs \cup {job})
      BY DEF Whole, Shaped
    <3> QED
      BY <3>1
  <2> QED
    BY <1>3, <2>1
<1>12. \A p \in Sessions : session'[p] = IF p = r THEN u ELSE session[p]
  BY <1>1, <1>3
<1>13. \A w \in Workers : Running(w)' <=> Running(w)
  BY <1>3 DEF Running
<1>14. /\ s.turn \in (1..turns) \ U
       /\ \A k \in DOMAIN jobs : jobs[k].turn # s.turn
       /\ \A w \in Workers : Running(w) => update[w].job.turn # s.turn
  BY <1>4, <1>5 DEF Counted
<1>15. \A p \in Sessions : Awaits(session'[p]) =>
         p # r /\ session'[p] = session[p] /\ session'[p].turn # s.turn
  <2> SUFFICES ASSUME NEW p \in Sessions, Awaits(session'[p])
               PROVE  p # r /\ session'[p] = session[p] /\ session'[p].turn # s.turn
    OBVIOUS
  <2>1. p # r /\ session'[p] = session[p] /\ Busy(p)
    BY <1>10, <1>12 DEF Awaits, Busy
  <2> QED
    BY <1>4, <1>5, <2>1 DEF Own, Numbered
<1>16. /\ (\A k \in DOMAIN jobs : jobs[k].turn \in (1..turns) \ U)'
       /\ (\A k, l \in DOMAIN jobs : jobs[k].turn = jobs[l].turn => k = l)'
       /\ (\A k \in DOMAIN jobs, w \in Workers : Running(w) => jobs[k].turn # update[w].job.turn)'
  BY <1>3, <1>9, <1>11, <1>13, <1>14 DEF Counted
<1>17. (\A p \in Sessions : Busy(p) => session[p].turn \notin D)'
  BY <1>4, <1>10, <1>12 DEF Counted, Busy
<1>18. (\A p \in Sessions : Awaits(session[p]) =>
          /\ session[p].turn \notin U
          /\ \A k \in DOMAIN jobs : jobs[k].turn # session[p].turn
          /\ \A w \in Workers : Running(w) => update[w].job.turn # session[p].turn)'
  BY <1>3, <1>9, <1>11, <1>13, <1>15 DEF Counted
<1>19. /\ (U \subseteq 1..turns)' /\ (D \subseteq 1..turns)'
       /\ (memory.version \in 0..Cardinality(U))' /\ (digests \in 0..Cardinality(D))'
       /\ (\A w \in Workers : update[w].phase = "version" => update[w].version \in 0..Cardinality(U))'
       /\ (\A w \in Workers : Running(w) => update[w].job.turn \in (1..turns) \ U)'
       /\ (\A v, w \in Workers : (Running(v) /\ Running(w) /\ update[v].job.turn = update[w].job.turn) => v = w)'
  BY <1>3, <1>13 DEF Counted
<1> QED
  BY <1>16, <1>17, <1>18, <1>19 DEF Counted

\* So is the digest.
LEMMA RequestDigestCounted ==
  ASSUME NEW U, NEW D, Counted(U, D), Own, Recent, NEW r \in Sessions, RequestDigest(r)
  PROVE  \E F : Counted(U, F)'
<1> DEFINE t == session[r].turn
<1>1. PICK K : << >> \in K /\ session \in [Sessions -> SessionStates(K)]
  BY DEF Recent
<1>2. /\ session[r].phase = "background" /\ Busy(r)
      /\ digests' = digests + 1 /\ session' = [session EXCEPT ![r] = IdleSession]
      /\ UNCHANGED <<memory, jobs, update, turns>>
  BY DEF RequestDigest, data, Busy
<1>3. t \in (1..turns) \ D /\ turns \in Nat
  <2>1. session[r] \in SessionStates(K)
    BY <1>1
  <2>2. t \in Nat /\ turns \in Nat
    BY <2>1 DEF SessionStates, Recent
  <2> QED
    BY <1>2, <2>2 DEF Own, Numbered, Counted
<1>4. (D \cup {t}) \subseteq 1..turns /\ Cardinality(D \cup {t}) = Cardinality(D) + 1 /\ Cardinality(D) \in Nat
  BY <1>3, TurnsMore, TurnsFinite DEF Counted
<1>5. \A p \in Sessions : session'[p] = IF p = r THEN IdleSession ELSE session[p]
  BY <1>1, <1>2
<1>6. IdleSession.phase = "idle" /\ ~Awaits(IdleSession)
  BY DEF IdleSession, Awaits
<1>7. \A w \in Workers : Running(w)' <=> Running(w)
  BY <1>2 DEF Running
<1>8. \A p \in Sessions : Busy(p)' => session'[p].turn \notin D \cup {t}
  <2> SUFFICES ASSUME NEW p \in Sessions, Busy(p)' PROVE session'[p].turn \notin D \cup {t}
    OBVIOUS
  <2>1. p # r /\ session'[p] = session[p] /\ Busy(p)
    BY <1>5, <1>6 DEF Busy
  <2> QED
    BY <1>2, <1>3, <2>1 DEF Own, Numbered, Counted
<1>9. digests' \in 0..Cardinality(D \cup {t})
  BY <1>2, <1>4 DEF Counted
<1>10. (\A p \in Sessions : Awaits(session[p]) =>
          /\ session[p].turn \notin U
          /\ \A k \in DOMAIN jobs : jobs[k].turn # session[p].turn
          /\ \A w \in Workers : Running(w) => update[w].job.turn # session[p].turn)'
  BY <1>2, <1>5, <1>6, <1>7 DEF Counted
<1>11. PICK F : F = D \cup {t}
  OBVIOUS
<1>12. Counted(U, F)'
  <2>1. /\ (U \subseteq 1..turns)' /\ (F \subseteq 1..turns)'
        /\ (memory.version \in 0..Cardinality(U))' /\ (digests \in 0..Cardinality(F))'
        /\ (\A p \in Sessions : Busy(p) => session[p].turn \notin F)'
    BY <1>2, <1>4, <1>8, <1>9, <1>11 DEF Counted
  <2>2. /\ (\A w \in Workers : update[w].phase = "version" => update[w].version \in 0..Cardinality(U))'
        /\ (\A k \in DOMAIN jobs : jobs[k].turn \in (1..turns) \ U)'
        /\ (\A w \in Workers : Running(w) => update[w].job.turn \in (1..turns) \ U)'
        /\ (\A k, l \in DOMAIN jobs : jobs[k].turn = jobs[l].turn => k = l)'
        /\ (\A v, w \in Workers : (Running(v) /\ Running(w) /\ update[v].job.turn = update[w].job.turn) => v = w)'
        /\ (\A k \in DOMAIN jobs, w \in Workers : Running(w) => jobs[k].turn # update[w].job.turn)'
    BY <1>2, <1>7 DEF Counted
  <2> QED
    BY <1>10, <2>1, <2>2 DEF Counted
<1> QED
  BY <1>12

\* What counts of jobs that wait and that run, taken apart.
JobsCounted(waiting, running, U, n) ==
  /\ \A w \in Workers : running[w].phase = "version" => running[w].version \in 0..Cardinality(U)
  /\ \A k \in DOMAIN waiting : waiting[k].turn \in (1..n) \ U
  /\ \A w \in Workers : running[w].phase # "idle" => running[w].job.turn \in (1..n) \ U
  /\ \A k, l \in DOMAIN waiting : waiting[k].turn = waiting[l].turn => k = l
  /\ \A v, w \in Workers :
       (running[v].phase # "idle" /\ running[w].phase # "idle" /\ running[v].job.turn = running[w].job.turn) => v = w
  /\ \A k \in DOMAIN waiting, w \in Workers : running[w].phase # "idle" => waiting[k].turn # running[w].job.turn

Turns(waiting, running) ==
  {waiting[k].turn : k \in DOMAIN waiting} \cup {running[w].job.turn : w \in {w \in Workers : running[w].phase # "idle"}}

\* A step of a worker that asks for nothing and lets no turn's update come twice.
LEMMA WorkCounted ==
  ASSUME NEW U, NEW D, Counted(U, D), UNCHANGED <<session, digests, turns>>,
         NEW V, V \subseteq U \cup Turns(jobs, update), V \subseteq 1..turns,
         JobsCounted(jobs', update', V, turns), memory'.version \in 0..Cardinality(V),
         Turns(jobs', update') \subseteq Turns(jobs, update)
  PROVE  Counted(V, D)'
<1>1. \A r \in Sessions : Awaits(session[r]) =>
        session[r].turn \notin U /\ session[r].turn \notin Turns(jobs, update)
  BY DEF Counted, Turns, Running
<1>2. \A r \in Sessions : Awaits(session'[r]) =>
        session'[r].turn \notin V /\ session'[r].turn \notin Turns(jobs', update')
  BY <1>1
<1>3. (\A r \in Sessions : Awaits(session[r]) =>
         /\ session[r].turn \notin V
         /\ \A k \in DOMAIN jobs : jobs[k].turn # session[r].turn
         /\ \A w \in Workers : Running(w) => update[w].job.turn # session[r].turn)'
  BY <1>2 DEF Turns, Running
<1>4. /\ (V \subseteq 1..turns)' /\ (D \subseteq 1..turns)'
      /\ (memory.version \in 0..Cardinality(V))' /\ (digests \in 0..Cardinality(D))'
      /\ (\A p \in Sessions : Busy(p) => session[p].turn \notin D)'
  BY DEF Counted, Busy
<1>5. /\ (\A w \in Workers : update[w].phase = "version" => update[w].version \in 0..Cardinality(V))'
      /\ (\A k \in DOMAIN jobs : jobs[k].turn \in (1..turns) \ V)'
      /\ (\A w \in Workers : Running(w) => update[w].job.turn \in (1..turns) \ V)'
      /\ (\A k, l \in DOMAIN jobs : jobs[k].turn = jobs[l].turn => k = l)'
      /\ (\A v, w \in Workers : (Running(v) /\ Running(w) /\ update[v].job.turn = update[w].job.turn) => v = w)'
      /\ (\A k \in DOMAIN jobs, w \in Workers : Running(w) => jobs[k].turn # update[w].job.turn)'
  BY DEF JobsCounted, Running
<1> QED
  BY <1>3, <1>4, <1>5 DEF Counted

\* A job is taken, and tried again, as one; what is written is of a turn not counted yet.
LEMMA UpdateCounted ==
  ASSUME NEW U, NEW D, Counted(U, D), Whole, turns \in Nat, NEW w \in Workers, Work(w)
  PROVE  \E V : Counted(V, D)'
<1> DEFINE u == update[w]
<1>1. PICK S : {<< >>, {}, 0} \subseteq S /\ update \in [Workers -> UpdateStates(S)]
  BY DEF Whole, Shaped
<1>2. u \in UpdateStates(S) /\ jobs \in Seq(Jobs) /\ (u.phase # "idle" => u.job \in Jobs)
  BY <1>1 DEF Whole, Shaped, ReadWhole
<1>3. /\ JobsCounted(jobs, update, U, turns) /\ memory.version \in 0..Cardinality(U)
      /\ U \subseteq 1..turns /\ Cardinality(U) \in Nat
  BY TurnsFinite DEF Counted, JobsCounted, Running
<1>4. UNCHANGED <<session, digests, turns>>
  BY DEF Work, UpdateRead, UpdateVersion, UpdateWrite, UpdateFails, queues
<1>5. NoUpdate.phase = "idle"
  BY DEF NoUpdate
<1>6. CASE UpdateRead(w)
  <2> DEFINE v == [NoUpdate EXCEPT !.phase = "events", !.job = Head(jobs), !.seen = store, !.lost = lost]
  <2>1. /\ update' = [update EXCEPT ![w] = v] /\ jobs' = Tail(jobs) /\ jobs # << >> /\ memory' = memory
        /\ u.phase = "idle"
    BY <1>6 DEF UpdateRead, data
  <2>2. /\ Head(jobs) = jobs[1] /\ 1 \in DOMAIN jobs
        /\ \A k \in DOMAIN Tail(jobs) : k \in Nat \ {0} /\ k + 1 \in DOMAIN jobs /\ Tail(jobs)[k] = jobs[k + 1]
    BY <1>2, <2>1
  <2>3. v.phase = "events" /\ v.job = jobs[1]
    BY <2>2 DEF NoUpdate
  <2> HIDE DEF v
  <2>4. \A p \in Workers : update'[p] = IF p = w THEN v ELSE update[p]
    BY <1>1, <2>1
  <2>5. \A k \in DOMAIN jobs' : k \in Nat \ {0} /\ k + 1 \in DOMAIN jobs /\ jobs'[k] = jobs[k + 1]
    BY <2>1, <2>2
  <2>6. \A k, l \in DOMAIN jobs' : jobs'[k].turn = jobs'[l].turn => k = l
    <3> SUFFICES ASSUME NEW k \in DOMAIN jobs', NEW l \in DOMAIN jobs', jobs'[k].turn = jobs'[l].turn
                 PROVE  k = l
      OBVIOUS
    <3>1. k + 1 = l + 1
      BY <1>3, <2>5 DEF JobsCounted
    <3> QED
      BY <2>5, <3>1
  <2>7. \A k \in DOMAIN jobs' : jobs'[k].turn # jobs[1].turn
    <3> SUFFICES ASSUME NEW k \in DOMAIN jobs', jobs'[k].turn = jobs[1].turn
                 PROVE  FALSE
      OBVIOUS
    <3>1. k + 1 = 1
      BY <1>3, <2>2, <2>5 DEF JobsCounted
    <3> QED
      BY <2>5, <3>1
  <2>8. JobsCounted(jobs', update', U, turns)
    <3>1. /\ \A p \in Workers : update'[p].phase = "version" => update'[p].version \in 0..Cardinality(U)
          /\ \A k \in DOMAIN jobs' : jobs'[k].turn \in (1..turns) \ U
          /\ \A p \in Workers : update'[p].phase # "idle" => update'[p].job.turn \in (1..turns) \ U
      BY <1>3, <2>2, <2>3, <2>4, <2>5 DEF JobsCounted
    <3>2. /\ \A o, p \in Workers :
               (update'[o].phase # "idle" /\ update'[p].phase # "idle" /\ update'[o].job.turn = update'[p].job.turn) => o = p
      BY <1>3, <2>2, <2>3, <2>4 DEF JobsCounted
    <3>3. \A k \in DOMAIN jobs', p \in Workers : update'[p].phase # "idle" => jobs'[k].turn # update'[p].job.turn
      BY <1>3, <2>3, <2>4, <2>5, <2>7 DEF JobsCounted
    <3> QED
      BY <2>6, <3>1, <3>2, <3>3 DEF JobsCounted
  <2>9. Turns(jobs', update') \subseteq Turns(jobs, update)
    BY <2>2, <2>3, <2>4, <2>5 DEF Turns
  <2> QED
    BY <1>3, <1>4, <2>1, <2>8, <2>9, WorkCounted
<1>7. CASE UpdateVersion(w)
  <2> DEFINE v == [u EXCEPT !.phase = "version", !.version = memory.version]
  <2>1. /\ update' = [update EXCEPT ![w] = v] /\ u.phase = "events" /\ jobs' = jobs /\ memory' = memory
    BY <1>1, <1>7 DEF UpdateVersion, data, queues
  <2>2. v.phase = "version" /\ v.job = u.job /\ v.version = memory.version
    <3> HIDE DEF u
    <3> QED
      BY <1>2 DEF UpdateStates
  <2> HIDE DEF v
  <2>3. \A p \in Workers : update'[p] = IF p = w THEN v ELSE update[p]
    BY <1>1, <2>1
  <2>4. JobsCounted(jobs', update', U, turns)
    BY <1>3, <2>1, <2>2, <2>3 DEF JobsCounted
  <2>5. Turns(jobs', update') \subseteq Turns(jobs, update)
    BY <2>1, <2>2, <2>3 DEF Turns
  <2> QED
    BY <1>3, <1>4, <2>1, <2>4, <2>5, WorkCounted
<1>8. CASE UpdateWrite(w)
  <2>1. /\ update' = [update EXCEPT ![w] = NoUpdate] /\ u.phase = "version" /\ jobs' = jobs
        /\ memory'.version = u.version + 1
    BY <1>8 DEF UpdateWrite, queues
  <2>2. \A p \in Workers : update'[p] = IF p = w THEN NoUpdate ELSE update[p]
    BY <1>1, <2>1
  <2>3. PICK t : t = u.job.turn
    OBVIOUS
  <2>4. PICK W : W = U \cup {t}
    OBVIOUS
  <2>5. t \in (1..turns) \ U /\ t \in Turns(jobs, update)
    BY <1>3, <2>1, <2>3 DEF JobsCounted, Turns
  <2>6. W \subseteq 1..turns /\ Cardinality(W) = Cardinality(U) + 1 /\ W \subseteq U \cup Turns(jobs, update)
    BY <1>3, <2>4, <2>5, TurnsMore
  <2>7. memory'.version \in 0..Cardinality(W)
    BY <1>3, <2>1, <2>6 DEF JobsCounted
  <2>8. JobsCounted(jobs', update', W, turns)
    <3>1. \A p \in Workers : update'[p].phase = "version" => update'[p].version \in 0..Cardinality(W)
      BY <1>3, <1>5, <2>2, <2>6 DEF JobsCounted
    <3>2. \A k \in DOMAIN jobs' : jobs'[k].turn \in (1..turns) \ W
      BY <1>3, <2>1, <2>3, <2>4 DEF JobsCounted
    <3>3. \A p \in Workers : update'[p].phase # "idle" => update'[p].job.turn \in (1..turns) \ W
      BY <1>3, <1>5, <2>1, <2>2, <2>3, <2>4 DEF JobsCounted
    <3>4. /\ \A k, l \in DOMAIN jobs' : jobs'[k].turn = jobs'[l].turn => k = l
          /\ \A o, p \in Workers :
               (update'[o].phase # "idle" /\ update'[p].phase # "idle" /\ update'[o].job.turn = update'[p].job.turn) => o = p
          /\ \A k \in DOMAIN jobs', p \in Workers : update'[p].phase # "idle" => jobs'[k].turn # update'[p].job.turn
      BY <1>3, <1>5, <2>1, <2>2 DEF JobsCounted
    <3> QED
      BY <3>1, <3>2, <3>3, <3>4 DEF JobsCounted
  <2>9. Turns(jobs', update') \subseteq Turns(jobs, update)
    BY <1>5, <2>1, <2>2 DEF Turns
  <2> QED
    BY <1>4, <2>6, <2>7, <2>8, <2>9, WorkCounted
<1>9. CASE UpdateFails(w)
  <2> DEFINE job == [u.job EXCEPT !.tries = @ + 1]
  <2>1. /\ update' = [update EXCEPT ![w] = NoUpdate] /\ u.phase # "idle" /\ memory' = memory
        /\ jobs' = jobs \/ jobs' = Append(jobs, job)
    BY <1>9 DEF UpdateFails, data
  <2>2. job \in Jobs /\ job.turn = u.job.turn
    <3> HIDE DEF u
    <3>1. u.job \in Jobs
      BY <1>2, <2>1
    <3> QED
      BY <3>1 DEF Jobs
  <2> HIDE DEF job
  <2>3. \A p \in Workers : update'[p] = IF p = w THEN NoUpdate ELSE update[p]
    BY <1>1, <2>1
  <2>4. \/ jobs' = jobs
        \/ /\ DOMAIN jobs' = DOMAIN jobs \cup {Len(jobs) + 1} /\ Len(jobs) + 1 \notin DOMAIN jobs
           /\ jobs'[Len(jobs) + 1] = job /\ \A k \in DOMAIN jobs : jobs'[k] = jobs[k]
    <3>1. /\ DOMAIN Append(jobs, job) = DOMAIN jobs \cup {Len(jobs) + 1} /\ Len(jobs) + 1 \notin DOMAIN jobs
          /\ Append(jobs, job)[Len(jobs) + 1] = job /\ \A k \in DOMAIN jobs : Append(jobs, job)[k] = jobs[k]
      BY <1>2, <2>2
    <3> QED
      BY <2>1, <3>1
  <2>5. CASE jobs' = jobs
    <3>1. JobsCounted(jobs', update', U, turns)
      BY <1>3, <1>5, <2>3, <2>5 DEF JobsCounted
    <3>2. Turns(jobs', update') \subseteq Turns(jobs, update)
      BY <1>5, <2>3, <2>5 DEF Turns
    <3> QED
      BY <1>3, <1>4, <2>1, <3>1, <3>2, WorkCounted
  <2>6. CASE /\ DOMAIN jobs' = DOMAIN jobs \cup {Len(jobs) + 1} /\ Len(jobs) + 1 \notin DOMAIN jobs
             /\ jobs'[Len(jobs) + 1] = job /\ \A k \in DOMAIN jobs : jobs'[k] = jobs[k]
    <3>1. \A k \in DOMAIN jobs' :
            \/ k \in DOMAIN jobs /\ jobs'[k].turn = jobs[k].turn /\ jobs[k].turn # u.job.turn
            \/ k = Len(jobs) + 1 /\ jobs'[k].turn = u.job.turn
      BY <1>3, <2>1, <2>2, <2>6 DEF JobsCounted
    <3>2. /\ \A p \in Workers : update'[p].phase = "version" => update'[p].version \in 0..Cardinality(U)
          /\ \A p \in Workers : update'[p].phase # "idle" => update'[p].job.turn \in (1..turns) \ U
          /\ \A o, p \in Workers :
               (update'[o].phase # "idle" /\ update'[p].phase # "idle" /\ update'[o].job.turn = update'[p].job.turn) => o = p
      BY <1>3, <1>5, <2>3 DEF JobsCounted
    <3>3. u.job.turn \in (1..turns) \ U
      BY <1>3, <2>1 DEF JobsCounted
    <3>4. \A k \in DOMAIN jobs' : jobs'[k].turn \in (1..turns) \ U
      BY <1>3, <3>1, <3>3 DEF JobsCounted
    <3>5. \A k, l \in DOMAIN jobs' : jobs'[k].turn = jobs'[l].turn => k = l
      BY <1>3, <3>1 DEF JobsCounted
    <3>6. \A k \in DOMAIN jobs', p \in Workers : update'[p].phase # "idle" => jobs'[k].turn # update'[p].job.turn
      <4> SUFFICES ASSUME NEW k \in DOMAIN jobs', NEW p \in Workers, update'[p].phase # "idle"
                   PROVE  jobs'[k].turn # update'[p].job.turn
        OBVIOUS
      <4>1. p # w /\ update'[p] = update[p] /\ update[p].phase # "idle"
        BY <1>5, <2>3
      <4>2. update[p].job.turn # u.job.turn
        BY <1>3, <2>1, <4>1 DEF JobsCounted
      <4>3. \A l \in DOMAIN jobs : jobs[l].turn # update[p].job.turn
        BY <1>3, <4>1 DEF JobsCounted
      <4> QED
        BY <3>1, <4>1, <4>2, <4>3
    <3>7. JobsCounted(jobs', update', U, turns)
      BY <3>2, <3>4, <3>5, <3>6 DEF JobsCounted
    <3>8. Turns(jobs', update') \subseteq Turns(jobs, update)
      BY <1>5, <2>1, <2>3, <3>1 DEF Turns
    <3> QED
      BY <1>3, <1>4, <2>1, <3>7, <3>8, WorkCounted
  <2> QED
    BY <2>4, <2>5, <2>6
<1> QED
  BY <1>6, <1>7, <1>8, <1>9 DEF Work

\* Every step keeps the counts.
LEMMA NextWithin ==
  ASSUME Within, Own, Whole, Recent, [Next]_vars
  PROVE  Within'
<1>1. PICK U, D : Counted(U, D)
  BY DEF Within
<1>2. turns \in Nat
  BY DEF Recent
<1>3. ASSUME \E V, F : Counted(V, F)'
      PROVE  Within'
  <2>1. PICK V, F : Counted(V, F)'
    BY <1>3
  <2>2. (/\ turns \in 0..MaxTurns /\ uploads \in 0..MaxUploads
         /\ gap \in 0..(Window + 1) /\ digest \in 0..MaxDigests)'
    BY NextSmall DEF Within
  <2> QED
    BY <2>1, <2>2 DEF Within
<1>4. ASSUME NEW r \in Sessions, Serve(r)
      PROVE  Within'
  BY <1>1, <1>3, <1>4, RequestCounted, RequestUpdateCounted, RequestDigestCounted DEF Serve
<1>5. ASSUME NEW w \in Workers, Work(w)
      PROVE  Within'
  BY <1>1, <1>2, <1>3, <1>5, UpdateCounted
<1>6. CASE Digest
  <2>1. digests' = digests - 1 /\ digests > 0 /\ UNCHANGED <<memory, session, jobs, update, turns>>
    BY <1>6 DEF Digest, data
  <2>2. digests' \in 0..Cardinality(D)
    <3>1. Cardinality(D) \in Nat
      BY <1>1, <1>2, TurnsFinite DEF Counted
    <3> QED
      BY <1>1, <2>1, <3>1 DEF Counted
  <2>3. Counted(U, D)'
    BY <1>1, <2>1, <2>2 DEF Counted, Busy, Running
  <2> QED
    BY <1>3, <2>3
<1>7. CASE (\E h \in Uploads : Upload(h)) \/ Expire \/ Tick \/ UNCHANGED vars
  <2>1. UNCHANGED <<memory, digests, session, jobs, update, turns>>
    BY <1>7 DEF Upload, Expire, Tick, vars, data, queues
  <2>2. Counted(U, D)'
    BY <1>1, <2>1 DEF Counted, Busy, Running
  <2> QED
    BY <1>3, <2>2
<1>8. CASE Restart
  <2>1. /\ UNCHANGED <<memory, digests, jobs, update, turns>>
        /\ session' = [r \in Sessions |-> IdleSession]
    BY <1>8 DEF Restart, data, queues
  <2>2. \A r \in Sessions : ~Busy(r)' /\ ~Awaits(session'[r])
    BY <2>1 DEF Busy, Awaits, IdleSession
  <2>3. Counted(U, D)'
    BY <1>2, <1>1, <2>1, <2>2, SessionCounted
  <2> QED
    BY <1>3, <2>3
<1> QED
  BY <1>4, <1>5, <1>6, <1>7, <1>8 DEF Next

\* The bounds of the state, and what the caches and the fields of the snapshot hold.
LEMMA TypeFollows ==
  ASSUME Recent, Whole, Own, MadeOf(memory), Bounded, Within
  PROVE  TypeOK
<1>1. PICK U, D : Counted(U, D)
  BY DEF Within
<1>2. turns \in Nat /\ turns <= MaxTurns /\ MaxTurns \in Nat
  BY ConstantsAssumption DEF Within
<1>3. ASSUME NEW i \in DOMAIN store
      PROVE  store[i].id[1] \in 0..MaxTurns /\ store[i].role \in {"user", "assistant"}
  <2>1. Stems(store[i], turns, session, uploads)
    BY DEF Own
  <2>2. (\E n : store[i].id = <<0, n>>) \/ \E t \in 1..turns, part \in Nat : store[i].id = <<t, part>>
    BY <2>1 DEF Stems
  <2>3. store[i].id[1] = 0 \/ store[i].id[1] \in 1..turns
    BY <2>2
  <2>4. store[i].id[1] \in 0..MaxTurns
    BY <1>2, <2>3
  <2> QED
    BY <2>1, <2>4 DEF Stems
<1>4. lost \subseteq (1..MaxTurns) \X {0}
  <2>1. 1..turns \subseteq 1..MaxTurns
    BY <1>2
  <2> QED
    BY <2>1 DEF Own
<1>5. digests \in 0..MaxTurns /\ memory.version \in 0..MaxTurns
  <2>1. /\ Cardinality(U) \in Nat /\ Cardinality(U) <= turns
        /\ Cardinality(D) \in Nat /\ Cardinality(D) <= turns
    BY <1>1, <1>2, TurnsFinite DEF Counted
  <2> QED
    BY <1>1, <1>2, <2>1 DEF Counted
<1>6. \A f \in Fields : LET items == memory.state.items[f]
                        IN  Size(items) <= CapOf(f) /\ Cardinality(Values(items)) = Size(items)
  BY MadeKeepsCaps, ListOfDifferent DEF WithinCaps, Single
<1>7. \A r \in Sessions : session[r].phase \in {"idle", "loading", "asking", "known", "background"}
  <2>1. PICK K : session \in [Sessions -> SessionStates(K)]
    BY DEF Recent
  <2> QED
    BY <2>1 DEF SessionStates
<1>8. \A w \in Workers : update[w].phase \in {"idle", "events", "version"}
  <2>1. PICK S : update \in [Workers -> UpdateStates(S)]
    BY DEF Whole, Shaped
  <2> QED
    BY <2>1 DEF UpdateStates
<1>9. \A cache \in {resolved, recalled} :
        /\ Size(cache) <= MaxEntries
        /\ \A i, j \in DOMAIN cache : cache[i].key = cache[j].key => i = j
  BY DEF Bounded, Keyed
<1>10. gap \in 0..(Window + 1) /\ digest \in 0..MaxDigests /\ turns \in 0..MaxTurns /\ uploads \in 0..MaxUploads
  BY DEF Within
<1> QED
  BY <1>3, <1>4, <1>5, <1>6, <1>7, <1>8, <1>9, <1>10 DEF TypeOK

\* For any requests, capacities and bounds: neither cache holds more than its capacity or two
\* entries under a key, no field of the snapshot more than its cap or one item twice, and
\* there are no more versions of the snapshot, and no more digests waiting, than turns,
\* however often a job is tried.
THEOREM TypeCorrect == Spec => []TypeOK
<1>1. Init => MadeOf(memory) /\ Uploaded
  BY DEF Init, MadeOf, Uploaded
<1>2. Init => Bounded
  BY NoneBounded DEF Init, Bounded
<1> QED
  BY <1>1, <1>2, InitRecent, NextRecent, InitWhole, NextWhole, InitOwn, NextOwn, NextMade, NextBounded,
     InitWithin, NextWithin, TypeFollows, PTL DEF Spec
=============================================================================
