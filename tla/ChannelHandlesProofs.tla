------------------------ MODULE ChannelHandlesProofs ------------------------
(***************************************************************************)
(* Theorems about ChannelHandles: shared states live as long as their      *)
(* handles, and the tables of the tracer list them, for any number of      *)
(* threads, handles, addresses and locations.                              *)
(***************************************************************************)
EXTENDS ChannelHandles, FiniteSetTheorems, TLAPS

HandleTypes ==
  /\ handle \in [Handles -> Addresses \cup {NoState}]
  /\ uses \in [Addresses -> Nat]
  /\ pc \in [Threads -> PCs]
  /\ busy \in [Threads -> Addresses \cup {NoState}]
  /\ target \in [Threads -> Handles \cup {NoHandle}]
  /\ born \in [Addresses -> Seq(Locations)]
  /\ pool \in Seq(Locations)

Constructing(t) == pc[t] \in {"ctor count", "ctor register"}
Destroying(t) == pc[t] \in {"dtor count", "dtor unregister"}
Working(t) == Constructing(t) \/ Destroying(t) \/ pc[t] = "free"

\* The state a thread constructs or destroys is nobody's, and no other thread's.
Apart(t) ==
  Working(t) =>
    /\ busy[t] \in Addresses /\ uses[busy[t]] = 0
    /\ \A u \in Threads : Working(u) /\ busy[u] = busy[t] => u = t

\* The handle that is being constructed is empty, and nobody else constructs it.
Targets(t) ==
  Constructing(t) =>
    /\ target[t] \in Handles /\ handle[target[t]] = NoState
    /\ born[busy[t]] # <<>>
    /\ \A u \in Threads : target[u] = target[t] => u = t

\* Who copies a location holds the mutex of the tables.
Holds(t) ==
  pc[t] = "copy location" =>
    mux = t /\ (busy[t] # NoState => busy[t] \in DOMAIN entries)

ThreadsApart == \A t \in Threads : Apart(t) /\ Targets(t) /\ Holds(t)

\* Some thread destroys the state at a.
Doomed(a) == \E t \in Threads : Destroying(t) /\ busy[t] = a

\* The tables list what is used or being destroyed, with its location.
Tabled ==
  /\ \A a \in DOMAIN entries : a \in Addresses
  /\ \A a \in Addresses : a \in DOMAIN entries <=> uses[a] > 0 \/ Doomed(a)
  /\ \A a \in DOMAIN entries :
       /\ born[a] # <<>>
       /\ entries[a] \in DOMAIN pool /\ pool[entries[a]] = Birthplace(a)

HInv == HandleTypes /\ UsesExact /\ ThreadsApart /\ Tabled

-----------------------------------------------------------------------------
(* Who holds a state.                                                      *)

HeldBy(f, a) == {h \in Handles : f[h] = a}

\* f, but with v for the handle h.
With(f, h, v) == [f EXCEPT ![h] = v]

LEMMA UsesHeld == UsesExact <=> \A a \in Addresses : uses[a] = Cardinality(HeldBy(handle, a))
BY DEF UsesExact, HeldBy

LEMMA HeldFinite ==
  ASSUME NEW f, NEW a
  PROVE  IsFiniteSet(HeldBy(f, a)) /\ Cardinality(HeldBy(f, a)) \in Nat
BY HandlesAssumption, FS_Subset, FS_CardinalityType DEF HandlesAssumption, HeldBy

\* One handle that changes from one state to another.
LEMMA Rehandled ==
  ASSUME NEW f \in [Handles -> Addresses \cup {NoState}], NEW h \in Handles, NEW v, NEW a
  PROVE  Cardinality(HeldBy(With(f, h, v), a)) =
           IF v = a /\ f[h] # a THEN Cardinality(HeldBy(f, a)) + 1
           ELSE IF v # a /\ f[h] = a THEN Cardinality(HeldBy(f, a)) - 1
           ELSE Cardinality(HeldBy(f, a))
<1> DEFINE g == With(f, h, v)
<1>1. CASE v = a
  <2>1. HeldBy(g, a) = HeldBy(f, a) \cup {h}
    BY <1>1 DEF HeldBy, With
  <2>2. h \in HeldBy(f, a) <=> f[h] = a
    BY DEF HeldBy
  <2> QED
    BY <1>1, <2>1, <2>2, HeldFinite, FS_AddElement
<1>2. CASE v # a
  <2>1. HeldBy(g, a) = HeldBy(f, a) \ {h}
    BY <1>2 DEF HeldBy, With
  <2>2. h \in HeldBy(f, a) <=> f[h] = a
    BY DEF HeldBy
  <2> QED
    BY <1>2, <2>1, <2>2, HeldFinite, FS_RemoveElement
<1> QED
  BY <1>1, <1>2

\* Who has a handle keeps the state in use.
LEMMA HeldUsed ==
  ASSUME HandleTypes, UsesExact, NEW h \in Handles, handle[h] # NoState
  PROVE  handle[h] \in Addresses /\ uses[handle[h]] > 0
<1>1. handle[h] \in Addresses
  BY DEF HandleTypes
<1>2. HeldBy(handle, handle[h]) # {}
  BY DEF HeldBy
<1>3. Cardinality(HeldBy(handle, handle[h])) # 0
  BY <1>2, HeldFinite, FS_EmptySet
<1> QED
  BY <1>1, <1>3, HeldFinite, UsesHeld

-----------------------------------------------------------------------------
(* The pool.                                                               *)

LEMMA PoolFacts ==
  ASSUME pool \in Seq(Locations), NEW loc \in Locations
  PROVE  /\ PoolWith(loc) \in Seq(Locations)
         /\ IdOf(loc) \in DOMAIN PoolWith(loc) /\ PoolWith(loc)[IdOf(loc)] = loc
         /\ \A i \in DOMAIN pool : i \in DOMAIN PoolWith(loc) /\ PoolWith(loc)[i] = pool[i]
<1>1. CASE Known(loc)
  <2>1. PoolWith(loc) = pool
    BY <1>1 DEF PoolWith
  <2>2. \E i \in DOMAIN pool : pool[i] = loc
    BY <1>1 DEF Known
  <2> QED
    BY <2>1, <2>2 DEF IdOf
<1>2. CASE ~Known(loc)
  <2>1. PoolWith(loc) = Append(pool, loc)
    BY <1>2 DEF PoolWith
  <2>2. /\ Append(pool, loc) \in Seq(Locations)
        /\ Len(pool) + 1 \in DOMAIN Append(pool, loc)
        /\ Append(pool, loc)[Len(pool) + 1] = loc
        /\ \A i \in DOMAIN pool : i \in DOMAIN Append(pool, loc) /\ Append(pool, loc)[i] = pool[i]
    OBVIOUS
  <2>3. \E i \in DOMAIN PoolWith(loc) : PoolWith(loc)[i] = loc
    BY <2>1, <2>2
  <2>4. IdOf(loc) \in DOMAIN PoolWith(loc) /\ PoolWith(loc)[IdOf(loc)] = loc
    BY <2>3 DEF IdOf
  <2> QED
    BY <2>1, <2>2, <2>4
<1> QED
  BY <1>1, <1>2

-----------------------------------------------------------------------------
(* The steps.                                                              *)

LEMMA HInit ==
  ASSUME Init
  PROVE  HInv
<1> USE DEF Init, TracerInit
<1>1. HandleTypes
  BY DEF HandleTypes, PCs
<1>2. ASSUME NEW a \in Addresses
      PROVE  HeldBy(handle, a) = {}
  BY HandlesAssumption DEF HeldBy, HandlesAssumption
<1>3. UsesExact
  BY <1>2, UsesHeld, FS_EmptySet
<1>4. ThreadsApart
  BY DEF ThreadsApart, Apart, Targets, Holds, Working, Constructing, Destroying
<1>5. Tabled
  BY DEF Tabled, Doomed, Destroying
<1> QED
  BY <1>1, <1>3, <1>4, <1>5 DEF HInv

LEMMA AllocateStep ==
  ASSUME HInv, NEW t \in Threads, NEW h \in Handles, NEW a \in Addresses,
         NEW loc \in Locations, Allocate(t, h, a, loc)
  PROVE  HInv'
<1>1. HandleTypes /\ UsesExact /\ ThreadsApart /\ Tabled
  BY DEF HInv
<1>2. /\ \A u \in Threads : u # t => pc'[u] = pc[u] /\ busy'[u] = busy[u] /\ target'[u] = target[u]
      /\ pc'[t] = "ctor count" /\ busy'[t] = a /\ target'[t] = h /\ pc[t] = "idle"
      /\ handle[h] = NoState /\ \A u \in Threads : target[u] # h
      /\ handle' = handle /\ uses' = uses
      /\ entries' = entries /\ pool' = pool /\ mux' = mux
  BY <1>1 DEF Allocate, GoTo, tracerVars, Settled, HandleTypes
<1>3. uses[a] = 0 /\ \A u \in Threads : Working(u) => busy[u] # a
  <2>1. uses[a] \in Nat /\ ~(uses[a] > 0)
    BY <1>1 DEF HandleTypes, Allocate, Occupied
  <2>2. ASSUME NEW u \in Threads, Working(u)
        PROVE  busy[u] # a
    BY <2>2 DEF Allocate, Occupied, Working, Constructing, Destroying
  <2> QED
    BY <2>1, <2>2
<1>4. a \notin DOMAIN entries
  BY <1>1, <1>3 DEF Tabled, Doomed, Working
<1>5. born' = [born EXCEPT ![a] = Append(born[a], loc)]
  BY DEF Allocate
<1>6. /\ born' \in [Addresses -> Seq(Locations)] /\ born'[a] # <<>>
      /\ \A b \in Addresses : b # a => born'[b] = born[b]
  <2>1. born \in [Addresses -> Seq(Locations)] /\ born[a] \in Seq(Locations)
    BY <1>1 DEF HandleTypes
  <2>2. Append(born[a], loc) \in Seq(Locations) /\ Len(Append(born[a], loc)) # 0
    BY <2>1
  <2>3. Append(born[a], loc) # <<>>
    BY <2>2
  <2> QED
    BY <1>5, <2>1, <2>2, <2>3
<1>7. HandleTypes'
  BY <1>1, <1>6 DEF Allocate, GoTo, tracerVars, HandleTypes, PCs
<1>8. UsesExact'
  BY <1>1, <1>2 DEF UsesExact
<1>9. ThreadsApart'
  <2>1. \A u \in Threads : Working(u)' <=> u = t \/ Working(u)
    BY <1>2 DEF Working, Constructing, Destroying
  <2>2. \A u \in Threads : Constructing(u)' <=> u = t \/ Constructing(u)
    BY <1>2 DEF Constructing
  <2>3. ASSUME NEW u \in Threads
        PROVE  Apart(u)' /\ Targets(u)' /\ Holds(u)'
    <3>1. Apart(u) /\ Targets(u) /\ Holds(u)
      BY <1>1 DEF ThreadsApart
    <3>2. Apart(u)'
      BY <1>2, <1>3, <2>1, <3>1 DEF Apart
    <3>3. Targets(u)'
      <4>1. CASE u = t
        BY <1>2, <1>6, <4>1 DEF Targets
      <4>2. CASE u # t /\ Constructing(u)
        <5>1. busy[u] \in Addresses /\ busy[u] # a
          BY <1>3, <3>1, <4>2 DEF Apart, Working
        <5>2. born'[busy[u]] = born[busy[u]]
          BY <1>6, <5>1
        <5> QED
          BY <1>2, <2>2, <3>1, <4>2, <5>2 DEF Targets
      <4> QED
        BY <2>2, <4>1, <4>2 DEF Targets
    <3>4. Holds(u)'
      BY <1>2, <3>1 DEF Holds
    <3> QED
      BY <3>2, <3>3, <3>4
  <2> QED
    BY <2>3 DEF ThreadsApart
<1>10. Tabled'
  <2>1. \A b \in DOMAIN entries : b \in Addresses /\ b # a
    BY <1>1, <1>4 DEF Tabled
  <2>2. \A b \in DOMAIN entries : born'[b] = born[b]
    BY <1>6, <2>1
  <2>3. \A b : Doomed(b)' <=> Doomed(b)
    BY <1>2 DEF Doomed, Destroying
  <2>4. \A b \in Addresses : b \in DOMAIN entries' <=> uses'[b] > 0 \/ Doomed(b)'
    BY <1>1, <1>2, <2>3 DEF Tabled
  <2>5. \A b \in DOMAIN entries' :
          /\ b \in Addresses /\ born'[b] # <<>>
          /\ entries'[b] \in DOMAIN pool' /\ pool'[entries'[b]] = Birthplace(b)'
    BY <1>1, <1>2, <2>1, <2>2 DEF Tabled, Birthplace
  <2> QED
    BY <2>4, <2>5 DEF Tabled
<1> QED
  BY <1>7, <1>8, <1>9, <1>10 DEF HInv

\* A thread goes on with what it does, and no handle or table changes.
LEMMA QuietStep ==
  ASSUME HInv, NEW t \in Threads,
         \A u \in Threads : u # t => pc'[u] = pc[u] /\ busy'[u] = busy[u],
         HandleTypes', handle' = handle, uses' = uses, born' = born,
         entries' = entries, pool' = pool, target' = target,
         Constructing(t)' => Constructing(t), Destroying(t)' <=> Destroying(t),
         Working(t)' => Working(t) /\ busy'[t] = busy[t],
         \A u \in Threads : Holds(u)'
  PROVE  HInv'
<1>1. HandleTypes /\ UsesExact /\ ThreadsApart /\ Tabled
  BY DEF HInv
<1>2. \A u \in Threads : /\ Working(u)' => Working(u) /\ busy'[u] = busy[u]
                         /\ Constructing(u)' => Constructing(u)
                         /\ Destroying(u)' <=> Destroying(u)
  BY DEF Working, Constructing, Destroying
<1>3. UsesExact'
  BY <1>1 DEF UsesExact
<1>4. ASSUME NEW u \in Threads
      PROVE  Apart(u)' /\ Targets(u)'
  <2>1. Apart(u) /\ Targets(u)
    BY <1>1 DEF ThreadsApart
  <2>2. Apart(u)'
    BY <1>2, <2>1 DEF Apart
  <2>3. Constructing(u)' => busy'[u] = busy[u]
    BY <1>2 DEF Working
  <2>4. Targets(u)'
    BY <1>2, <2>1, <2>3 DEF Targets
  <2> QED
    BY <2>2, <2>4
<1>5. Tabled'
  <2>1. \A b : Doomed(b)' <=> Doomed(b)
    <3>1. \A u \in Threads : Destroying(u)' => busy'[u] = busy[u]
      BY <1>2 DEF Working
    <3> QED
      BY <1>2, <3>1 DEF Doomed
  <2> QED
    BY <1>1, <2>1 DEF Tabled, Birthplace
<1> QED
  BY <1>3, <1>4, <1>5 DEF HInv, ThreadsApart

\* Thread t goes on to destroy the state at old, if no handle is left.
LetGo(t, old) ==
  \/ /\ old # NoState /\ uses'[old] = 0
     /\ pc' = [pc EXCEPT ![t] = "dtor count"] /\ busy' = [busy EXCEPT ![t] = old]
  \/ ~(old # NoState /\ uses'[old] = 0) /\ pc' = pc /\ busy' = busy

\* A handle lets go of the state at old, which is destroyed if it was the last.
LEMMA ReleaseStep ==
  ASSUME HInv, NEW t \in Threads, NEW old \in Addresses \cup {NoState}, pc[t] = "idle",
         handle' \in [Handles -> Addresses \cup {NoState}],
         uses' \in [Addresses -> Nat], UsesExact',
         old # NoState => uses[old] > 0,
         \A b \in Addresses : b # old => (uses'[b] > 0 <=> uses[b] > 0),
         \A u \in Threads : Constructing(u) => handle'[target[u]] = NoState,
         LetGo(t, old),
         born' = born, target' = target, tracerVars' = tracerVars
  PROVE  HInv'
<1>1. HandleTypes /\ UsesExact /\ ThreadsApart /\ Tabled
  BY DEF HInv
<1>2. /\ born' = born /\ target' = target
      /\ entries' = entries /\ pool' = pool /\ mux' = mux
  BY DEF tracerVars
<1>3. ~Working(t) /\ ~Constructing(t) /\ ~Destroying(t)
  BY DEF Working, Constructing, Destroying
<1>4. CASE old # NoState /\ uses'[old] = 0
  <2>1. /\ old \in Addresses /\ uses[old] > 0 /\ uses'[old] = 0
        /\ pc' = [pc EXCEPT ![t] = "dtor count"] /\ busy' = [busy EXCEPT ![t] = old]
    BY <1>4 DEF LetGo
  <2>2. /\ \A u \in Threads : u # t => pc'[u] = pc[u] /\ busy'[u] = busy[u]
        /\ pc'[t] = "dtor count" /\ busy'[t] = old
    BY <1>1, <2>1 DEF HandleTypes
  <2>3. HandleTypes'
    BY <1>1, <1>2, <2>1 DEF HandleTypes, PCs
  <2>4. \A u \in Threads : /\ Working(u)' <=> u = t \/ Working(u)
                           /\ Constructing(u)' <=> Constructing(u)
                           /\ Destroying(u)' <=> u = t \/ Destroying(u)
    BY <2>2, <1>3 DEF Working, Constructing, Destroying
  <2>5. ASSUME NEW u \in Threads
        PROVE  Apart(u)' /\ Targets(u)' /\ Holds(u)'
    <3>1. Apart(u) /\ Targets(u) /\ Holds(u)
      BY <1>1 DEF ThreadsApart
    <3>2. \A w \in Threads : Working(w) => busy[w] \in Addresses /\ uses[busy[w]] = 0
      BY <1>1 DEF ThreadsApart, Apart
    <3>3. \A w \in Threads : Working(w) => busy[w] # old /\ uses'[busy[w]] = 0
      <4>1. ASSUME NEW w \in Threads, Working(w)
            PROVE  busy[w] # old /\ uses'[busy[w]] = 0
        <5>1. busy[w] \in Addresses /\ uses[busy[w]] = 0
          BY <3>2, <4>1
        <5>2. busy[w] # old
          BY <1>4, <5>1
        <5>3. uses'[busy[w]] \in Nat /\ ~(uses'[busy[w]] > 0)
          BY <5>1, <5>2
        <5> QED
          BY <5>2, <5>3
      <4> QED
        BY <4>1
    <3>4. Apart(u)'
      <4>1. CASE u = t
        BY <2>1, <2>2, <2>4, <3>3, <4>1 DEF Apart
      <4>2. CASE u # t
        BY <2>2, <2>4, <3>1, <3>3, <4>2 DEF Apart
      <4> QED
        BY <4>1, <4>2
    <3>5. Constructing(u) => u # t
      BY <1>3
    <3>6. Targets(u)'
      BY <1>2, <2>2, <2>4, <3>1, <3>5 DEF Targets
    <3>7. Holds(u)'
      BY <1>2, <2>2, <3>1 DEF Holds
    <3> QED
      BY <3>4, <3>6, <3>7
  <2>6. Tabled'
    <3>1. ASSUME NEW b \in Addresses
          PROVE  (uses[b] > 0 \/ Doomed(b))' <=> uses[b] > 0 \/ Doomed(b)
      <4>1. CASE b = old
        BY <2>1, <2>2, <2>4, <4>1 DEF Doomed
      <4>2. CASE b # old
        <5>1. Doomed(b)' <=> Doomed(b)
          BY <1>3, <2>2, <2>4, <4>2 DEF Doomed
        <5> QED
          BY <4>2, <5>1
      <4> QED
        BY <4>1, <4>2
    <3> QED
      BY <1>1, <1>2, <3>1 DEF Tabled, Birthplace
  <2> QED
    BY <2>3, <2>5, <2>6 DEF HInv, ThreadsApart
<1>5. CASE ~(old # NoState /\ uses'[old] = 0)
  <2>1. pc' = pc /\ busy' = busy
    BY <1>5 DEF LetGo
  <2>2. ASSUME NEW b \in Addresses
        PROVE  uses'[b] > 0 <=> uses[b] > 0
    <3>1. uses'[b] \in Nat
      OBVIOUS
    <3>2. b # NoState
      BY HandlesAssumption DEF HandlesAssumption
    <3> QED
      BY <1>5, <3>1, <3>2
  <2>3. HandleTypes'
    BY <1>1, <1>2, <2>1 DEF HandleTypes
  <2>4. ASSUME NEW u \in Threads
        PROVE  Apart(u)' /\ Targets(u)' /\ Holds(u)'
    <3>1. Apart(u) /\ Targets(u) /\ Holds(u)
      BY <1>1 DEF ThreadsApart
    <3>2. \A w \in Threads : (Working(w)' <=> Working(w)) /\ (Constructing(w)' <=> Constructing(w))
      BY <2>1 DEF Working, Constructing, Destroying
    <3>3. ASSUME Working(u)
          PROVE  uses'[busy[u]] = 0
      <4>1. busy[u] \in Addresses /\ uses[busy[u]] = 0
        BY <3>1, <3>3 DEF Apart
      <4>2. uses'[busy[u]] \in Nat /\ ~(uses'[busy[u]] > 0)
        BY <2>2, <4>1
      <4> QED
        BY <4>2
    <3>4. Apart(u)'
      BY <2>1, <3>1, <3>2, <3>3 DEF Apart
    <3>5. Targets(u)'
      BY <1>2, <2>1, <3>1, <3>2 DEF Targets
    <3>6. Holds(u)'
      BY <1>2, <2>1, <3>1 DEF Holds
    <3> QED
      BY <3>4, <3>5, <3>6
  <2>5. Tabled'
    <3>1. \A b : Doomed(b)' <=> Doomed(b)
      BY <2>1 DEF Doomed, Destroying
    <3> QED
      BY <1>1, <1>2, <2>2, <3>1 DEF Tabled, Birthplace
  <2> QED
    BY <2>3, <2>4, <2>5 DEF HInv, ThreadsApart
<1> QED
  BY <1>4, <1>5

LEMMA CopyStep ==
  ASSUME HInv, NEW t \in Threads, NEW g \in Handles, NEW h \in Handles, Copy(t, g, h)
  PROVE  HInv'
<1> DEFINE new == handle[g]
           old == handle[h]
           u == IF new = NoState THEN uses ELSE [uses EXCEPT ![new] = @ + 1]
<1>1. HandleTypes /\ UsesExact /\ ThreadsApart /\ Tabled
  BY DEF HInv
<1>2. /\ handle \in [Handles -> Addresses \cup {NoState}] /\ uses \in [Addresses -> Nat]
      /\ new \in Addresses \cup {NoState} /\ old \in Addresses \cup {NoState}
      /\ NoState \notin Addresses
  BY <1>1, HandlesAssumption DEF HandleTypes, HandlesAssumption
<1>3. /\ pc[t] = "idle" /\ handle' = With(handle, h, new)
      /\ uses' = IF old = NoState THEN u ELSE [u EXCEPT ![old] = @ - 1]
      /\ born' = born /\ target' = target /\ tracerVars' = tracerVars
      /\ \A w \in Threads : target[w] # h
  BY DEF Copy, Release, Settled, With
<1>4. LetGo(t, old)
  BY DEF Copy, Release, GoTo, LetGo
<1>5. /\ new # NoState => uses[new] > 0
      /\ old # NoState => uses[old] > 0
  BY <1>1, HeldUsed
<1>6. \A b \in Addresses :
        uses'[b] = uses[b] + (IF b = new THEN 1 ELSE 0) - (IF b = old THEN 1 ELSE 0)
  BY <1>2, <1>3
<1>7. uses' \in [Addresses -> Nat]
  <2>1. u \in [Addresses -> Nat] /\ (old # NoState => u[old] - 1 \in Nat)
    BY <1>2, <1>5
  <2> QED
    BY <1>2, <1>3, <2>1
<1>8. UsesExact'
  <2>1. ASSUME NEW b \in Addresses
        PROVE  uses'[b] = Cardinality(HeldBy(handle', b))
    <3>1. uses[b] = Cardinality(HeldBy(handle, b)) /\ uses[b] \in Nat
      BY <1>1, <1>2, UsesHeld
    <3>2. Cardinality(HeldBy(With(handle, h, new), b)) =
            IF new = b /\ handle[h] # b THEN uses[b] + 1
            ELSE IF new # b /\ handle[h] = b THEN uses[b] - 1
            ELSE uses[b]
      BY <1>2, <3>1, Rehandled
    <3>3. handle' = With(handle, h, new)
      BY <1>3
    <3> QED
      BY <1>6, <3>1, <3>2, <3>3
  <2> QED
    BY <2>1 DEF UsesExact, HeldBy
<1>9. \A b \in Addresses : b # old => (uses'[b] > 0 <=> uses[b] > 0)
  BY <1>2, <1>5, <1>6
<1>10. \A w \in Threads : Constructing(w) => handle'[target[w]] = NoState
  BY <1>1, <1>2, <1>3 DEF ThreadsApart, Targets, With
<1>11. handle' \in [Handles -> Addresses \cup {NoState}]
  BY <1>2, <1>3 DEF With
<1> HIDE DEF old
<1> QED
  BY <1>2, <1>3, <1>4, <1>5, <1>7, <1>8, <1>9, <1>10, <1>11, ReleaseStep

LEMMA MoveStep ==
  ASSUME HInv, NEW t \in Threads, NEW g \in Handles, NEW h \in Handles, Move(t, g, h)
  PROVE  HInv'
<1> DEFINE new == handle[g]
           old == handle[h]
           f == With(handle, h, new)
<1>1. HandleTypes /\ UsesExact /\ ThreadsApart /\ Tabled
  BY DEF HInv
<1>2. /\ handle \in [Handles -> Addresses \cup {NoState}] /\ uses \in [Addresses -> Nat]
      /\ new \in Addresses \cup {NoState} /\ old \in Addresses \cup {NoState}
      /\ f \in [Handles -> Addresses \cup {NoState}] /\ NoState \notin Addresses
  BY <1>1, HandlesAssumption DEF HandleTypes, HandlesAssumption, With
<1>3. /\ pc[t] = "idle" /\ g # h
      /\ handle' = With(f, g, NoState) /\ f[g] = new
      /\ uses' = IF old = NoState THEN uses ELSE [uses EXCEPT ![old] = @ - 1]
      /\ born' = born /\ target' = target /\ tracerVars' = tracerVars
      /\ \A w \in Threads : target[w] \notin {g, h}
  BY <1>2 DEF Move, Release, Settled, With
<1>4. LetGo(t, old)
  BY DEF Move, Release, GoTo, LetGo
<1>5. old # NoState => uses[old] > 0
  BY <1>1, HeldUsed
<1>6. \A b \in Addresses : uses'[b] = IF b = old THEN uses[b] - 1 ELSE uses[b]
  BY <1>2, <1>3
<1>7. uses' \in [Addresses -> Nat]
  <2>1. old # NoState => uses[old] - 1 \in Nat
    BY <1>2, <1>5
  <2> QED
    BY <1>2, <1>3, <2>1
<1>8. UsesExact'
  <2>1. ASSUME NEW b \in Addresses
        PROVE  uses'[b] = Cardinality(HeldBy(handle', b))
    <3>1. uses[b] = Cardinality(HeldBy(handle, b)) /\ uses[b] \in Nat /\ b # NoState
      BY <1>1, <1>2, UsesHeld
    <3>2. Cardinality(HeldBy(f, b)) =
            IF new = b /\ handle[h] # b THEN uses[b] + 1
            ELSE IF new # b /\ handle[h] = b THEN uses[b] - 1
            ELSE uses[b]
      BY <1>2, <3>1, Rehandled
    <3>3. Cardinality(HeldBy(With(f, g, NoState), b)) =
            IF f[g] = b THEN Cardinality(HeldBy(f, b)) - 1 ELSE Cardinality(HeldBy(f, b))
      BY <1>2, <3>1, Rehandled
    <3> HIDE DEF f
    <3>4. Cardinality(HeldBy(handle', b)) =
            IF new = b THEN Cardinality(HeldBy(f, b)) - 1 ELSE Cardinality(HeldBy(f, b))
      BY <1>3, <3>3
    <3> QED
      BY <1>6, <3>1, <3>2, <3>4
  <2> QED
    BY <2>1 DEF UsesExact, HeldBy
<1>9. \A b \in Addresses : b # old => (uses'[b] > 0 <=> uses[b] > 0)
  BY <1>6
<1>10. \A w \in Threads : Constructing(w) => handle'[target[w]] = NoState
  BY <1>1, <1>2, <1>3 DEF ThreadsApart, Targets, With
<1>11. handle' \in [Handles -> Addresses \cup {NoState}]
  BY <1>2, <1>3 DEF With
<1> HIDE DEF old
<1> QED
  BY <1>2, <1>3, <1>4, <1>5, <1>7, <1>8, <1>9, <1>10, <1>11, ReleaseStep

LEMMA DestroyStep ==
  ASSUME HInv, NEW t \in Threads, NEW h \in Handles, Destroy(t, h)
  PROVE  HInv'
<1> DEFINE old == handle[h]
<1>1. HandleTypes /\ UsesExact /\ ThreadsApart /\ Tabled
  BY DEF HInv
<1>2. /\ handle \in [Handles -> Addresses \cup {NoState}] /\ uses \in [Addresses -> Nat]
      /\ old \in Addresses \cup {NoState} /\ NoState \notin Addresses
  BY <1>1, HandlesAssumption DEF HandleTypes, HandlesAssumption
<1>3. /\ pc[t] = "idle" /\ handle' = With(handle, h, NoState)
      /\ uses' = IF old = NoState THEN uses ELSE [uses EXCEPT ![old] = @ - 1]
      /\ born' = born /\ target' = target /\ tracerVars' = tracerVars
      /\ \A w \in Threads : target[w] # h
  BY DEF Destroy, Release, Settled, With
<1>4. LetGo(t, old)
  BY DEF Destroy, Release, GoTo, LetGo
<1>5. old # NoState => uses[old] > 0
  BY <1>1, HeldUsed
<1>6. \A b \in Addresses : uses'[b] = IF b = old THEN uses[b] - 1 ELSE uses[b]
  BY <1>2, <1>3
<1>7. uses' \in [Addresses -> Nat]
  <2>1. old # NoState => uses[old] - 1 \in Nat
    BY <1>2, <1>5
  <2> QED
    BY <1>2, <1>3, <2>1
<1>8. UsesExact'
  <2>1. ASSUME NEW b \in Addresses
        PROVE  uses'[b] = Cardinality(HeldBy(handle', b))
    <3>1. uses[b] = Cardinality(HeldBy(handle, b)) /\ uses[b] \in Nat /\ b # NoState
      BY <1>1, <1>2, UsesHeld
    <3>2. Cardinality(HeldBy(With(handle, h, NoState), b)) =
            IF handle[h] = b THEN uses[b] - 1 ELSE uses[b]
      BY <1>2, <3>1, Rehandled
    <3> QED
      BY <1>3, <1>6, <3>1, <3>2
  <2> QED
    BY <2>1 DEF UsesExact, HeldBy
<1>9. \A b \in Addresses : b # old => (uses'[b] > 0 <=> uses[b] > 0)
  BY <1>6
<1>10. \A w \in Threads : Constructing(w) => handle'[target[w]] = NoState
  BY <1>1, <1>2, <1>3 DEF ThreadsApart, Targets, With
<1>11. handle' \in [Handles -> Addresses \cup {NoState}]
  BY <1>2, <1>3 DEF With
<1> HIDE DEF old
<1> QED
  BY <1>2, <1>3, <1>4, <1>5, <1>7, <1>8, <1>9, <1>10, <1>11, ReleaseStep

\* The steps in which no handle and no table changes.
LEMMA QuietSteps ==
  ASSUME HInv, NEW t \in Threads,
         \/ Count(t) \/ Uncount(t) \/ Free(t) \/ Answer(t)
         \/ \E h \in Handles : Serve(t, h)
         \/ \E a \in Addresses : Ask(t, a)
  PROVE  HInv'
<1>1. HandleTypes /\ UsesExact /\ ThreadsApart /\ Tabled
  BY DEF HInv
<1>2. ASSUME NEW u \in Threads
      PROVE  Holds(u)
  BY <1>1 DEF ThreadsApart
<1>3. CASE Count(t)
  <2>1. /\ pc[t] = "ctor count" /\ pc' = [pc EXCEPT ![t] = "ctor register"] /\ busy' = busy
        /\ handle' = handle /\ uses' = uses /\ born' = born /\ target' = target
        /\ entries' = entries /\ pool' = pool /\ mux' = mux
    BY <1>3 DEF Count, CtorCount, GoTo
  <2>2. /\ pc'[t] = "ctor register" /\ HandleTypes'
        /\ \A u \in Threads : u # t => pc'[u] = pc[u]
    BY <1>1, <2>1 DEF HandleTypes, PCs
  <2>3. \A u \in Threads : Holds(u)'
    BY <1>2, <2>1, <2>2 DEF Holds
  <2>4. /\ Constructing(t)' => Constructing(t)
        /\ Destroying(t)' <=> Destroying(t) 
        /\ Working(t)' => Working(t)
    BY <2>1, <2>2 DEF Working, Constructing, Destroying
  <2> QED
    BY <2>1, <2>2, <2>3, <2>4, QuietStep
<1>4. CASE Uncount(t)
  <2>1. /\ pc[t] = "dtor count" /\ pc' = [pc EXCEPT ![t] = "dtor unregister"] /\ busy' = busy
        /\ handle' = handle /\ uses' = uses /\ born' = born /\ target' = target
        /\ entries' = entries /\ pool' = pool /\ mux' = mux
    BY <1>4 DEF Uncount, DtorCount, GoTo
  <2>2. /\ pc'[t] = "dtor unregister" /\ HandleTypes'
        /\ \A u \in Threads : u # t => pc'[u] = pc[u]
    BY <1>1, <2>1 DEF HandleTypes, PCs
  <2>3. \A u \in Threads : Holds(u)'
    BY <1>2, <2>1, <2>2 DEF Holds
  <2>4. /\ Constructing(t)' => Constructing(t)
        /\ Destroying(t)' <=> Destroying(t) 
        /\ Working(t)' => Working(t)
    BY <2>1, <2>2 DEF Working, Constructing, Destroying
  <2> QED
    BY <2>1, <2>2, <2>3, <2>4, QuietStep
<1>5. CASE Free(t) \/ Answer(t)
  <2>1. /\ pc[t] \in {"free", "copy location"} /\ pc' = [pc EXCEPT ![t] = "idle"]
        /\ busy' = [busy EXCEPT ![t] = NoState]
        /\ handle' = handle /\ uses' = uses /\ born' = born /\ target' = target
        /\ entries' = entries /\ pool' = pool
        /\ mux' = mux \/ pc[t] = "copy location"
    BY <1>5 DEF Free, Answer, CopyLocation, GoTo, tracerVars
  <2>2. /\ pc'[t] = "idle" /\ HandleTypes'
        /\ \A u \in Threads : u # t => pc'[u] = pc[u] /\ busy'[u] = busy[u]
    BY <1>1, <2>1 DEF HandleTypes, PCs
  <2>3. ASSUME NEW u \in Threads
        PROVE  Holds(u)'
    <3>1. Holds(u) /\ Holds(t)
      BY <1>2
    <3> QED
      BY <2>1, <2>2, <3>1 DEF Holds
  <2>4. ~Constructing(t)' /\ ~Destroying(t)' /\ ~Destroying(t) /\ ~Working(t)'
    BY <2>1, <2>2 DEF Working, Constructing, Destroying
  <2> QED
    BY <2>1, <2>2, <2>3, <2>4, QuietStep
<1>6. CASE \E h \in Handles : Serve(t, h)
  <2>1. /\ pc' = pc /\ busy' = busy
        /\ handle' = handle /\ uses' = uses /\ born' = born /\ target' = target
        /\ entries' = entries /\ pool' = pool /\ mux' = mux
    BY <1>6 DEF Serve, tracerVars
  <2>2. HandleTypes'
    BY <1>1, <2>1 DEF HandleTypes
  <2>3. \A u \in Threads : Holds(u)'
    BY <1>2, <2>1 DEF Holds
  <2>4. /\ Constructing(t)' <=> Constructing(t)
        /\ Destroying(t)' <=> Destroying(t) 
        /\ Working(t)' <=> Working(t)
    BY <2>1 DEF Working, Constructing, Destroying
  <2> QED
    BY <2>1, <2>2, <2>3, <2>4, QuietStep
<1>7. CASE \E a \in Addresses : Ask(t, a)
  <2> PICK a \in Addresses : Ask(t, a)
    BY <1>7
  <2> DEFINE b == IF a \in DOMAIN entries THEN a ELSE NoState
  <2>1. /\ pc[t] = "idle" /\ pc' = [pc EXCEPT ![t] = "copy location"]
        /\ busy' = [busy EXCEPT ![t] = b]
        /\ handle' = handle /\ uses' = uses /\ born' = born /\ target' = target
        /\ entries' = entries /\ pool' = pool /\ mux = 0 /\ mux' = t
    BY DEF Ask, LookUp, GoTo
  <2>2. /\ pc'[t] = "copy location" /\ busy'[t] = b /\ HandleTypes'
        /\ \A u \in Threads : u # t => pc'[u] = pc[u] /\ busy'[u] = busy[u]
    BY <1>1, <2>1 DEF HandleTypes, PCs
  <2>3. ASSUME NEW u \in Threads
        PROVE  Holds(u)'
    <3>1. Holds(u) /\ u # 0
      BY <1>2, HandlesAssumption DEF HandlesAssumption
    <3> QED
      BY <2>1, <2>2, <3>1 DEF Holds
  <2>4. ~Constructing(t)' /\ ~Destroying(t)' /\ ~Destroying(t) /\ ~Working(t)'
    BY <2>1, <2>2 DEF Working, Constructing, Destroying
  <2> QED
    BY <2>1, <2>2, <2>3, <2>4, QuietStep
<1> QED
  BY <1>3, <1>4, <1>5, <1>6, <1>7

LEMMA RegisterStep ==
  ASSUME HInv, NEW t \in Threads, Register(t)
  PROVE  HInv'
<1> DEFINE b == busy[t]
           h == target[t]
           loc == Birthplace(b)
<1>1. HandleTypes /\ UsesExact /\ ThreadsApart /\ Tabled
  BY DEF HInv
<1>2. Constructing(t) /\ Working(t) /\ ~Destroying(t) /\ Apart(t) /\ Targets(t)
  BY <1>1 DEF Register, ThreadsApart, Working, Constructing, Destroying
<1>3. /\ b \in Addresses /\ uses[b] = 0 /\ b # NoState
      /\ h \in Handles /\ handle[h] = NoState
      /\ \A u \in Threads : target[u] = h => u = t
      /\ born[b] # <<>>
  BY <1>2, HandlesAssumption DEF Apart, Targets, HandlesAssumption
<1>4. loc \in Locations
  <2>1. born[b] \in Seq(Locations) /\ born[b] # <<>>
    BY <1>1, <1>3 DEF HandleTypes
  <2> QED
    BY <2>1 DEF Birthplace
<1>5. /\ mux = 0 /\ mux' = mux /\ pool' = PoolWith(loc) /\ born' = born
      /\ handle' = With(handle, h, b)
  BY DEF Register, CtorRegister, With
<1>6. pc' = [pc EXCEPT ![t] = "idle"] /\ busy' = [busy EXCEPT ![t] = NoState]
      /\ target' = [target EXCEPT ![t] = NoHandle] /\ uses' = [uses EXCEPT ![b] = 1]
  BY DEF Register, GoTo
<1>7. DOMAIN entries' = DOMAIN entries \cup {b} /\ entries'[b] = IdOf(loc)
      /\ \A a \in DOMAIN entries : a # b => entries'[a] = entries[a]
  BY DEF Register, CtorRegister, Assigned
<1>8. /\ pool' \in Seq(Locations)
      /\ IdOf(loc) \in DOMAIN pool' /\ pool'[IdOf(loc)] = loc
      /\ \A i \in DOMAIN pool : i \in DOMAIN pool' /\ pool'[i] = pool[i]
  BY <1>1, <1>4, <1>5, PoolFacts DEF HandleTypes
<1>9. /\ pc'[t] = "idle" /\ target'[t] = NoHandle /\ NoHandle \notin Handles
      /\ \A u \in Threads : u # t => pc'[u] = pc[u] /\ busy'[u] = busy[u] /\ target'[u] = target[u]
      /\ uses'[b] = 1 /\ \A a \in Addresses : a # b => uses'[a] = uses[a]
  BY <1>1, <1>3, <1>6, HandlesAssumption DEF HandleTypes, HandlesAssumption
<1>10. HandleTypes'
  BY <1>1, <1>3, <1>5, <1>6, <1>8 DEF HandleTypes, PCs, With
<1>11. UsesExact'
  <2>1. ASSUME NEW a \in Addresses
        PROVE  uses'[a] = Cardinality(HeldBy(handle', a))
    <3>1. uses[a] = Cardinality(HeldBy(handle, a)) /\ uses[a] \in Nat /\ a # NoState
      BY <1>1, UsesHeld, HandlesAssumption DEF HandleTypes, HandlesAssumption
    <3>2. handle \in [Handles -> Addresses \cup {NoState}]
      BY <1>1 DEF HandleTypes
    <3>3. Cardinality(HeldBy(With(handle, h, b), a)) =
            IF b = a THEN uses[a] + 1 ELSE uses[a]
      BY <1>3, <3>1, <3>2, Rehandled
    <3>4. b = a => uses[a] = 0
      BY <1>3
    <3> QED
      BY <1>5, <1>9, <3>1, <3>3, <3>4
  <2> QED
    BY <2>1 DEF UsesExact, HeldBy
<1>12. \A u \in Threads : /\ Working(u)' <=> u # t /\ Working(u)
                          /\ Constructing(u)' <=> u # t /\ Constructing(u)
                          /\ Destroying(u)' <=> u # t /\ Destroying(u)
  BY <1>9 DEF Working, Constructing, Destroying
<1>13. ASSUME NEW u \in Threads
       PROVE  Apart(u)' /\ Targets(u)' /\ Holds(u)'
  <2>1. Apart(u) /\ Targets(u) /\ Holds(u) /\ u # 0
    BY <1>1, HandlesAssumption DEF ThreadsApart, HandlesAssumption
  <2>2. CASE u = t
    BY <1>9, <1>12, <2>2 DEF Apart, Targets, Holds
  <2>3. CASE u # t
    <3>1. Working(u) => busy[u] \in Addresses /\ busy[u] # b
      BY <1>2, <2>1, <2>3 DEF Apart
    <3>2. Apart(u)'
      BY <1>9, <1>12, <2>1, <2>3, <3>1 DEF Apart
    <3>3. Constructing(u) => target[u] # h /\ target[u] \in Handles
      BY <1>3, <2>1, <2>3 DEF Targets
    <3>4. Constructing(u) => handle'[target[u]] = NoState
      BY <1>1, <1>3, <1>5, <2>1, <3>3 DEF HandleTypes, Targets, With
    <3>5. Targets(u)'
      BY <1>5, <1>9, <1>12, <2>1, <2>3, <3>3, <3>4 DEF Targets
    <3>6. Holds(u)'
      BY <1>5, <1>9, <2>1, <2>3 DEF Holds
    <3> QED
      BY <3>2, <3>5, <3>6
  <2> QED
    BY <2>2, <2>3
<1>14. Tabled'
  <2>1. \A a \in Addresses : a # b => (Doomed(a)' <=> Doomed(a))
    BY <1>2, <1>9, <1>12 DEF Doomed
  <2>2. \A a \in Addresses : a \in DOMAIN entries' <=> uses'[a] > 0 \/ Doomed(a)'
    BY <1>1, <1>7, <1>9, <2>1 DEF Tabled
  <2>3. ASSUME NEW a \in DOMAIN entries'
        PROVE  /\ a \in Addresses /\ born'[a] # <<>>
               /\ entries'[a] \in DOMAIN pool' /\ pool'[entries'[a]] = Birthplace(a)'
    <3>1. CASE a = b
      BY <1>3, <1>5, <1>7, <1>8, <3>1 DEF Birthplace
    <3>2. CASE a # b
      <4>1. a \in DOMAIN entries /\ entries'[a] = entries[a]
        BY <1>7, <3>2
      <4> QED
        BY <1>1, <1>5, <1>8, <4>1 DEF Tabled, Birthplace
    <3> QED
      BY <3>1, <3>2
  <2> QED
    BY <2>2, <2>3 DEF Tabled
<1> QED
  BY <1>10, <1>11, <1>13, <1>14 DEF HInv, ThreadsApart

LEMMA UnregisterStep ==
  ASSUME HInv, NEW t \in Threads, Unregister(t)
  PROVE  HInv'
<1> DEFINE b == busy[t]
<1>1. HandleTypes /\ UsesExact /\ ThreadsApart /\ Tabled
  BY DEF HInv
<1>2. Destroying(t) /\ Working(t) /\ ~Constructing(t) /\ Apart(t)
  BY <1>1 DEF Unregister, ThreadsApart, Working, Constructing, Destroying
<1>3. /\ b \in Addresses /\ uses[b] = 0
      /\ \A u \in Threads : Working(u) /\ busy[u] = b => u = t
  BY <1>2 DEF Apart
<1>4. /\ mux' = mux /\ pool' = pool /\ born' = born /\ busy' = busy /\ target' = target
      /\ handle' = handle /\ uses' = uses
  BY DEF Unregister, DtorUnregister
<1>5. pc' = [pc EXCEPT ![t] = "free"] /\ mux = 0
  BY DEF Unregister, DtorUnregister, GoTo
<1>6. /\ DOMAIN entries' = DOMAIN entries \ {b}
      /\ \A a \in DOMAIN entries' : entries'[a] = entries[a]
  BY DEF Unregister, DtorUnregister, Erased
<1>7. pc'[t] = "free" /\ \A u \in Threads : u # t => pc'[u] = pc[u]
  BY <1>1, <1>5 DEF HandleTypes
<1>8. HandleTypes'
  BY <1>1, <1>4, <1>5 DEF HandleTypes, PCs
<1>9. UsesExact'
  BY <1>1, <1>4 DEF UsesExact
<1>10. \A u \in Threads : /\ Working(u)' <=> Working(u)
                          /\ Constructing(u)' <=> Constructing(u)
                          /\ Destroying(u)' <=> u # t /\ Destroying(u)
  BY <1>2, <1>7 DEF Working, Constructing, Destroying
<1>11. ASSUME NEW u \in Threads
       PROVE  Apart(u)' /\ Targets(u)' /\ Holds(u)'
  <2>1. Apart(u) /\ Targets(u) /\ Holds(u) /\ u # 0
    BY <1>1, HandlesAssumption DEF ThreadsApart, HandlesAssumption
  <2>2. Apart(u)'
    BY <1>4, <1>10, <2>1 DEF Apart
  <2>3. Targets(u)'
    BY <1>4, <1>10, <2>1 DEF Targets
  <2>4. Holds(u)'
    <3>1. pc'[u] # "copy location"
      BY <1>4, <1>5, <1>7, <2>1 DEF Holds
    <3> QED
      BY <3>1 DEF Holds
  <2> QED
    BY <2>2, <2>3, <2>4
<1>12. Tabled'
  <2>1. ASSUME NEW a \in Addresses
        PROVE  Doomed(a)' <=> a # b /\ Doomed(a)
    BY <1>2, <1>3, <1>4, <1>10 DEF Doomed, Working
  <2>2. \A a \in Addresses : a \in DOMAIN entries' <=> uses'[a] > 0 \/ Doomed(a)'
    <3>1. ~(uses[b] > 0)
      BY <1>3
    <3> QED
      BY <1>1, <1>4, <1>6, <2>1, <3>1 DEF Tabled
  <2>3. \A a \in DOMAIN entries' :
          /\ a \in Addresses /\ born'[a] # <<>>
          /\ entries'[a] \in DOMAIN pool' /\ pool'[entries'[a]] = Birthplace(a)'
    BY <1>1, <1>4, <1>6 DEF Tabled, Birthplace
  <2> QED
    BY <2>2, <2>3 DEF Tabled
<1> QED
  BY <1>8, <1>9, <1>11, <1>12 DEF HInv, ThreadsApart

-----------------------------------------------------------------------------
LEMMA HStep ==
  ASSUME HInv, [Next]_vars
  PROVE  HInv'
<1>1. CASE \E t \in Threads : Continue(t) \/ Operate(t)
  <2> PICK t \in Threads : Continue(t) \/ Operate(t)
    BY <1>1
  <2>1. CASE Continue(t)
    <3>1. CASE Register(t)
      BY <3>1, RegisterStep
    <3>2. CASE Unregister(t)
      BY <3>2, UnregisterStep
    <3>3. CASE Count(t) \/ Uncount(t) \/ Free(t) \/ Answer(t)
      BY <3>3, QuietSteps
    <3> QED
      BY <2>1, <3>1, <3>2, <3>3 DEF Continue
  <2>2. CASE Operate(t)
    <3>1. CASE \E h \in Handles, a \in Addresses, loc \in Locations : Allocate(t, h, a, loc)
      BY <3>1, AllocateStep
    <3>2. CASE \E g, h \in Handles : Copy(t, g, h) \/ Move(t, g, h)
      BY <3>2, CopyStep, MoveStep
    <3>3. CASE \E h \in Handles : Destroy(t, h)
      BY <3>3, DestroyStep
    <3>4. CASE (\E h \in Handles : Serve(t, h)) \/ (\E a \in Addresses : Ask(t, a))
      BY <3>4, QuietSteps
    <3> QED
      BY <2>2, <3>1, <3>2, <3>3, <3>4 DEF Operate
  <2> QED
    BY <2>1, <2>2
<1>2. CASE UNCHANGED vars
  <2>1. /\ handle' = handle /\ uses' = uses /\ pc' = pc /\ busy' = busy /\ target' = target
        /\ born' = born /\ entries' = entries /\ pool' = pool /\ mux' = mux
    BY <1>2 DEF vars, tracerVars, handleVars
  <2>2. HandleTypes' <=> HandleTypes
    BY <2>1 DEF HandleTypes
  <2>3. UsesExact' <=> UsesExact
    BY <2>1 DEF UsesExact
  <2>4. \A t \in Threads : (Apart(t)' <=> Apart(t)) /\ (Targets(t)' <=> Targets(t))
                             /\ (Holds(t)' <=> Holds(t))
    BY <2>1 DEF Apart, Targets, Holds, Working, Constructing, Destroying
  <2>5. \A a : Doomed(a)' <=> Doomed(a)
    BY <2>1 DEF Doomed, Destroying
  <2>6. Tabled' <=> Tabled
    BY <2>1, <2>5 DEF Tabled, Birthplace
  <2> QED
    BY <2>2, <2>3, <2>4, <2>6 DEF HInv, ThreadsApart
<1> QED
  BY <1>1, <1>2 DEF Next

\* The inductive invariant: the state a thread constructs or destroys is no
\* handle's and no other thread's, and the tables list all states but those
\* that are not registered yet or no more.  (channel.hpp, allocate_tracer.hpp)
THEOREM HInvHolds == Spec => []HInv
<1>1. Init => HInv
  BY HInit
<1>2. HInv /\ [Next]_vars => HInv'
  BY HStep
<1> QED
  BY <1>1, <1>2, PTL DEF Spec

\* The use count of a shared state is the number of its handles.
THEOREM UsesCounted == Spec => []UsesExact
<1>1. HInv => UsesExact
  BY DEF HInv
<1> QED
  BY <1>1, HInvHolds, PTL

\* No handle refers to a state that is being constructed or destroyed.
THEOREM HandlesNeverDangle == Spec => []HandlesAlive
<1>1. ASSUME HInv
      PROVE  HandlesAlive
  <2>1. HandleTypes /\ UsesExact /\ ThreadsApart /\ Tabled
    BY <1>1 DEF HInv
  <2>2. ASSUME NEW h \in Handles, handle[h] # NoState
        PROVE  /\ handle[h] \in DOMAIN entries
               /\ \A t \in Threads : busy[t] = handle[h] => pc[t] \in {"idle", "copy location"}
    <3>1. handle[h] \in Addresses /\ uses[handle[h]] > 0
      BY <2>1, <2>2, HeldUsed
    <3>2. handle[h] \in DOMAIN entries
      BY <2>1, <3>1 DEF Tabled
    <3>3. ASSUME NEW t \in Threads, busy[t] = handle[h]
          PROVE  pc[t] \in {"idle", "copy location"}
      <4>1. ~Working(t)
        BY <2>1, <3>1, <3>3 DEF ThreadsApart, Apart
      <4>2. pc[t] \in PCs
        BY <2>1 DEF HandleTypes
      <4> QED
        BY <4>1, <4>2 DEF PCs, Working, Constructing, Destroying
    <3> QED
      BY <3>2, <3>3
  <2> QED
    BY <2>2 DEF HandlesAlive
<1> QED
  BY <1>1, HInvHolds, PTL

\* The tables of the tracer list the states there are, with their locations.
THEOREM TablesRight == Spec => []TracerExact
<1>1. ASSUME HInv
      PROVE  TracerExact
  <2>1. Tabled
    BY <1>1 DEF HInv
  <2>2. ASSUME NEW t \in Threads, Destroying(t)
        PROVE  busy[t] \in Addresses
    BY <1>1, <2>2 DEF HInv, ThreadsApart, Apart, Working
  <2>3. DOMAIN entries = {a \in Addresses : uses[a] > 0} \cup
          {busy[t] : t \in {u \in Threads : pc[u] \in {"dtor count", "dtor unregister"}}}
    <3> DEFINE used == {a \in Addresses : uses[a] > 0}
               doomed == {busy[t] :
                            t \in {u \in Threads : pc[u] \in {"dtor count", "dtor unregister"}}}
    <3>1. \A a : a \in doomed <=> Doomed(a)
      BY DEF Doomed, Destroying
    <3>2. \A a : Doomed(a) => a \in Addresses
      BY <2>2 DEF Doomed
    <3> HIDE DEF doomed
    <3>3. \A a : a \in DOMAIN entries <=> a \in used \/ a \in doomed
      BY <2>1, <3>1, <3>2 DEF Tabled
    <3> HIDE DEF used
    <3> QED
      BY <3>3 DEF used, doomed
  <2>4. \A a \in DOMAIN entries : pool[entries[a]] = Birthplace(a)
    BY <2>1 DEF Tabled
  <2> QED
    BY <2>3, <2>4 DEF TracerExact
<1> QED
  BY <1>1, HInvHolds, PTL

\* What get_ctr_loc has found stays true until it is copied.
THEOREM AnswersTrue == Spec => []AnswerTrue
<1>1. ASSUME HInv
      PROVE  AnswerTrue
  <2>1. ASSUME NEW t \in Threads, pc[t] = "copy location", busy[t] # NoState
        PROVE  busy[t] \in DOMAIN entries /\ pool[entries[busy[t]]] = Birthplace(busy[t])
    <3>1. busy[t] \in DOMAIN entries
      BY <1>1, <2>1 DEF HInv, ThreadsApart, Holds
    <3> QED
      BY <1>1, <3>1 DEF HInv, Tabled
  <2> QED
    BY <2>1 DEF AnswerTrue
<1> QED
  BY <1>1, HInvHolds, PTL

\* The vector of the pool does not grow while somebody copies out of it.
THEOREM PoolStays == Spec => NoReallocation
<1>1. ASSUME HInv, [Next]_vars, NEW t \in Threads, pc[t] = "copy location"
      PROVE  pool' = pool
  <2>1. mux # 0
    BY <1>1, HandlesAssumption DEF HInv, ThreadsApart, Holds, HandlesAssumption
  <2>2. ASSUME NEW u \in Threads, Continue(u)
        PROVE  pool' = pool
    BY <2>1, <2>2 DEF Continue, Count, CtorCount, Register, CtorRegister, Uncount, DtorCount,
                      Unregister, DtorUnregister, Free, Answer, CopyLocation, tracerVars
  <2>3. ASSUME NEW u \in Threads, Operate(u)
        PROVE  pool' = pool
    BY <2>3 DEF Operate, Allocate, Copy, Move, Destroy, Serve, Ask, LookUp, tracerVars
  <2>4. UNCHANGED vars => pool' = pool
    BY DEF vars, tracerVars
  <2> QED
    BY <1>1, <2>2, <2>3, <2>4 DEF Next
<1>2. HInv /\ [Next]_vars =>
        [(\E t \in Threads : pc[t] = "copy location") => UNCHANGED pool]_vars
  BY <1>1
<1> QED
  BY <1>2, HInvHolds, PTL DEF Spec, NoReallocation

-----------------------------------------------------------------------------
(* How many there are: the count, and the table of locations.              *)

Registering == {t \in Threads : pc[t] = "ctor register"}
Unregistering == {t \in Threads : pc[t] = "dtor unregister"}

\* The states that the table f lists with location id.
ListedAt(f, id) == {a \in DOMAIN f : f[a] = id}

\* Only finitely many threads are ever between two steps, though there may be
\* infinitely many of them, and so CountsAgree counts finite sets.
Counts ==
  /\ IsFiniteSet(DOMAIN entries)
  /\ IsFiniteSet(Registering) /\ IsFiniteSet(Unregistering)
  /\ refCount = Cardinality(DOMAIN entries) + Cardinality(Registering) - Cardinality(Unregistering)
  /\ DOMAIN locs = {entries[a] : a \in DOMAIN entries}
  /\ \A id \in DOMAIN locs : locs[id] = Cardinality(ListedAt(entries, id))

\* What is left of the types.
Limits ==
  /\ mux \in Threads \cup {0}
  /\ \A i, j \in DOMAIN pool : pool[i] = pool[j] => i = j
  /\ \A a \in Addresses : Life(a) <= MaxBorn
  /\ result \in [state : Addresses \cup {NoState}, life : 0..MaxBorn]

CInv == HInv /\ Counts /\ Limits

LEMMA CountsListed == Counts => CountsAgree
BY DEF Counts, CountsAgree, Registering, Unregistering, ListedAt

LEMMA ListedFinite ==
  ASSUME NEW f, NEW id, IsFiniteSet(DOMAIN f)
  PROVE  IsFiniteSet(ListedAt(f, id)) /\ Cardinality(ListedAt(f, id)) \in Nat
BY FS_Subset, FS_CardinalityType DEF ListedAt

\* A thread that neither comes to the tables nor leaves them.
LEMMA CountsStay ==
  ASSUME HandleTypes, Counts, NEW t \in Threads,
         pc[t] \notin {"ctor register", "dtor unregister"},
         \/ pc' = pc
         \/ \E l \in PCs \ {"ctor register", "dtor unregister"} : pc' = [pc EXCEPT ![t] = l],
         refCount' = refCount, entries' = entries, locs' = locs
  PROVE  Counts'
<1>1. \A u \in Threads : /\ pc'[u] = "ctor register" <=> pc[u] = "ctor register"
                         /\ pc'[u] = "dtor unregister" <=> pc[u] = "dtor unregister"
  BY DEF HandleTypes
<1>2. Registering' = Registering /\ Unregistering' = Unregistering
  BY <1>1 DEF Registering, Unregistering
<1>3. /\ IsFiniteSet(DOMAIN entries') /\ IsFiniteSet(Registering') /\ IsFiniteSet(Unregistering')
      /\ DOMAIN locs' = {entries'[a] : a \in DOMAIN entries'}
  BY <1>2 DEF Counts
<1>4. refCount' = Cardinality(DOMAIN entries')
                    + Cardinality(Registering') - Cardinality(Unregistering')
  BY <1>2 DEF Counts
<1>5. \A id \in DOMAIN locs' : locs'[id] = Cardinality(ListedAt(entries', id))
  BY DEF Counts, ListedAt
<1> QED
  BY <1>3, <1>4, <1>5 DEF Counts

\* A thread goes on, all others stay where they are.
LEMMA Passing ==
  ASSUME HandleTypes, NEW t \in Threads, NEW l, pc' = [pc EXCEPT ![t] = l]
  PROVE  /\ Registering' = IF l = "ctor register" THEN Registering \cup {t} ELSE Registering \ {t}
         /\ Unregistering' = IF l = "dtor unregister" THEN Unregistering \cup {t}
                             ELSE Unregistering \ {t}
<1>1. pc'[t] = l /\ \A u \in Threads : u # t => pc'[u] = pc[u]
  BY DEF HandleTypes
<1> QED
  BY <1>1 DEF Registering, Unregistering

\* ctor and dtor change the count first.
LEMMA CountCounts ==
  ASSUME HandleTypes, Counts, NEW t \in Threads, Count(t) \/ Uncount(t)
  PROVE  Counts'
<1> DEFINE E == Cardinality(DOMAIN entries)
           R == Cardinality(Registering)
           U == Cardinality(Unregistering)
<1>1. /\ IsFiniteSet(DOMAIN entries) /\ IsFiniteSet(Registering) /\ IsFiniteSet(Unregistering)
      /\ refCount = E + R - U
  BY DEF Counts
<1>2. E \in Nat /\ R \in Nat /\ U \in Nat
  BY <1>1, FS_CardinalityType
<1>3. entries' = entries /\ locs' = locs /\ Cardinality(DOMAIN entries') = E
  BY DEF Count, CtorCount, Uncount, DtorCount
<1>4. /\ DOMAIN locs' = {entries'[a] : a \in DOMAIN entries'}
      /\ \A id \in DOMAIN locs' : locs'[id] = Cardinality(ListedAt(entries', id))
  BY <1>3 DEF Counts, ListedAt
<1>5. CASE Count(t)
  <2>1. pc[t] = "ctor count" /\ pc' = [pc EXCEPT ![t] = "ctor register"] /\ refCount' = refCount + 1
    BY <1>5 DEF Count, CtorCount, GoTo
  <2>2. Registering' = Registering \cup {t} /\ Unregistering' = Unregistering \ {t}
    BY <2>1, Passing
  <2>3. t \notin Registering /\ t \notin Unregistering
    BY <2>1 DEF Registering, Unregistering
  <2>4. Unregistering' = Unregistering /\ Cardinality(Unregistering') = U
    BY <2>2, <2>3
  <2>5. IsFiniteSet(Registering') /\ Cardinality(Registering') = R + 1
    BY <1>1, <2>2, <2>3, FS_AddElement
  <2>6. refCount' = Cardinality(DOMAIN entries')
                      + Cardinality(Registering') - Cardinality(Unregistering')
    <3>1. refCount' = (E + R - U) + 1
      BY <1>1, <2>1
    <3>2. (E + R - U) + 1 = E + (R + 1) - U
      BY <1>2
    <3> QED
      BY <1>3, <2>4, <2>5, <3>1, <3>2
  <2> QED
    BY <1>1, <1>3, <1>4, <2>4, <2>5, <2>6 DEF Counts
<1>6. CASE Uncount(t)
  <2>1. /\ pc[t] = "dtor count" /\ pc' = [pc EXCEPT ![t] = "dtor unregister"]
        /\ refCount' = refCount - 1
    BY <1>6 DEF Uncount, DtorCount, GoTo
  <2>2. Registering' = Registering \ {t} /\ Unregistering' = Unregistering \cup {t}
    BY <2>1, Passing
  <2>3. t \notin Registering /\ t \notin Unregistering
    BY <2>1 DEF Registering, Unregistering
  <2>4. Registering' = Registering /\ Cardinality(Registering') = R
    BY <2>2, <2>3
  <2>5. IsFiniteSet(Unregistering') /\ Cardinality(Unregistering') = U + 1
    BY <1>1, <2>2, <2>3, FS_AddElement
  <2>6. refCount' = Cardinality(DOMAIN entries')
                      + Cardinality(Registering') - Cardinality(Unregistering')
    <3>1. refCount' = (E + R - U) - 1
      BY <1>1, <2>1
    <3>2. (E + R - U) - 1 = E + R - (U + 1)
      BY <1>2
    <3> QED
      BY <1>3, <2>4, <2>5, <3>1, <3>2
  <2> QED
    BY <1>1, <1>3, <1>4, <2>4, <2>5, <2>6 DEF Counts
<1> QED
  BY <1>5, <1>6

\* What a thread that comes to the tables finds there.
LEMMA NotListed ==
  ASSUME HInv, NEW t \in Threads, t \in Registering
  PROVE  busy[t] \in Addresses /\ busy[t] \notin DOMAIN entries
<1>1. Working(t) /\ ~Destroying(t) /\ Apart(t) /\ Tabled
  BY DEF HInv, ThreadsApart, Registering, Working, Constructing, Destroying
<1>2. busy[t] \in Addresses /\ uses[busy[t]] = 0
  BY <1>1 DEF Apart
<1>3. ~(uses[busy[t]] > 0)
  BY <1>2
<1>4. ~Doomed(busy[t])
  BY <1>1 DEF Apart, Doomed, Working
<1> QED
  BY <1>1, <1>2, <1>3, <1>4 DEF Tabled

LEMMA StillListed ==
  ASSUME HInv, NEW t \in Threads, t \in Unregistering
  PROVE  busy[t] \in Addresses /\ busy[t] \in DOMAIN entries
<1>1. Working(t) /\ Destroying(t) /\ Apart(t) /\ Tabled
  BY DEF HInv, ThreadsApart, Unregistering, Working, Constructing, Destroying
<1>2. busy[t] \in Addresses /\ Doomed(busy[t])
  BY <1>1 DEF Apart, Doomed
<1> QED
  BY <1>1, <1>2 DEF Tabled

\* A state more at one location, and one less.
LEMMA ListedMore ==
  ASSUME NEW f, IsFiniteSet(DOMAIN f), NEW b, b \notin DOMAIN f, NEW v, NEW id
  PROVE  Cardinality(ListedAt(Assigned(f, b, v), id)) =
           IF id = v THEN Cardinality(ListedAt(f, id)) + 1 ELSE Cardinality(ListedAt(f, id))
<1> DEFINE g == Assigned(f, b, v)
<1>1. DOMAIN g = DOMAIN f \cup {b} /\ g[b] = v /\ \A a \in DOMAIN f : a # b /\ g[a] = f[a]
  BY DEF Assigned
<1> HIDE DEF g
<1>2. CASE id = v
  <2>1. ListedAt(g, id) = ListedAt(f, id) \cup {b} /\ b \notin ListedAt(f, id)
    BY <1>1, <1>2 DEF ListedAt
  <2> QED
    BY <1>2, <2>1, ListedFinite, FS_AddElement DEF g
<1>3. CASE id # v
  <2>1. ListedAt(g, id) = ListedAt(f, id)
    BY <1>1, <1>3 DEF ListedAt
  <2> QED
    BY <1>3, <2>1 DEF g
<1> QED
  BY <1>2, <1>3

LEMMA ListedLess ==
  ASSUME NEW f, IsFiniteSet(DOMAIN f), NEW b \in DOMAIN f, NEW id
  PROVE  /\ ListedAt(Erased(f, b), id) = ListedAt(f, id) \ {b}
         /\ Cardinality(ListedAt(Erased(f, b), id)) =
              IF id = f[b] THEN Cardinality(ListedAt(f, id)) - 1 ELSE Cardinality(ListedAt(f, id))
<1> DEFINE g == Erased(f, b)
<1>1. DOMAIN g = DOMAIN f \ {b} /\ \A a \in DOMAIN g : g[a] = f[a]
  BY DEF Erased
<1> HIDE DEF g
<1>2. ListedAt(g, id) = ListedAt(f, id) \ {b}
  BY <1>1 DEF ListedAt
<1>3. b \in ListedAt(f, id) <=> id = f[b]
  BY DEF ListedAt
<1> QED
  BY <1>2, <1>3, ListedFinite, FS_RemoveElement DEF g

LEMMA CountRegisters ==
  ASSUME HInv, Counts, NEW t \in Threads, Register(t)
  PROVE  Counts'
<1> DEFINE b == busy[t]
           id == IdOf(Birthplace(b))
           E == Cardinality(DOMAIN entries)
           R == Cardinality(Registering)
           U == Cardinality(Unregistering)
           n == Cardinality(ListedAt(entries, id))
<1>1. /\ IsFiniteSet(DOMAIN entries) /\ IsFiniteSet(Registering) /\ IsFiniteSet(Unregistering)
      /\ refCount = E + R - U
      /\ DOMAIN locs = {entries[a] : a \in DOMAIN entries}
      /\ \A k \in DOMAIN locs : locs[k] = Cardinality(ListedAt(entries, k))
  BY DEF Counts
<1>2. E \in Nat /\ R \in Nat /\ U \in Nat
  BY <1>1, FS_CardinalityType
<1>3. t \in Registering /\ t \notin Unregistering
  BY DEF Register, Registering, Unregistering
<1>4. b \in Addresses /\ b \notin DOMAIN entries
  BY <1>3, NotListed
<1>5. Registering' = Registering \ {t} /\ Unregistering' = Unregistering \ {t}
  <2>1. pc' = [pc EXCEPT ![t] = "idle"] /\ HandleTypes
    BY DEF Register, GoTo, HInv
  <2>2. "idle" # "ctor register" /\ "idle" # "dtor unregister"
    OBVIOUS
  <2> QED
    BY <2>1, <2>2, Passing
<1>6. Unregistering' = Unregistering /\ Cardinality(Unregistering') = U
  BY <1>3, <1>5
<1>7. IsFiniteSet(Registering') /\ Cardinality(Registering') = R - 1
  BY <1>1, <1>3, <1>5, FS_RemoveElement
<1>8. /\ refCount' = refCount /\ entries' = Assigned(entries, b, id)
      /\ locs' = Assigned(locs, id, IF id \in DOMAIN locs THEN locs[id] + 1 ELSE 1)
  BY DEF Register, CtorRegister
<1>9. /\ DOMAIN entries' = DOMAIN entries \cup {b} /\ entries'[b] = id
      /\ \A a \in DOMAIN entries : a # b /\ entries'[a] = entries[a]
  BY <1>4, <1>8 DEF Assigned
<1>10. IsFiniteSet(DOMAIN entries') /\ Cardinality(DOMAIN entries') = E + 1
  BY <1>1, <1>4, <1>9, FS_AddElement
<1>11. refCount' = Cardinality(DOMAIN entries')
                     + Cardinality(Registering') - Cardinality(Unregistering')
  <2>1. E + R - U = (E + 1) + (R - 1) - U
    BY <1>2
  <2> QED
    BY <1>1, <1>6, <1>7, <1>8, <1>10, <2>1
<1>12. /\ DOMAIN locs' = DOMAIN locs \cup {id}
       /\ locs'[id] = IF id \in DOMAIN locs THEN locs[id] + 1 ELSE 1
       /\ \A k \in DOMAIN locs : k # id => locs'[k] = locs[k]
  BY <1>8 DEF Assigned
<1>13. DOMAIN locs' = {entries'[a] : a \in DOMAIN entries'}
  BY <1>1, <1>9, <1>12
<1>14. ASSUME NEW k \in DOMAIN locs'
       PROVE  locs'[k] = Cardinality(ListedAt(entries', k))
  <2>1. Cardinality(ListedAt(entries', k)) =
          IF k = id THEN Cardinality(ListedAt(entries, k)) + 1
          ELSE Cardinality(ListedAt(entries, k))
    BY <1>1, <1>4, <1>8, ListedMore
  <2>2. CASE k # id
    BY <1>1, <1>12, <2>1, <2>2
  <2>3. CASE k = id /\ id \in DOMAIN locs
    BY <1>1, <1>12, <2>1, <2>3
  <2>4. CASE k = id /\ id \notin DOMAIN locs
    <3>1. ListedAt(entries, id) = {}
      BY <1>1, <2>4 DEF ListedAt
    <3>2. n = 0
      BY <3>1, FS_EmptySet
    <3> QED
      BY <1>12, <2>1, <2>4, <3>2
  <2> QED
    BY <2>2, <2>3, <2>4
<1> QED
  BY <1>1, <1>6, <1>7, <1>10, <1>11, <1>13, <1>14 DEF Counts

LEMMA CountUnregisters ==
  ASSUME HInv, Counts, NEW t \in Threads, Unregister(t)
  PROVE  Counts'
<1> DEFINE b == busy[t]
           id == entries[b]
           E == Cardinality(DOMAIN entries)
           R == Cardinality(Registering)
           U == Cardinality(Unregistering)
           n == Cardinality(ListedAt(entries, id))
<1>1. /\ IsFiniteSet(DOMAIN entries) /\ IsFiniteSet(Registering) /\ IsFiniteSet(Unregistering)
      /\ refCount = E + R - U
      /\ DOMAIN locs = {entries[a] : a \in DOMAIN entries}
      /\ \A k \in DOMAIN locs : locs[k] = Cardinality(ListedAt(entries, k))
  BY DEF Counts
<1>2. E \in Nat /\ R \in Nat /\ U \in Nat
  BY <1>1, FS_CardinalityType
<1>3. t \notin Registering /\ t \in Unregistering
  BY DEF Unregister, Registering, Unregistering
<1>4. b \in DOMAIN entries
  BY <1>3, StillListed
<1>5. Registering' = Registering \ {t} /\ Unregistering' = Unregistering \ {t}
  <2>1. pc' = [pc EXCEPT ![t] = "free"] /\ HandleTypes
    BY DEF Unregister, GoTo, HInv
  <2>2. "free" # "ctor register" /\ "free" # "dtor unregister"
    OBVIOUS
  <2> QED
    BY <2>1, <2>2, Passing
<1>6. Registering' = Registering /\ Cardinality(Registering') = R
  BY <1>3, <1>5
<1>7. IsFiniteSet(Unregistering') /\ Cardinality(Unregistering') = U - 1
  BY <1>1, <1>3, <1>5, FS_RemoveElement
<1>8. refCount' = refCount /\ entries' = Erased(entries, b) /\ locs' = LocsWithout(id)
  BY <1>4 DEF Unregister, DtorUnregister
<1>9. /\ DOMAIN entries' = DOMAIN entries \ {b}
      /\ \A a \in DOMAIN entries' : entries'[a] = entries[a]
  BY <1>8 DEF Erased
<1>10. IsFiniteSet(DOMAIN entries') /\ Cardinality(DOMAIN entries') = E - 1
  BY <1>1, <1>4, <1>9, FS_RemoveElement
<1>11. refCount' = Cardinality(DOMAIN entries')
                     + Cardinality(Registering') - Cardinality(Unregistering')
  <2>1. E + R - U = (E - 1) + R - (U - 1)
    BY <1>2
  <2> QED
    BY <1>1, <1>6, <1>7, <1>8, <1>10, <2>1
<1>12. id \in DOMAIN locs /\ locs[id] = n /\ n \in Nat /\ b \in ListedAt(entries, id)
  BY <1>1, <1>4, ListedFinite DEF ListedAt
<1>13. \A k : /\ ListedAt(entries', k) = ListedAt(entries, k) \ {b}
              /\ Cardinality(ListedAt(entries', k)) =
                   IF k = id THEN Cardinality(ListedAt(entries, k)) - 1
                   ELSE Cardinality(ListedAt(entries, k))
  BY <1>1, <1>4, <1>8, ListedLess
<1>14. CASE n = 1
  <2>1. ListedAt(entries, id) = {b}
    BY <1>1, <1>12, <1>14, ListedFinite, FS_Singleton
  <2>2. DOMAIN locs' = DOMAIN locs \ {id} /\ \A k \in DOMAIN locs' : locs'[k] = locs[k]
    BY <1>8, <1>12, <1>14 DEF LocsWithout, Erased
  <2>3. \A a \in DOMAIN entries : a # b <=> entries[a] # id
    BY <1>4, <2>1 DEF ListedAt
  <2>4. DOMAIN locs' = {entries'[a] : a \in DOMAIN entries'}
    BY <1>1, <1>9, <2>2, <2>3
  <2>5. \A k \in DOMAIN locs' : locs'[k] = Cardinality(ListedAt(entries', k))
    BY <1>1, <1>13, <2>2
  <2> QED
    BY <1>1, <1>6, <1>7, <1>10, <1>11, <2>4, <2>5 DEF Counts
<1>15. CASE n # 1
  <2>1. locs' = [locs EXCEPT ![id] = locs[id] - 1]
    BY <1>8, <1>12, <1>15 DEF LocsWithout
  <2>2. DOMAIN locs' = DOMAIN locs /\ locs'[id] = n - 1
        /\ \A k \in DOMAIN locs : k # id => locs'[k] = locs[k]
    BY <1>12, <2>1
  <2>3. PICK a \in DOMAIN entries : a # b /\ entries[a] = id
    <3>1. ListedAt(entries, id) # {b}
      BY <1>1, <1>15, ListedFinite, FS_Singleton
    <3> QED
      BY <1>12, <3>1 DEF ListedAt
  <2>4. DOMAIN locs' = {entries'[c] : c \in DOMAIN entries'}
    BY <1>1, <1>9, <2>2, <2>3
  <2>5. \A k \in DOMAIN locs' : locs'[k] = Cardinality(ListedAt(entries', k))
    BY <1>1, <1>13, <2>2
  <2> QED
    BY <1>1, <1>6, <1>7, <1>10, <1>11, <2>4, <2>5 DEF Counts
<1> QED
  BY <1>14, <1>15

\* No step lets the count and the tables drift apart.
LEMMA CountsStep ==
  ASSUME HInv, Counts, [Next]_vars
  PROVE  Counts'
<1>1. HandleTypes
  BY DEF HInv
<1>2. ASSUME NEW t \in Threads, NEW h \in Handles, NEW a \in Addresses, NEW loc \in Locations,
             Allocate(t, h, a, loc)
      PROVE  Counts'
  BY <1>1, <1>2, CountsStay DEF Allocate, GoTo, tracerVars, PCs
<1>3. ASSUME NEW t \in Threads, NEW a, NEW u, pc[t] = "idle", Release(t, a, u), UNCHANGED tracerVars
      PROVE  Counts'
  BY <1>1, <1>3, CountsStay DEF Release, GoTo, tracerVars, PCs
<1>4. ASSUME NEW t \in Threads, Operate(t)
      PROVE  Counts'
  <2>1. CASE \E h \in Handles, a \in Addresses, loc \in Locations : Allocate(t, h, a, loc)
    BY <1>2, <2>1
  <2>2. CASE \E g, h \in Handles : Copy(t, g, h) \/ Move(t, g, h)
    BY <1>3, <2>2 DEF Copy, Move
  <2>3. CASE \E h \in Handles : Destroy(t, h)
    BY <1>3, <2>3 DEF Destroy
  <2>4. CASE \E h \in Handles : Serve(t, h)
    <3>1. pc' = pc /\ pc[t] = "idle" /\ refCount' = refCount /\ entries' = entries /\ locs' = locs
      BY <2>4 DEF Serve, tracerVars
    <3> QED
      BY <1>1, <3>1, CountsStay
  <2>5. CASE \E a \in Addresses : Ask(t, a)
    <3>1. /\ pc' = [pc EXCEPT ![t] = "copy location"] /\ pc[t] = "idle"
          /\ refCount' = refCount /\ entries' = entries /\ locs' = locs
      BY <2>5 DEF Ask, LookUp, GoTo
    <3>2. "copy location" \in PCs \ {"ctor register", "dtor unregister"}
      BY DEF PCs
    <3> QED
      BY <1>1, <3>1, <3>2, CountsStay
  <2> QED
    BY <1>4, <2>1, <2>2, <2>3, <2>4, <2>5 DEF Operate
<1>5. ASSUME NEW t \in Threads, Continue(t)
      PROVE  Counts'
  <2>1. CASE Count(t) \/ Uncount(t)
    BY <1>1, <2>1, CountCounts
  <2>2. CASE Register(t)
    BY <2>2, CountRegisters
  <2>3. CASE Unregister(t)
    BY <2>3, CountUnregisters
  <2>4. CASE Free(t) \/ Answer(t)
    <3>1. /\ pc' = [pc EXCEPT ![t] = "idle"] /\ pc[t] \notin {"ctor register", "dtor unregister"}
          /\ refCount' = refCount /\ entries' = entries /\ locs' = locs
      BY <2>4 DEF Free, Answer, CopyLocation, GoTo, tracerVars
    <3>2. "idle" \in PCs \ {"ctor register", "dtor unregister"}
      BY DEF PCs
    <3> QED
      BY <1>1, <3>1, <3>2, CountsStay
  <2> QED
    BY <1>5, <2>1, <2>2, <2>3, <2>4 DEF Continue
<1>6. CASE UNCHANGED vars
  BY <1>6 DEF vars, tracerVars, handleVars, Counts, Registering, Unregistering, ListedAt
<1> QED
  BY <1>4, <1>5, <1>6 DEF Next

\* A location gets one number only.
LEMMA PoolDistinct ==
  ASSUME pool \in Seq(Locations), \A i, j \in DOMAIN pool : pool[i] = pool[j] => i = j,
         NEW loc \in Locations
  PROVE  \A i, j \in DOMAIN PoolWith(loc) : PoolWith(loc)[i] = PoolWith(loc)[j] => i = j
<1>1. CASE Known(loc)
  BY <1>1 DEF PoolWith
<1>2. CASE ~Known(loc)
  <2>1. PoolWith(loc) = Append(pool, loc)
    BY <1>2 DEF PoolWith
  <2>2. \A i \in DOMAIN pool : pool[i] # loc
    BY <1>2 DEF Known
  <2>3. DOMAIN Append(pool, loc) = DOMAIN pool \cup {Len(pool) + 1}
    OBVIOUS
  <2>4. /\ Append(pool, loc)[Len(pool) + 1] = loc
        /\ \A i \in DOMAIN pool : Append(pool, loc)[i] = pool[i]
    OBVIOUS
  <2> QED
    BY <2>1, <2>2, <2>3, <2>4
<1> QED
  BY <1>1, <1>2

LEMMA LimitsStep ==
  ASSUME HInv, Limits, [Next]_vars
  PROVE  Limits'
<1>1. HandleTypes
  BY DEF HInv
<1> DEFINE Mux == mux \in Threads \cup {0}
           Pool == \A i, j \in DOMAIN pool : pool[i] = pool[j] => i = j
           Lives == \A a \in Addresses : Life(a) <= MaxBorn
           Result == result \in [state : Addresses \cup {NoState}, life : 0..MaxBorn]
<1>2. Mux /\ Pool /\ Lives /\ Result
  BY DEF Limits
<1>3. Mux'
  <2>1. ASSUME NEW t \in Threads, Continue(t) \/ Operate(t)
        PROVE  mux' \in {mux, 0, t}
    <3>1. CASE Continue(t)
      BY <3>1 DEF Continue, Count, CtorCount, Register, CtorRegister, Uncount, DtorCount,
                  Unregister, DtorUnregister, Free, Answer, CopyLocation, tracerVars
    <3>2. CASE Operate(t)
      BY <3>2 DEF Operate, Allocate, Copy, Move, Destroy, Serve, Ask, LookUp, tracerVars
    <3> QED
      BY <2>1, <3>1, <3>2
  <2>2. UNCHANGED vars => mux' = mux
    BY DEF vars, tracerVars
  <2> QED
    BY <1>2, <2>1, <2>2 DEF Next
<1>4. Pool'
  <2>1. ASSUME NEW t \in Threads, Continue(t) \/ Operate(t)
        PROVE  pool' = pool \/ \E loc \in Locations : pool' = PoolWith(loc)
    <3>1. CASE Register(t)
      <4>1. Targets(t) /\ Apart(t)
        BY DEF HInv, ThreadsApart
      <4>2. Working(t) /\ Constructing(t)
        BY <3>1 DEF Register, Working, Constructing
      <4>3. busy[t] \in Addresses /\ born[busy[t]] # <<>>
        BY <4>1, <4>2 DEF Targets, Apart
      <4>4. born[busy[t]] \in Seq(Locations)
        BY <1>1, <4>3 DEF HandleTypes
      <4>5. Birthplace(busy[t]) \in Locations
        BY <4>3, <4>4 DEF Birthplace
      <4> QED
        BY <3>1, <4>5 DEF Register, CtorRegister
    <3>2. CASE Continue(t) /\ ~Register(t)
      BY <3>2 DEF Continue, Count, CtorCount, Uncount, DtorCount, Unregister, DtorUnregister,
                  Free, Answer, CopyLocation, tracerVars
    <3>3. CASE Operate(t)
      BY <3>3 DEF Operate, Allocate, Copy, Move, Destroy, Serve, Ask, LookUp, tracerVars
    <3> QED
      BY <2>1, <3>1, <3>2, <3>3
  <2>2. UNCHANGED vars => pool' = pool
    BY DEF vars, tracerVars
  <2>3. CASE pool' = pool
    BY <1>2, <2>3
  <2>4. CASE \E loc \in Locations : pool' = PoolWith(loc)
    BY <1>1, <1>2, <2>4, PoolDistinct DEF HandleTypes
  <2> QED
    BY <2>1, <2>2, <2>3, <2>4 DEF Next
<1>5. Lives'
  <2>1. ASSUME NEW t \in Threads, NEW h \in Handles, NEW a \in Addresses, NEW loc \in Locations,
               Allocate(t, h, a, loc)
        PROVE  Lives'
    <3>1. /\ born \in [Addresses -> Seq(Locations)]
          /\ born' = [born EXCEPT ![a] = Append(born[a], loc)]
      BY <1>1, <2>1 DEF Allocate, HandleTypes
    <3>2. Len(born[a]) < MaxBorn /\ MaxBorn \in Nat
      BY <2>1, HandlesAssumption DEF Allocate, Life, HandlesAssumption
    <3>3. born'[a] = Append(born[a], loc) /\ \A b \in Addresses : b # a => born'[b] = born[b]
      BY <3>1
    <3>4. Len(Append(born[a], loc)) = Len(born[a]) + 1 /\ Len(born[a]) \in Nat
      BY <3>1
    <3>5. Len(born'[a]) <= MaxBorn
      BY <3>2, <3>3, <3>4
    <3> QED
      BY <1>2, <3>3, <3>5 DEF Life
  <2>2. ASSUME NEW t \in Threads, Continue(t) \/ Operate(t),
               ~\E h \in Handles, a \in Addresses, loc \in Locations : Allocate(t, h, a, loc)
        PROVE  born' = born
    BY <2>2 DEF Continue, Operate, Count, Register, Uncount, Unregister, Free, Answer,
                Copy, Move, Destroy, Serve, Ask
  <2>3. UNCHANGED vars => born' = born
    BY DEF vars, handleVars
  <2>4. born' = born => Lives'
    BY <1>2 DEF Life
  <2> QED
    BY <2>1, <2>2, <2>3, <2>4 DEF Next
<1>6. Result'
  <2>1. ASSUME NEW t \in Threads, NEW h \in Handles, Serve(t, h)
        PROVE  Result'
    <3>1. handle[h] \in Addresses /\ result' = [state |-> handle[h], life |-> Life(handle[h])]
      BY <1>1, <2>1 DEF Serve, HandleTypes
    <3>2. born[handle[h]] \in Seq(Locations)
      BY <1>1, <3>1 DEF HandleTypes
    <3>3. Life(handle[h]) \in Nat /\ Life(handle[h]) <= MaxBorn /\ MaxBorn \in Nat
      BY <1>2, <3>1, <3>2, HandlesAssumption DEF Life, HandlesAssumption
    <3> QED
      BY <3>1, <3>3
  <2>2. ASSUME NEW t \in Threads, Continue(t) \/ Operate(t), ~\E h \in Handles : Serve(t, h)
        PROVE  result' = result
    BY <2>2 DEF Continue, Operate, Count, Register, Uncount, Unregister, Free, Answer,
                Allocate, Copy, Move, Destroy, Ask
  <2>3. UNCHANGED vars => result' = result
    BY DEF vars, handleVars
  <2> QED
    BY <1>2, <2>1, <2>2, <2>3 DEF Next
<1> QED
  BY <1>3, <1>4, <1>5, <1>6 DEF Limits

\* With the numbers, the invariant of handles and tables is inductive as well.
\* (allocate_tracer.hpp)
THEOREM CInvHolds == Spec => []CInv
<1>1. ASSUME Init
      PROVE  Counts /\ Limits
  <2>1. DOMAIN entries = {} /\ DOMAIN locs = {} /\ refCount = 0
    BY <1>1 DEF Init, TracerInit
  <2>2. Registering = {} /\ Unregistering = {}
    <3>1. \A t \in Threads : pc[t] = "idle"
      BY <1>1 DEF Init
    <3> QED
      BY <3>1 DEF Registering, Unregistering
  <2>3. Counts
    BY <2>1, <2>2, FS_EmptySet DEF Counts
  <2>4. Limits
    BY <1>1, HandlesAssumption
       DEF Init, TracerInit, Limits, Life, NoResult, HandlesAssumption
  <2> QED
    BY <2>3, <2>4
<1>2. Init => CInv
  BY <1>1, HInit DEF CInv
<1>3. CInv /\ [Next]_vars => CInv'
  BY HStep, CountsStep, LimitsStep DEF CInv
<1> QED
  BY <1>2, <1>3, PTL DEF Spec

\* The count and the tables differ by the threads between the two only, and a
\* location is listed with the number of its states.
THEOREM CountsRight == Spec => []CountsAgree
<1>1. CInv => CountsAgree
  BY CountsListed DEF CInv
<1> QED
  BY <1>1, CInvHolds, PTL

\* No more states are left to be unregistered than there are in the tables.
LEMMA CountNatural ==
  ASSUME HInv, Counts
  PROVE  refCount \in Nat
<1> DEFINE f == [t \in Unregistering |-> busy[t]]
<1>1. \A t \in Unregistering : t \in Threads /\ busy[t] \in DOMAIN entries
  BY StillListed DEF Unregistering
<1>2. \A t, u \in Unregistering : busy[t] = busy[u] => t = u
  <2>1. \A t \in Unregistering : Working(t) /\ t \in Threads
    BY DEF Unregistering, Working, Destroying
  <2> QED
    BY <2>1 DEF HInv, ThreadsApart, Apart
<1>3. f \in Injection(Unregistering, DOMAIN entries)
  BY <1>1, <1>2 DEF Injection, IsInjective
<1>4. Cardinality(Unregistering) <= Cardinality(DOMAIN entries)
  BY <1>3, FS_Injection DEF Counts
<1>5. /\ Cardinality(Unregistering) \in Nat /\ Cardinality(DOMAIN entries) \in Nat
      /\ Cardinality(Registering) \in Nat
  BY FS_CardinalityType DEF Counts
<1>6. refCount = Cardinality(DOMAIN entries) + Cardinality(Registering) - Cardinality(Unregistering)
  BY DEF Counts
<1> QED
  BY <1>4, <1>5, <1>6

\* Every variable holds values of its type: the count is never negative, no
\* use count exceeds the number of handles, and no location has two numbers.
THEOREM HandlesTypeCorrect == Spec => []TypeOK
<1>1. ASSUME CInv
      PROVE  TypeOK
  <2>1. HInv /\ HandleTypes /\ UsesExact /\ Tabled /\ Counts /\ Limits
    BY <1>1 DEF CInv, HInv
  <2>2. refCount \in Nat
    BY <2>1, CountNatural
  <2>3. Len(pool) \in Nat /\ Len(pool) <= Cardinality(Locations)
    <3>1. pool \in Seq(Locations) /\ Len(pool) \in Nat /\ DOMAIN pool = 1..Len(pool)
      BY <2>1 DEF HandleTypes
    <3>2. pool \in Injection(1..Len(pool), Locations)
      BY <2>1, <3>1 DEF Limits, Injection, IsInjective
    <3>3. Cardinality(1..Len(pool)) <= Cardinality(Locations)
      BY <3>2, FS_Injection, LocationsAssumption DEF LocationsAssumption
    <3>4. Cardinality(1..Len(pool)) = Len(pool)
      BY <3>1, FS_Interval
    <3> QED
      BY <3>1, <3>3, <3>4
  <2>4. DOMAIN locs \subseteq 1..Cardinality(Locations)
    <3>1. \A a \in DOMAIN entries : entries[a] \in 1..Len(pool)
      BY <2>1 DEF Tabled, HandleTypes
    <3>2. Cardinality(Locations) \in Nat
      BY FS_CardinalityType, LocationsAssumption DEF LocationsAssumption
    <3>3. 1..Len(pool) \subseteq 1..Cardinality(Locations)
      BY <2>3, <3>2
    <3>4. DOMAIN locs = {entries[a] : a \in DOMAIN entries}
      BY <2>1 DEF Counts
    <3> QED
      BY <3>1, <3>3, <3>4
  <2>5. TracerTypeOK(Threads)
    BY <2>1, <2>2, <2>4 DEF TracerTypeOK, Limits, Tabled, HandleTypes
  <2>6. uses \in [Addresses -> 0..Cardinality(Handles)]
    <3>1. ASSUME NEW a \in Addresses
          PROVE  uses[a] \in 0..Cardinality(Handles)
      <4>1. Cardinality(HeldBy(handle, a)) <= Cardinality(Handles)
        BY FS_Subset, HandlesAssumption DEF HeldBy, HandlesAssumption
      <4>2. Cardinality(Handles) \in Nat
        BY FS_CardinalityType, HandlesAssumption DEF HandlesAssumption
      <4>3. uses[a] = Cardinality(HeldBy(handle, a)) /\ uses[a] \in Nat
        BY <2>1, UsesHeld DEF HandleTypes
      <4> QED
        BY <4>1, <4>2, <4>3
    <3> QED
      BY <2>1, <3>1 DEF HandleTypes
  <2> QED
    BY <2>1, <2>5, <2>6 DEF TypeOK, HandleTypes, Limits
<1> QED
  BY <1>1, CInvHolds, PTL

=============================================================================
