--------------------------- MODULE ChannelHandles ---------------------------
(***************************************************************************)
(* channel.hpp and the life of detail/channel_shared_state.hpp: threads    *)
(* construct, copy, convert, move, assign and destroy the handles of       *)
(* channels; the last handle that goes takes the shared state with it, and *)
(* its address may be given to another one.                                *)
(*                                                                         *)
(* An object is used by one thread at a time: a thread in the middle of an *)
(* operation on a handle is the only one that touches it.  A handle that   *)
(* is not constructed yet, destroyed or moved from has no shared state.    *)
(***************************************************************************)
EXTENDS AllocateTracer

CONSTANTS
  Threads,     \* numbers of threads
  Handles,     \* the objects that can hold a channel
  Flags,       \* flags of the type of every handle
  NoState,     \* nullptr
  MaxBorn      \* how often an address is given out (bound)

NoHandle == "none"

ASSUME HandlesAssumption ==
  /\ Threads \subseteq Nat \ {0}
  /\ IsFiniteSet(Handles) /\ NoHandle \notin Handles
  /\ Flags \in [Handles -> SUBSET {"readable", "writable"}]
  /\ NoState \notin Addresses
  /\ MaxBorn \in Nat

VARIABLES
  handle,      \* handle[h]: shared_state_ of h
  uses,        \* uses[a]: use count of the shared state at a
  pc,          \* pc[t]: the construction or destruction t is in
  busy,        \* busy[t]: the shared state it is about
  target,      \* target[t]: the handle that is being constructed
  result,      \* the channel_op_result_base that somebody keeps
  born         \* born[a]: where the states at a were constructed, a history

handleVars == <<handle, uses, pc, busy, target, result, born>>
vars == <<tracerVars, handleVars>>

PCs == {"idle", "ctor count", "ctor register", "dtor count", "dtor unregister",
        "free", "copy location"}
NoResult == [state |-> NoState, life |-> 0]

Life(a) == Len(born[a])
Birthplace(a) == born[a][Len(born[a])]

\* A faulty allocation that gives an address away before the destructor of the
\* state there is done.
UsedOnly == {a \in Addresses : uses[a] > 0}
             \cup {busy[t] : t \in {u \in Threads : pc[u] \in {"ctor count", "ctor register"}}}

\* Addresses at which a shared state is, or comes to be, or ceases to be.
Occupied == {a \in Addresses : uses[a] > 0} \cup
            {busy[t] : t \in {u \in Threads : pc[u] \notin {"idle", "copy location"}}}

\* Nobody is constructing h.
Settled(h) == \A t \in Threads : target[t] # h

Init ==
  /\ TracerInit
  /\ handle = [h \in Handles |-> NoState]
  /\ uses = [a \in Addresses |-> 0]
  /\ pc = [t \in Threads |-> "idle"]
  /\ busy = [t \in Threads |-> NoState]
  /\ target = [t \in Threads |-> NoHandle]
  /\ result = NoResult
  /\ born = [a \in Addresses |-> <<>>]

GoTo(t, l) == pc' = [pc EXCEPT ![t] = l]

-----------------------------------------------------------------------------
(* Construction: make_shared of the shared state.                          *)

Allocate(t, h, a, loc) ==
  /\ pc[t] = "idle" /\ Settled(h) /\ handle[h] = NoState
  /\ a \notin Occupied /\ Life(a) < MaxBorn
  /\ GoTo(t, "ctor count")
  /\ busy' = [busy EXCEPT ![t] = a]
  /\ target' = [target EXCEPT ![t] = h]
  /\ born' = [born EXCEPT ![a] = Append(@, loc)]
  /\ UNCHANGED <<tracerVars, handle, uses, result>>

Count(t) ==
  /\ pc[t] = "ctor count" /\ GoTo(t, "ctor register")
  /\ CtorCount
  /\ UNCHANGED <<handle, uses, busy, target, result, born>>

Register(t) ==
  /\ pc[t] = "ctor register" /\ GoTo(t, "idle")
  /\ CtorRegister(busy[t], Birthplace(busy[t]))
  /\ handle' = [handle EXCEPT ![target[t]] = busy[t]]
  /\ uses' = [uses EXCEPT ![busy[t]] = 1]
  /\ busy' = [busy EXCEPT ![t] = NoState]
  /\ target' = [target EXCEPT ![t] = NoHandle]
  /\ UNCHANGED <<result, born>>

-----------------------------------------------------------------------------
(* Copies, moves and the end of handles.                                   *)

\* A faulty release that does not count the last handle but one.
ReleaseEarly(t, a, u) ==
  /\ uses' = IF a = NoState THEN u ELSE [u EXCEPT ![a] = @ - 1]
  /\ IF a # NoState /\ uses'[a] <= 1
     THEN GoTo(t, "dtor count") /\ busy' = [busy EXCEPT ![t] = a]
     ELSE UNCHANGED <<pc, busy>>

\* A handle lets go of the state at a, where the use counts are u: the last
\* one destroys it.
Release(t, a, u) ==
  /\ uses' = IF a = NoState THEN u ELSE [u EXCEPT ![a] = @ - 1]
  /\ IF a # NoState /\ uses'[a] = 0
     THEN GoTo(t, "dtor count") /\ busy' = [busy EXCEPT ![t] = a]
     ELSE UNCHANGED <<pc, busy>>

\* Handle g can be converted to the type of h.
Convertible(g, h) == Flags[h] \subseteq Flags[g]

\* h = g, or a copy of g as h.
Copy(t, g, h) ==
  LET a == handle[g] IN
  /\ pc[t] = "idle" /\ Settled(g) /\ Settled(h) /\ Convertible(g, h)
  /\ handle' = [handle EXCEPT ![h] = a]
  /\ Release(t, handle[h], IF a = NoState THEN uses ELSE [uses EXCEPT ![a] = @ + 1])
  /\ UNCHANGED <<tracerVars, target, result, born>>

\* A faulty move that leaves the source as it was.
MoveKeepsSource(t, g, h) ==
  /\ pc[t] = "idle" /\ Settled(g) /\ Settled(h) /\ Convertible(g, h) /\ g # h
  /\ handle' = [handle EXCEPT ![h] = handle[g]]
  /\ Release(t, handle[h], uses)
  /\ UNCHANGED <<tracerVars, target, result, born>>

\* h = std::move(g), or h made of std::move(g).  (Nothing for h itself.)
Move(t, g, h) ==
  /\ pc[t] = "idle" /\ Settled(g) /\ Settled(h) /\ Convertible(g, h) /\ g # h
  /\ handle' = [handle EXCEPT ![h] = handle[g], ![g] = NoState]
  /\ Release(t, handle[h], uses)
  /\ UNCHANGED <<tracerVars, target, result, born>>

Destroy(t, h) ==
  /\ pc[t] = "idle" /\ Settled(h)
  /\ handle' = [handle EXCEPT ![h] = NoState]
  /\ Release(t, handle[h], uses)
  /\ UNCHANGED <<tracerVars, target, result, born>>

Uncount(t) ==
  /\ pc[t] = "dtor count" /\ GoTo(t, "dtor unregister")
  /\ DtorCount
  /\ UNCHANGED <<handle, uses, busy, target, result, born>>

Unregister(t) ==
  /\ pc[t] = "dtor unregister" /\ GoTo(t, "free")
  /\ DtorUnregister(busy[t])
  /\ UNCHANGED <<handle, uses, busy, target, result, born>>

Free(t) ==
  /\ pc[t] = "free" /\ GoTo(t, "idle")
  /\ busy' = [busy EXCEPT ![t] = NoState]
  /\ UNCHANGED <<tracerVars, handle, uses, target, result, born>>

-----------------------------------------------------------------------------
(* What is asked of states.                                                *)

\* An operation on a channel was served: its result remembers the address.
Serve(t, h) ==
  /\ pc[t] = "idle" /\ Settled(h) /\ handle[h] # NoState
  /\ result' = [state |-> handle[h], life |-> Life(handle[h])]
  /\ UNCHANGED <<tracerVars, handle, uses, pc, busy, target, born>>

\* result.matches(h)
Matches(h) == handle[h] = result.state

\* allocate_tracer::get_ctr_loc, for an address that may be anyone's.
Ask(t, a) ==
  /\ pc[t] = "idle" /\ GoTo(t, "copy location")
  /\ LookUp(t)
  /\ busy' = [busy EXCEPT ![t] = IF a \in DOMAIN entries THEN a ELSE NoState]
  /\ UNCHANGED <<handle, uses, target, result, born>>

Answer(t) ==
  /\ pc[t] = "copy location" /\ GoTo(t, "idle")
  /\ CopyLocation
  /\ busy' = [busy EXCEPT ![t] = NoState]
  /\ UNCHANGED <<handle, uses, target, result, born>>

-----------------------------------------------------------------------------
\* What a thread does without anybody asking for it.
Continue(t) ==
  \/ Count(t) \/ Register(t) \/ Uncount(t) \/ Unregister(t) \/ Free(t) \/ Answer(t)

Operate(t) ==
  \/ \E h \in Handles, a \in Addresses, loc \in Locations : Allocate(t, h, a, loc)
  \/ \E g, h \in Handles : Copy(t, g, h) \/ Move(t, g, h)
  \/ \E h \in Handles : Destroy(t, h) \/ Serve(t, h)
  \/ \E a \in Addresses : Ask(t, a)

Next == \E t \in Threads : Continue(t) \/ Operate(t)

Spec == Init /\ [][Next]_vars

-----------------------------------------------------------------------------
\* Every variable holds values of its type.  (channel.hpp, allocate_tracer.hpp)
TypeOK ==
  /\ TracerTypeOK(Threads)
  /\ handle \in [Handles -> Addresses \cup {NoState}]
  /\ uses \in [Addresses -> 0..Cardinality(Handles)]
  /\ pc \in [Threads -> PCs]
  /\ busy \in [Threads -> Addresses \cup {NoState}]
  /\ target \in [Threads -> Handles \cup {NoHandle}]
  /\ result \in [state : Addresses \cup {NoState}, life : 0..MaxBorn]
  /\ born \in [Addresses -> Seq(Locations)]

\* A channel lives exactly as long as a handle of it: copies, conversions and
\* moves through any sequence of handles neither leak the shared state nor
\* let it go too early.
UsesExact ==
  \A a \in Addresses : uses[a] = Cardinality({h \in Handles : handle[h] = a})

\* No handle refers to a state whose constructor is not done, or whose
\* destructor has begun.
HandlesAlive ==
  \A h \in Handles : handle[h] # NoState =>
    /\ handle[h] \in DOMAIN entries
    /\ \A t \in Threads : busy[t] = handle[h] => pc[t] \in {"idle", "copy location"}

\* The tables list the channels there are, with the place where each was
\* constructed, though addresses are used again: a constructor that
\* registers never meets the entry of the state that was there before.
TracerExact ==
  /\ DOMAIN entries =
       {a \in Addresses : uses[a] > 0} \cup
       {busy[t] : t \in {u \in Threads : pc[u] \in {"dtor count", "dtor unregister"}}}
  /\ \A a \in DOMAIN entries : pool[entries[a]] = Birthplace(a)

\* The count and the tables differ by the threads between the two only, and
\* every location is listed with the number of its states, never with none.
CountsAgree ==
  /\ refCount = Cardinality(DOMAIN entries)
                  + Cardinality({t \in Threads : pc[t] = "ctor register"})
                  - Cardinality({t \in Threads : pc[t] = "dtor unregister"})
  /\ DOMAIN locs = {entries[a] : a \in DOMAIN entries}
  /\ \A id \in DOMAIN locs :
       locs[id] = Cardinality({a \in DOMAIN entries : entries[a] = id})

\* What get_ctr_loc found stays true until it has been copied, whatever other
\* threads construct and destroy meanwhile.
AnswerTrue ==
  \A t \in Threads : pc[t] = "copy location" /\ busy[t] # NoState =>
    busy[t] \in DOMAIN entries /\ pool[entries[busy[t]]] = Birthplace(busy[t])

\* The pool, a vector, does not grow while a location is copied through a
\* reference into it: get_loc returns the reference and releases the mutex of
\* the pool, so only that of the tables keeps get_id away.
NoReallocation ==
  [][(\E t \in Threads : pc[t] = "copy location") => UNCHANGED pool]_vars

\* A result matches the handles of its own channel only.  "The `select_result`
\* type remembers the shared state of the channel for which an operation
\* succeeded.  This allows disambiguation between channels" (README.md)
MatchesOwnChannel ==
  \A h \in Handles : handle[h] # NoState /\ Matches(h) => Life(handle[h]) = result.life

\* What collect_ctr_src_locs_with_max_n_ref_count goes through are elements of
\* the table.  "Vector of iterators to the largest n elements"
\* (detail/allocate_tracer.hpp, max_n_elements)
CollectsElements ==
  \A n \in 1..Cardinality(Locations) : locs # <<>> =>
    \A r \in MaxNElements(n) : \A i \in 1..n : r[i] \in DOMAIN locs

=============================================================================
