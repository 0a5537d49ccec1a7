--------------------------- MODULE AllocateTracer ---------------------------
(***************************************************************************)
(* detail/allocate_tracer.hpp, as it is compiled with                      *)
(* ASIOCHAN_CH_ALLOCATE_TRACER_FULL: a count of the shared states there    *)
(* are, and tables of where in the program each of them was constructed.   *)
(*                                                                         *)
(* The count is an atomic and the tables are under one mutex, so           *)
(* registering and unregistering are two steps each.  The pool that        *)
(* numbers the source locations has a mutex of its own, which is only ever *)
(* taken under the other one.  The numbers start at 1 here.                *)
(***************************************************************************)
EXTENDS Integers, Sequences, FiniteSets

CONSTANTS
  Locations,   \* source locations that construct channels
  Addresses    \* where a shared state may be allocated

\* They are expressions in the program's text.
ASSUME LocationsAssumption == IsFiniteSet(Locations)

VARIABLES
  refCount,    \* ch_ref_count
  mux,         \* who holds the mutex of the tables, if that takes steps
  entries,     \* address of a shared state :> number of its location
  locs,        \* number of a location :> how many of its states there are
  pool         \* the locations, by number

tracerVars == <<refCount, mux, entries, locs, pool>>

TracerInit ==
  /\ refCount = 0 /\ mux = 0
  /\ entries = <<>> /\ locs = <<>> /\ pool = <<>>

TracerTypeOK(Threads) ==
  /\ refCount \in Nat
  /\ mux \in Threads \cup {0}
  /\ DOMAIN entries \subseteq Addresses
  /\ DOMAIN locs \subseteq 1..Cardinality(Locations)
  /\ pool \in Seq(Locations)

\* map[k] = v, and map.erase(k).
Assigned(f, k, v) == [i \in DOMAIN f \cup {k} |-> IF i = k THEN v ELSE f[i]]
Erased(f, k) == [i \in DOMAIN f \ {k} |-> f[i]]

\* The location has a number.
Known(loc) == \E i \in DOMAIN pool : pool[i] = loc

\* source_location_pool::get_id: the pool with loc, and the number of loc.
PoolWith(loc) == IF Known(loc) THEN pool ELSE Append(pool, loc)
IdOf(loc) == CHOOSE i \in DOMAIN PoolWith(loc) : PoolWith(loc)[i] = loc

-----------------------------------------------------------------------------
CtorCount == refCount' = refCount + 1 /\ UNCHANGED <<mux, entries, locs, pool>>

CtorRegister(key, loc) ==
  LET id == IdOf(loc) IN
  /\ mux = 0
  /\ pool' = PoolWith(loc)
  /\ entries' = Assigned(entries, key, id)
  /\ locs' = Assigned(locs, id, IF id \in DOMAIN locs THEN locs[id] + 1 ELSE 1)
  /\ UNCHANGED <<refCount, mux>>

DtorCount == refCount' = refCount - 1 /\ UNCHANGED <<mux, entries, locs, pool>>

\* A faulty dtor that leaves a location in the table with no state.
LocsWithoutKept(id) == [locs EXCEPT ![id] = @ - 1]

LocsWithout(id) ==
  IF locs[id] = 1 THEN Erased(locs, id) ELSE [locs EXCEPT ![id] = @ - 1]

DtorUnregister(key) ==
  /\ mux = 0
  /\ IF key \in DOMAIN entries
     THEN entries' = Erased(entries, key) /\ locs' = LocsWithout(entries[key])
     ELSE UNCHANGED <<entries, locs>>
  /\ UNCHANGED <<refCount, mux, pool>>

\* A faulty get_ctr_loc that lets the tables go before it has copied.
LookAndGo(t) == mux = 0 /\ UNCHANGED tracerVars

\* get_ctr_loc takes the mutex and looks the address up; the location is
\* copied through a reference into the pool before the mutex is released.
LookUp(t) == mux = 0 /\ mux' = t /\ UNCHANGED <<refCount, entries, locs, pool>>

CopyLocation == mux' = 0 /\ UNCHANGED <<refCount, entries, locs, pool>>

-----------------------------------------------------------------------------
\* max_n_elements: n iterators, of which partial_sort_copy fills as many as
\* the table has elements, the locations of most states first; the others
\* point nowhere.
MaxNElements(n) ==
  LET m == IF n < Cardinality(DOMAIN locs) THEN n ELSE Cardinality(DOMAIN locs) IN
  {r \in [1..n -> DOMAIN locs \cup {0}] :
     /\ \A i \in 1..n : r[i] = 0 <=> i > m
     /\ \A i, j \in 1..m : i < j => r[i] # r[j] /\ locs[r[i]] >= locs[r[j]]
     /\ \A id \in DOMAIN locs : m > 0 /\ (\A i \in 1..m : r[i] # id) => locs[r[m]] >= locs[id]}

=============================================================================
