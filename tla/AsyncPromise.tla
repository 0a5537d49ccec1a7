----------------------------- MODULE AsyncPromise -----------------------------
(***************************************************************************)
(* async_promise.hpp: the handler that resumes a suspended coroutine, and  *)
(* its way from promise to promise until it is posted to the executor.     *)
(*                                                                         *)
(* Promises live in the frames of the coroutines that wait (the local one  *)
(* of suspend_with_promise, the one of select's wait context), and go with *)
(* the frame when the coroutine is resumed; or they are slots of somebody  *)
(* else, for example of a timer.  Promises are not synchronised: clients   *)
(* let one thread at a time use a promise, and use a promise they have     *)
(* moved from for nothing but its destruction.                             *)
(*                                                                         *)
(* set_exception posts the handler and then writes to the promise, which   *)
(* may be gone by then.  Such a write is undefined: it may miss, or hit    *)
(* whatever promise is in the memory now.                                  *)
(***************************************************************************)
EXTENDS Naturals, FiniteSets

CONSTANTS
  Tasks,        \* the coroutines
  Slots,        \* promises that belong to no frame
  Erring,       \* the promises on which clients call set_exception or reset
  Null,         \* a promise without a handler
  Moved,        \* a promise with a handler that was moved from
  MaxSuspends   \* how often a coroutine suspends

Local(t) == <<t, "local">>
Ctx(t) == <<t, "ctx">>
Frame(t) == {Local(t), Ctx(t)}
Promises == Slots \cup {Local(t) : t \in Tasks} \cup {Ctx(t) : t \in Tasks}

ASSUME PromiseAssumption ==
  /\ Null \notin Tasks /\ Moved \notin Tasks /\ Null # Moved
  /\ MaxSuspends \in Nat
  /\ \A t \in Tasks : Frame(t) \cap Slots = {}
  /\ Erring \subseteq Promises

VARIABLES
  suspended,    \* suspended[t]: t waits, and its frame holds its promises
  suspends,     \* suspends[t]: how often t has suspended
  impl,         \* impl[o]: impl_, whose handler promise o has
  hand,         \* hand[o]: whose handler set_value has taken from o to post it
  call,         \* call[o]: the member function of o that somebody is in
  posted,       \* posted[t]: how many resumptions of t wait in the executor
  stray,        \* how many calls have yet to write to a promise that is gone
  lost          \* coroutines whose handler such a write has destroyed

vars == <<suspended, suspends, impl, hand, call, posted, stray, lost>>

Alive(o) == o \in Slots \/ \E t \in Tasks : suspended[t] /\ o \in Frame(t)
\* No other thread is in a member function of o.
Unused(o) == call[o] = "none"

Init ==
  /\ suspended = [t \in Tasks |-> FALSE]
  /\ suspends = [t \in Tasks |-> 0]
  /\ impl = [o \in Promises |-> Null]
  /\ hand = [o \in Promises |-> Null]
  /\ call = [o \in Promises |-> "none"]
  /\ posted = [t \in Tasks |-> 0]
  /\ stray = 0 /\ lost = {}

\* One more resumption of every coroutine in S is posted.
Post(S) == posted' = [t \in Tasks |-> IF t \in S THEN posted[t] + 1 ELSE posted[t]]

-----------------------------------------------------------------------------
\* suspend_with_promise, up to the call of the continuation.
Suspend(t) ==
  /\ ~suspended[t] /\ suspends[t] < MaxSuspends
  /\ suspended' = [suspended EXCEPT ![t] = TRUE]
  /\ suspends' = [suspends EXCEPT ![t] = @ + 1]
  /\ impl' = [impl EXCEPT ![Local(t)] = t]
  /\ UNCHANGED <<hand, call, posted, stray, lost>>

\* A faulty reset that forgets the coroutine that waits.
WokenByNone(n) == {}
\* reset: the coroutine that waits for promise n is woken with broken_promise.
WokenByReset(n) == {impl[n]} \cap Tasks

\* A faulty move that leaves the handler where it was.
MoveCopies(o, n) ==
  /\ Alive(o) /\ Unused(o) /\ impl[o] \in Tasks
  /\ Unused(n) /\ impl[n] # Moved
  /\ o # n
  /\ Post(WokenByReset(n))
  /\ impl' = [impl EXCEPT ![n] = impl[o]]
  /\ UNCHANGED <<suspended, suspends, hand, call, stray, lost>>

\* n = std::move(o), where o has a handler.  A promise constructed from o is
\* an n without one.  What is left in o is engaged, and moved from.  (If o is n
\* nothing happens.)
Move(o, n) ==
  /\ Alive(o) /\ Unused(o) /\ impl[o] \in Tasks
  /\ Unused(n) /\ impl[n] # Moved
  /\ o # n
  /\ Post(WokenByReset(n))
  /\ impl' = [impl EXCEPT ![n] = impl[o], ![o] = Moved]
  /\ UNCHANGED <<suspended, suspends, hand, call, stray, lost>>

\* A slot that was moved from is destroyed, and another one takes its place.
Renew(o) ==
  /\ o \in Slots /\ Unused(o) /\ impl[o] = Moved
  /\ impl' = [impl EXCEPT ![o] = Null]
  /\ UNCHANGED <<suspended, suspends, hand, call, posted, stray, lost>>

\* A faulty set_value that posts before it consumes.
PostBeforeConsume(o) ==
  /\ Alive(o) /\ Unused(o) /\ impl[o] \in Tasks
  /\ Post({impl[o]})
  /\ impl' = [impl EXCEPT ![o] = Moved]
  /\ call' = [call EXCEPT ![o] = "set_value"]
  /\ UNCHANGED <<suspended, suspends, hand, stray, lost>>

\* set_value: consume_impl takes the handler and empties the promise, ...
Consume(o) ==
  /\ Alive(o) /\ Unused(o) /\ impl[o] \in Tasks
  /\ hand' = [hand EXCEPT ![o] = impl[o]]
  /\ impl' = [impl EXCEPT ![o] = Null]
  /\ call' = [call EXCEPT ![o] = "set_value"]
  /\ UNCHANGED <<suspended, suspends, posted, stray, lost>>

\* ... and then the handler is posted.
PostConsumed(o) ==
  /\ hand[o] # Null
  /\ Post({hand[o]})
  /\ hand' = [hand EXCEPT ![o] = Null]
  /\ call' = [call EXCEPT ![o] = "none"]
  /\ UNCHANGED <<suspended, suspends, impl, stray, lost>>

\* set_exception, and reset of a promise that has a handler: the handler is
\* posted from where it is, ...
SetException(o) ==
  /\ Alive(o) /\ Unused(o) /\ impl[o] \in Tasks
  /\ Post({impl[o]})
  /\ impl' = [impl EXCEPT ![o] = Moved]
  /\ call' = [call EXCEPT ![o] = "set_exception"]
  /\ UNCHANGED <<suspended, suspends, hand, stray, lost>>

\* ... and the promise is emptied behind it, ...
ResetImpl(o) ==
  /\ call[o] = "set_exception"
  /\ impl' = [impl EXCEPT ![o] = Null]
  /\ call' = [call EXCEPT ![o] = "none"]
  /\ UNCHANGED <<suspended, suspends, hand, posted, stray, lost>>

\* ... or what is in its place when it is gone.  A handler that is hit is
\* destroyed, and with it the coroutine it should resume.
StrayWrite ==
  /\ stray > 0 /\ stray' = stray - 1
  /\ \/ UNCHANGED <<impl, lost>>
     \/ \E n \in Promises : /\ impl' = [impl EXCEPT ![n] = Null]
                            /\ lost' = lost \cup ({impl[n]} \cap Tasks)
  /\ UNCHANGED <<suspended, suspends, hand, call, posted>>

\* Calls of set_exception that are under way on promises in the frame of t.
Behind(t) == {o \in Frame(t) : call[o] = "set_exception"}

\* The executor resumes t: the promises in its frame come to their end.
Resume(t) ==
  /\ posted[t] > 0
  /\ posted' = [posted EXCEPT ![t] = @ - 1]
  /\ suspended' = [suspended EXCEPT ![t] = FALSE]
  /\ impl' = [impl EXCEPT ![Local(t)] = Null, ![Ctx(t)] = Null]
  /\ call' = [o \in Promises |-> IF o \in Behind(t) THEN "none" ELSE call[o]]
  /\ stray' = stray + Cardinality(Behind(t))
  /\ UNCHANGED <<suspends, hand, lost>>

\* Where the handler of o is moved: by clients to a promise of their own, by
\* select to the one in the wait context of the coroutine that waits.
Targets(o) == Slots \cup {Ctx(t) : t \in {impl[o]} \cap Tasks}

Next ==
  \/ \E t \in Tasks : Suspend(t) \/ Resume(t)
  \/ \E o \in Promises : Renew(o) \/ Consume(o) \/ PostConsumed(o) \/ ResetImpl(o)
  \/ \E o \in Promises : \E n \in Targets(o) : Move(o, n)
  \/ \E o \in Erring : SetException(o)
  \/ StrayWrite

Spec == Init /\ [][Next]_vars

-----------------------------------------------------------------------------
(* Properties.                                                             *)

TypeOK ==
  /\ suspended \in [Tasks -> BOOLEAN] /\ suspends \in [Tasks -> 0..MaxSuspends]
  /\ impl \in [Promises -> Tasks \cup {Null, Moved}]
  /\ hand \in [Promises -> Tasks \cup {Null}]
  /\ call \in [Promises -> {"none", "set_value", "set_exception"}]
  /\ posted \in [Tasks -> 0..1]
  /\ stray \in Nat /\ lost \subseteq Tasks

\* Where the handler of t is.
Places(t) ==
  {<<"impl", o>> : o \in {x \in Promises : impl[x] = t}}
    \cup {<<"hand", o>> : o \in {x \in Promises : hand[x] = t}}
    \cup ({"posted"} \X (1..posted[t]))

\* A coroutine that waits has one handler, in one place: whatever moves there
\* are and whoever resets or overwrites a promise, it is not forgotten and not
\* resumed twice, and a coroutine that runs is not resumed at all.  The only way
\* to lose a handler is a set_exception that writes behind its post.
OneHandler ==
  \A t \in Tasks : Cardinality(Places(t)) = IF suspended[t] /\ t \notin lost THEN 1 ELSE 0

\* What a call of o has still to do is done to a promise whose frame has not
\* ended, and cannot end before.
InTime(o) == Alive(o) /\ \A t \in Tasks : o \in Frame(t) => posted[t] = 0

\* Once the resumption of a coroutine is posted its frame may end at any time:
\* set_value consumes before it posts, so that nobody is inside a set_value of a
\* promise whose frame has ended or may end.
NoLateWrite == \A o \in Promises : call[o] = "set_value" => InTime(o)

\* The same of all calls, and nothing is destroyed by a write that comes late.
\* This holds only where set_exception and reset are called on slots.
NothingLate == lost = {} /\ stray = 0 /\ \A o \in Promises : call[o] # "none" => InTime(o)

=============================================================================
