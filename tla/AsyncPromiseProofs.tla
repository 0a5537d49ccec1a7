------------------------- MODULE AsyncPromiseProofs -------------------------
(***************************************************************************)
(* Theorems about AsyncPromise: the handler of a coroutine that waits is   *)
(* in one place, and nobody is in a set_value of a promise whose frame may *)
(* end; where set_exception is kept to slots, in no call at all.           *)
(***************************************************************************)
EXTENDS AsyncPromise, FiniteSetTheorems, TLAPS

\* The types, without a bound on what is posted.
Typed ==
  /\ suspended \in [Tasks -> BOOLEAN] /\ suspends \in [Tasks -> 0..MaxSuspends]
  /\ impl \in [Promises -> Tasks \cup {Null, Moved}]
  /\ hand \in [Promises -> Tasks \cup {Null}]
  /\ call \in [Promises -> {"none", "set_value", "set_exception"}]
  /\ posted \in [Tasks -> Nat]
  /\ stray \in Nat /\ lost \subseteq Tasks

\* OneHandler, without counting.
HandlerOf(t) ==
  IF suspended[t] /\ t \notin lost THEN \E x : Places(t) = {x} ELSE Places(t) = {}

\* The promises in the frame of t have no other coroutine's handler.
FrameOf(t) ==
  \A o \in {Local(t), Ctx(t)} : impl[o] \in {t, Null, Moved} /\ hand[o] \in {t, Null}

\* What a call has done so far: set_value has the handler in hand, set_exception
\* has posted it and is on a promise that is still there.
Calls ==
  \A o \in Promises :
    /\ call[o] = "set_value" <=> hand[o] # Null
    /\ call[o] = "set_exception" => impl[o] \notin Tasks /\ Alive(o)

\* Whose handler was destroyed is not resumed.
LostWait == \A t \in lost : suspended[t]

PInv == Typed /\ Calls /\ LostWait /\ \A t \in Tasks : HandlerOf(t) /\ FrameOf(t)

-----------------------------------------------------------------------------
(* Where the handler of one coroutine is.                                  *)

LEMMA InImpl ==
  ASSUME Typed, NEW t \in Tasks, HandlerOf(t), NEW o \in Promises, impl[o] = t
  PROVE  /\ suspended[t] /\ t \notin lost /\ posted[t] = 0
         /\ \A n \in Promises : hand[n] # t /\ (impl[n] = t => n = o)
<1>1. <<"impl", o>> \in Places(t)
  BY DEF Places
<1>2. suspended[t] /\ t \notin lost /\ \A x \in Places(t) : x = <<"impl", o>>
  BY <1>1 DEF HandlerOf
<1>3. \A n \in Promises : impl[n] = t => <<"impl", n>> \in Places(t)
  BY DEF Places
<1>4. \A n \in Promises : hand[n] = t => <<"hand", n>> \in Places(t)
  BY DEF Places
<1>5. posted[t] # 0 => <<"posted", 1>> \in Places(t)
  BY DEF Places, Typed
<1> QED
  BY <1>2, <1>3, <1>4, <1>5

LEMMA InHand ==
  ASSUME Typed, NEW t \in Tasks, HandlerOf(t), NEW o \in Promises, hand[o] = t
  PROVE  /\ suspended[t] /\ t \notin lost /\ posted[t] = 0
         /\ \A n \in Promises : impl[n] # t /\ (hand[n] = t => n = o)
<1>1. <<"hand", o>> \in Places(t)
  BY DEF Places
<1>2. suspended[t] /\ t \notin lost /\ \A x \in Places(t) : x = <<"hand", o>>
  BY <1>1 DEF HandlerOf
<1>3. \A n \in Promises : impl[n] = t => <<"impl", n>> \in Places(t)
  BY DEF Places
<1>4. \A n \in Promises : hand[n] = t => <<"hand", n>> \in Places(t)
  BY DEF Places
<1>5. posted[t] # 0 => <<"posted", 1>> \in Places(t)
  BY DEF Places, Typed
<1> QED
  BY <1>2, <1>3, <1>4, <1>5

LEMMA InQueue ==
  ASSUME Typed, NEW t \in Tasks, HandlerOf(t), posted[t] # 0
  PROVE  /\ suspended[t] /\ t \notin lost /\ posted[t] = 1
         /\ \A n \in Promises : impl[n] # t /\ hand[n] # t
<1>1. <<"posted", 1>> \in Places(t)
  BY DEF Places, Typed
<1>2. suspended[t] /\ t \notin lost /\ \A x \in Places(t) : x = <<"posted", 1>>
  BY <1>1 DEF HandlerOf
<1>3. \A n \in Promises : impl[n] = t => <<"impl", n>> \in Places(t)
  BY DEF Places
<1>4. \A n \in Promises : hand[n] = t => <<"hand", n>> \in Places(t)
  BY DEF Places
<1>5. posted[t] > 1 => <<"posted", 2>> \in Places(t)
  BY DEF Places, Typed
<1>6. posted[t] \in Nat /\ ~(posted[t] > 1)
  <2>1. <<"posted", 2>> # <<"posted", 1>>
    OBVIOUS
  <2> QED
    BY <1>2, <1>5, <2>1 DEF Typed
<1>7. posted[t] = 1
  BY <1>6
<1> QED
  BY <1>2, <1>3, <1>4, <1>7

LEMMA Nowhere ==
  ASSUME Typed, NEW t \in Tasks, HandlerOf(t), ~suspended[t]
  PROVE  posted[t] = 0 /\ \A n \in Promises : impl[n] # t /\ hand[n] # t
BY InImpl, InHand, InQueue

\* The same, where a step brings it.
LEMMA ToImpl ==
  ASSUME NEW t \in Tasks, NEW o \in Promises,
         suspended'[t], t \notin lost', posted'[t] = 0,
         \A n \in Promises : hand'[n] # t /\ (impl'[n] = t <=> n = o)
  PROVE  HandlerOf(t)'
<1>1. Places(t)' = {<<"impl", o>>}
  BY DEF Places
<1> QED
  BY <1>1 DEF HandlerOf

LEMMA ToHand ==
  ASSUME NEW t \in Tasks, NEW o \in Promises,
         suspended'[t], t \notin lost', posted'[t] = 0,
         \A n \in Promises : impl'[n] # t /\ (hand'[n] = t <=> n = o)
  PROVE  HandlerOf(t)'
<1>1. Places(t)' = {<<"hand", o>>}
  BY DEF Places
<1> QED
  BY <1>1 DEF HandlerOf

LEMMA ToQueue ==
  ASSUME NEW t \in Tasks, suspended'[t], t \notin lost', posted'[t] = 1,
         \A n \in Promises : impl'[n] # t /\ hand'[n] # t
  PROVE  HandlerOf(t)'
<1>1. Places(t)' = {<<"posted", 1>>}
  BY DEF Places
<1> QED
  BY <1>1 DEF HandlerOf

LEMMA ToNowhere ==
  ASSUME NEW t \in Tasks, ~suspended'[t] \/ t \in lost', posted'[t] = 0,
         \A n \in Promises : impl'[n] # t /\ hand'[n] # t
  PROVE  HandlerOf(t)'
<1>1. Places(t)' = {}
  BY DEF Places
<1> QED
  BY <1>1 DEF HandlerOf

LEMMA Stays ==
  ASSUME NEW t \in Tasks, HandlerOf(t),
         suspended'[t] = suspended[t], posted'[t] = posted[t], t \in lost' <=> t \in lost,
         \A n \in Promises : (impl'[n] = t <=> impl[n] = t) /\ (hand'[n] = t <=> hand[n] = t)
  PROVE  HandlerOf(t)'
<1>1. Places(t)' = Places(t)
  BY DEF Places
<1> QED
  BY <1>1 DEF HandlerOf

-----------------------------------------------------------------------------
(* PInv is inductive: one lemma per action.                                *)

LEMMA InitPInv ==
  ASSUME Init
  PROVE  PInv
<1> USE PromiseAssumption DEF PromiseAssumption
<1>1. Typed /\ Calls /\ LostWait
  BY DEF Init, Typed, Calls, LostWait
<1>2. ASSUME NEW t \in Tasks
      PROVE  HandlerOf(t) /\ FrameOf(t)
  <2>1. Places(t) = {}
    BY DEF Init, Places
  <2>2. {Local(t), Ctx(t)} \subseteq Promises
    BY DEF Promises
  <2> QED
    BY <2>1, <2>2 DEF Init, HandlerOf, FrameOf
<1> QED
  BY <1>1, <1>2 DEF PInv

\* Promises of frames are promises, and no two are the same.
LEMMA FrameFacts ==
  ASSUME NEW t \in Tasks, NEW u \in Tasks
  PROVE  /\ Local(t) \in Promises /\ Ctx(t) \in Promises /\ Local(t) # Ctx(u)
         /\ Local(t) = Local(u) => t = u
         /\ Ctx(t) = Ctx(u) => t = u
         /\ Local(t) \notin Slots /\ Ctx(t) \notin Slots
BY PromiseAssumption DEF PromiseAssumption, Promises, Local, Ctx, Frame

\* A promise that is there stays there while no coroutine is resumed.
LEMMA AliveStays ==
  ASSUME NEW o, Alive(o), \A t \in Tasks : suspended[t] => suspended'[t]
  PROVE  Alive(o)'
BY DEF Alive

LEMMA SuspendPInv ==
  ASSUME PInv, NEW t \in Tasks, Suspend(t)
  PROVE  PInv'
<1> USE PromiseAssumption DEF PromiseAssumption
<1>1. /\ ~suspended[t] /\ suspends[t] < MaxSuspends
      /\ suspended' = [suspended EXCEPT ![t] = TRUE]
      /\ suspends' = [suspends EXCEPT ![t] = suspends[t] + 1]
      /\ impl' = [impl EXCEPT ![Local(t)] = t]
      /\ hand' = hand /\ call' = call /\ posted' = posted /\ stray' = stray /\ lost' = lost
  BY DEF Suspend
<1>2. Typed /\ Calls /\ LostWait /\ \A u \in Tasks : HandlerOf(u) /\ FrameOf(u)
  BY DEF PInv
<1>3. Local(t) \in Promises
  BY FrameFacts
<1>4. Typed'
  BY <1>1, <1>2, <1>3 DEF Typed
<1>5. impl'[Local(t)] = t /\ \A o \in Promises : o # Local(t) => impl'[o] = impl[o]
  BY <1>1, <1>2, <1>3 DEF Typed
<1>6. suspended'[t] /\ \A u \in Tasks : u # t => suspended'[u] = suspended[u]
  BY <1>1, <1>2 DEF Typed
<1>7. impl[Local(t)] \in {t, Null, Moved}
  BY <1>2 DEF FrameOf
<1>8. HandlerOf(t)'
  <2>1. posted[t] = 0 /\ \A n \in Promises : impl[n] # t /\ hand[n] # t
    BY <1>1, <1>2, Nowhere
  <2>2. t \notin lost'
    BY <1>1, <1>2 DEF LostWait
  <2>3. posted'[t] = 0 /\ \A n \in Promises : hand'[n] # t /\ (impl'[n] = t <=> n = Local(t))
    BY <1>1, <1>5, <2>1
  <2> QED
    BY <1>3, <1>6, <2>2, <2>3, ToImpl
<1>9. ASSUME NEW u \in Tasks, u # t PROVE HandlerOf(u)'
  <2>1. \A n \in Promises : (impl'[n] = u <=> impl[n] = u) /\ (hand'[n] = u <=> hand[n] = u)
    BY <1>1, <1>5, <1>7, <1>9
  <2> QED
    BY <1>1, <1>2, <1>6, <1>9, <2>1, Stays
<1>10. ASSUME NEW u \in Tasks PROVE FrameOf(u)'
  BY <1>1, <1>2, <1>5, FrameFacts DEF FrameOf
<1>11. Calls'
  <2>1. \A u \in Tasks : suspended[u] => suspended'[u]
    BY <1>6
  <2>2. call[Local(t)] # "set_exception"
    <3>1. ~Alive(Local(t))
      BY <1>1, FrameFacts DEF Alive, Frame
    <3> QED
      BY <1>2, <1>3, <3>1 DEF Calls
  <2>3. ASSUME NEW o \in Promises, call[o] = "set_exception"
        PROVE  impl'[o] \notin Tasks /\ Alive(o)'
    BY <1>2, <1>5, <2>1, <2>2, <2>3, AliveStays DEF Calls
  <2>4. hand' = hand /\ call' = call
    BY <1>1
  <2> QED
    BY <1>2, <2>3, <2>4 DEF Calls
<1>12. LostWait'
  BY <1>1, <1>2, <1>6 DEF LostWait, Typed
<1> QED
  BY <1>4, <1>8, <1>9, <1>10, <1>11, <1>12 DEF PInv

LEMMA MovePInv ==
  ASSUME PInv, NEW o \in Promises, NEW n \in Targets(o), Move(o, n)
  PROVE  PInv'
<1> USE PromiseAssumption DEF PromiseAssumption
<1> PICK t : t = impl[o]
  OBVIOUS
<1>0. t \in Tasks
  BY DEF Move
<1>b. n \in Promises /\ (n \in Slots \/ n = Ctx(t))
  BY <1>0, FrameFacts DEF Targets, Promises
<1>1. /\ t \in Tasks /\ o # n
      /\ n \in Slots \/ n = Ctx(t)
      /\ impl[n] # Moved /\ call[n] = "none" /\ call[o] = "none"
      /\ posted' = [u \in Tasks |-> IF u \in {impl[n]} \cap Tasks THEN posted[u] + 1 ELSE posted[u]]
      /\ impl' = [impl EXCEPT ![n] = t, ![o] = Moved]
      /\ suspended' = suspended /\ suspends' = suspends /\ hand' = hand /\ call' = call
      /\ stray' = stray /\ lost' = lost
  BY <1>0, <1>b DEF Move, Post, WokenByReset, Unused
<1>2. Typed /\ Calls /\ LostWait /\ \A u \in Tasks : HandlerOf(u) /\ FrameOf(u)
  BY DEF PInv
<1>3. /\ impl'[n] = t /\ impl'[o] = Moved
      /\ \A x \in Promises : x \notin {n, o} => impl'[x] = impl[x]
  BY <1>b, <1>1, <1>2 DEF Typed
<1>4. \A u \in Tasks : posted'[u] = IF u = impl[n] THEN posted[u] + 1 ELSE posted[u]
  BY <1>1
<1>a. suspended' = suspended /\ hand' = hand /\ lost' = lost /\ o # n /\ t \in Tasks
  BY <1>1
<1>5. Typed'
  BY <1>1, <1>2, <1>4 DEF Typed
<1>6. /\ suspended[t] /\ t \notin lost /\ posted[t] = 0
      /\ \A x \in Promises : hand[x] # t /\ (impl[x] = t => x = o)
  BY <1>1, <1>2, InImpl
<1>7. HandlerOf(t)'
  <2>1. impl[n] # t
    BY <1>b, <1>1, <1>6
  <2>2. /\ suspended'[t] /\ t \notin lost' /\ posted'[t] = 0
        /\ \A x \in Promises : hand'[x] # t /\ (impl'[x] = t <=> x = n)
    BY <1>a, <1>3, <1>4, <1>6, <2>1
  <2> QED
    BY <1>b, <1>1, <2>2, ToImpl
<1>8. ASSUME NEW u \in Tasks, u = impl[n] PROVE HandlerOf(u)'
  <2>1. /\ suspended[u] /\ u \notin lost /\ posted[u] = 0
        /\ \A x \in Promises : hand[x] # u /\ (impl[x] = u => x = n)
    BY <1>b, <1>2, <1>8, InImpl
  <2>2. u # t
    BY <1>1, <2>1
  <2>3. /\ suspended'[u] /\ u \notin lost' /\ posted'[u] = 1
        /\ \A x \in Promises : impl'[x] # u /\ hand'[x] # u
    BY <1>a, <1>3, <1>4, <1>8, <2>1, <2>2
  <2> QED
    BY <2>3, ToQueue
<1>9. ASSUME NEW u \in Tasks, u \notin {t, impl[n]} PROVE HandlerOf(u)'
  <2>1. \A x \in Promises : (impl'[x] = u <=> impl[x] = u) /\ (hand'[x] = u <=> hand[x] = u)
    BY <1>1, <1>3, <1>9
  <2>2. posted'[u] = posted[u] /\ suspended'[u] = suspended[u]
    BY <1>1, <1>4, <1>9
  <2> QED
    BY <1>a, <1>2, <2>1, <2>2, Stays
<1>10. ASSUME NEW u \in Tasks PROVE FrameOf(u)'
  <2>1. FrameOf(u) /\ Local(u) \in Promises /\ Ctx(u) \in Promises
    BY <1>2, FrameFacts
  <2>2. n \in {Local(u), Ctx(u)} => t = u
    BY <1>1, FrameFacts
  <2> QED
    BY <1>1, <1>3, <2>1, <2>2 DEF FrameOf
<1>11. Calls' /\ LostWait'
  <2>1. ASSUME NEW x \in Promises, call[x] = "set_exception"
        PROVE  impl'[x] \notin Tasks /\ Alive(x)'
    BY <1>1, <1>2, <1>3, <2>1, AliveStays DEF Calls
  <2>2. hand' = hand /\ call' = call /\ suspended' = suspended /\ lost' = lost
    BY <1>1
  <2> QED
    BY <1>2, <2>1, <2>2 DEF Calls, LostWait
<1> QED
  BY <1>5, <1>7, <1>8, <1>9, <1>10, <1>11 DEF PInv

LEMMA ConsumePInv ==
  ASSUME PInv, NEW o \in Promises, Consume(o)
  PROVE  PInv'
<1> USE PromiseAssumption DEF PromiseAssumption
<1> PICK t : t = impl[o]
  OBVIOUS
<1>1. /\ t \in Tasks /\ call[o] = "none"
      /\ hand' = [hand EXCEPT ![o] = t] /\ impl' = [impl EXCEPT ![o] = Null]
      /\ call' = [call EXCEPT ![o] = "set_value"]
      /\ suspended' = suspended /\ suspends' = suspends /\ posted' = posted
      /\ stray' = stray /\ lost' = lost
  BY DEF Consume, Unused
<1>2. Typed /\ Calls /\ LostWait /\ \A u \in Tasks : HandlerOf(u) /\ FrameOf(u)
  BY DEF PInv
<1>3. /\ impl'[o] = Null /\ hand'[o] = t /\ call'[o] = "set_value"
      /\ \A x \in Promises :
           x # o => impl'[x] = impl[x] /\ hand'[x] = hand[x] /\ call'[x] = call[x]
  BY <1>1, <1>2 DEF Typed
<1>4. Typed'
  BY <1>1, <1>2 DEF Typed
<1>5. HandlerOf(t)'
  <2>1. /\ suspended[t] /\ t \notin lost /\ posted[t] = 0
        /\ \A x \in Promises : hand[x] # t /\ (impl[x] = t => x = o)
    BY <1>1, <1>2, InImpl
  <2>2. /\ suspended'[t] /\ t \notin lost' /\ posted'[t] = 0
        /\ \A x \in Promises : impl'[x] # t /\ (hand'[x] = t <=> x = o)
    BY <1>1, <1>3, <2>1
  <2> QED
    BY <1>1, <2>2, ToHand
<1>6. ASSUME NEW u \in Tasks, u # t PROVE HandlerOf(u)'
  <2>1. \A x \in Promises : (impl'[x] = u <=> impl[x] = u) /\ (hand'[x] = u <=> hand[x] = u)
    <3>1. hand[o] = Null
      BY <1>1, <1>2 DEF Calls, Typed
    <3> QED
      BY <1>1, <1>3, <1>6, <3>1
  <2>2. posted'[u] = posted[u] /\ suspended'[u] = suspended[u] /\ lost' = lost
    BY <1>1
  <2> QED
    BY <1>2, <2>1, <2>2, Stays
<1>7. ASSUME NEW u \in Tasks PROVE FrameOf(u)'
  <2>1. FrameOf(u) /\ Local(u) \in Promises /\ Ctx(u) \in Promises
    BY <1>2, FrameFacts
  <2> QED
    BY <1>1, <1>3, <2>1 DEF FrameOf
<1>8. Calls' /\ LostWait'
  <2>1. ASSUME NEW x \in Promises, call'[x] = "set_exception"
        PROVE  impl'[x] \notin Tasks /\ Alive(x)'
    <3>1. x # o /\ call[x] = "set_exception"
      BY <1>3, <2>1
    <3>2. suspended' = suspended
      BY <1>1
    <3> QED
      BY <1>2, <1>3, <3>1, <3>2, AliveStays DEF Calls
  <2>2. \A x \in Promises : call'[x] = "set_value" <=> hand'[x] # Null
    BY <1>1, <1>2, <1>3 DEF Calls
  <2>3. suspended' = suspended /\ lost' = lost
    BY <1>1
  <2> QED
    BY <1>2, <2>1, <2>2, <2>3 DEF Calls, LostWait
<1> QED
  BY <1>4, <1>5, <1>6, <1>7, <1>8 DEF PInv

LEMMA PostConsumedPInv ==
  ASSUME PInv, NEW o \in Promises, PostConsumed(o)
  PROVE  PInv'
<1> USE PromiseAssumption DEF PromiseAssumption
<1> PICK t : t = hand[o]
  OBVIOUS
<1>1. /\ t # Null
      /\ posted' = [u \in Tasks |-> IF u \in {t} THEN posted[u] + 1 ELSE posted[u]]
      /\ hand' = [hand EXCEPT ![o] = Null] /\ call' = [call EXCEPT ![o] = "none"]
      /\ suspended' = suspended /\ suspends' = suspends /\ impl' = impl
      /\ stray' = stray /\ lost' = lost
  BY DEF PostConsumed, Post
<1>2. Typed /\ Calls /\ LostWait /\ \A u \in Tasks : HandlerOf(u) /\ FrameOf(u)
  BY DEF PInv
<1>3. /\ hand'[o] = Null /\ call'[o] = "none"
      /\ \A x \in Promises : x # o => hand'[x] = hand[x] /\ call'[x] = call[x]
  BY <1>1, <1>2 DEF Typed
<1>4. t \in Tasks /\ \A u \in Tasks : posted'[u] = IF u = t THEN posted[u] + 1 ELSE posted[u]
  BY <1>1, <1>2 DEF Typed
<1>5. Typed'
  BY <1>1, <1>2, <1>4 DEF Typed
<1>6. HandlerOf(t)'
  <2>1. /\ suspended[t] /\ t \notin lost /\ posted[t] = 0
        /\ \A x \in Promises : impl[x] # t /\ (hand[x] = t => x = o)
    BY <1>2, <1>4, InHand
  <2>2. /\ suspended'[t] /\ t \notin lost' /\ posted'[t] = 1
        /\ \A x \in Promises : impl'[x] # t /\ hand'[x] # t
    BY <1>1, <1>3, <1>4, <2>1
  <2> QED
    BY <1>4, <2>2, ToQueue
<1>7. ASSUME NEW u \in Tasks, u # t PROVE HandlerOf(u)'
  <2>1. \A x \in Promises : (impl'[x] = u <=> impl[x] = u) /\ (hand'[x] = u <=> hand[x] = u)
    BY <1>1, <1>3, <1>7
  <2>2. posted'[u] = posted[u] /\ suspended'[u] = suspended[u] /\ lost' = lost
    BY <1>1, <1>4, <1>7
  <2> QED
    BY <1>2, <2>1, <2>2, Stays
<1>8. ASSUME NEW u \in Tasks PROVE FrameOf(u)'
  <2>1. FrameOf(u) /\ Local(u) \in Promises /\ Ctx(u) \in Promises
    BY <1>2, FrameFacts
  <2> QED
    BY <1>1, <1>3, <2>1 DEF FrameOf
<1>9. Calls' /\ LostWait'
  <2>1. ASSUME NEW x \in Promises, call'[x] = "set_exception"
        PROVE  impl'[x] \notin Tasks /\ Alive(x)'
    <3>1. x # o /\ call[x] = "set_exception"
      BY <1>3, <2>1
    <3>2. suspended' = suspended /\ impl' = impl
      BY <1>1
    <3> QED
      BY <1>2, <3>1, <3>2, AliveStays DEF Calls
  <2>2. \A x \in Promises : call'[x] = "set_value" <=> hand'[x] # Null
    BY <1>2, <1>3 DEF Calls
  <2>3. suspended' = suspended /\ lost' = lost
    BY <1>1
  <2> QED
    BY <1>2, <2>1, <2>2, <2>3 DEF Calls, LostWait
<1> QED
  BY <1>5, <1>6, <1>7, <1>8, <1>9 DEF PInv

LEMMA SetExceptionPInv ==
  ASSUME PInv, NEW o \in Promises, SetException(o)
  PROVE  PInv'
<1> USE PromiseAssumption DEF PromiseAssumption
<1> PICK t : t = impl[o]
  OBVIOUS
<1>1. /\ t \in Tasks /\ Alive(o) /\ call[o] = "none"
      /\ posted' = [u \in Tasks |-> IF u \in {t} THEN posted[u] + 1 ELSE posted[u]]
      /\ impl' = [impl EXCEPT ![o] = Moved] /\ call' = [call EXCEPT ![o] = "set_exception"]
      /\ suspended' = suspended /\ suspends' = suspends /\ hand' = hand
      /\ stray' = stray /\ lost' = lost
  BY DEF SetException, Post, Unused
<1>2. Typed /\ Calls /\ LostWait /\ \A u \in Tasks : HandlerOf(u) /\ FrameOf(u)
  BY DEF PInv
<1>3. /\ impl'[o] = Moved /\ call'[o] = "set_exception"
      /\ \A x \in Promises : x # o => impl'[x] = impl[x] /\ call'[x] = call[x]
  BY <1>1, <1>2 DEF Typed
<1>4. \A u \in Tasks : posted'[u] = IF u = t THEN posted[u] + 1 ELSE posted[u]
  BY <1>1
<1>5. Typed'
  BY <1>1, <1>2, <1>4 DEF Typed
<1>6. HandlerOf(t)'
  <2>1. /\ suspended[t] /\ t \notin lost /\ posted[t] = 0
        /\ \A x \in Promises : hand[x] # t /\ (impl[x] = t => x = o)
    BY <1>1, <1>2, InImpl
  <2>2. /\ suspended'[t] /\ t \notin lost' /\ posted'[t] = 1
        /\ \A x \in Promises : impl'[x] # t /\ hand'[x] # t
    BY <1>1, <1>3, <1>4, <2>1
  <2> QED
    BY <1>1, <2>2, ToQueue
<1>7. ASSUME NEW u \in Tasks, u # t PROVE HandlerOf(u)'
  <2>1. \A x \in Promises : (impl'[x] = u <=> impl[x] = u) /\ (hand'[x] = u <=> hand[x] = u)
    BY <1>1, <1>3, <1>7
  <2>2. posted'[u] = posted[u] /\ suspended'[u] = suspended[u] /\ lost' = lost
    BY <1>1, <1>4, <1>7
  <2> QED
    BY <1>2, <2>1, <2>2, Stays
<1>8. ASSUME NEW u \in Tasks PROVE FrameOf(u)'
  <2>1. FrameOf(u) /\ Local(u) \in Promises /\ Ctx(u) \in Promises
    BY <1>2, FrameFacts
  <2> QED
    BY <1>1, <1>3, <2>1 DEF FrameOf
<1>9. Calls' /\ LostWait'
  <2>0. suspended' = suspended /\ hand' = hand /\ lost' = lost
    BY <1>1
  <2>1. ASSUME NEW x \in Promises, call'[x] = "set_exception"
        PROVE  impl'[x] \notin Tasks /\ Alive(x)'
    <3>1. CASE x = o
      BY <1>1, <1>3, <2>0, <3>1, AliveStays
    <3>2. CASE x # o
      BY <1>2, <1>3, <2>0, <2>1, <3>2, AliveStays DEF Calls
    <3> QED
      BY <3>1, <3>2
  <2>2. \A x \in Promises : call'[x] = "set_value" <=> hand'[x] # Null
    BY <1>1, <1>2, <1>3, <2>0 DEF Calls
  <2> QED
    BY <1>2, <2>0, <2>1, <2>2 DEF Calls, LostWait
<1> QED
  BY <1>5, <1>6, <1>7, <1>8, <1>9 DEF PInv

\* A step that empties promises which have no handler.
LEMMA EmptiedPInv ==
  ASSUME PInv, NEW o \in Promises, Renew(o) \/ ResetImpl(o), impl[o] \notin Tasks
  PROVE  PInv'
<1> USE PromiseAssumption DEF PromiseAssumption
<1>1. /\ impl' = [impl EXCEPT ![o] = Null]
      /\ suspended' = suspended /\ suspends' = suspends /\ hand' = hand /\ posted' = posted
      /\ stray' = stray /\ lost' = lost
      /\ \/ call' = call
         \/ call[o] = "set_exception" /\ call' = [call EXCEPT ![o] = "none"]
  BY DEF Renew, ResetImpl
<1>2. Typed /\ Calls /\ LostWait /\ \A u \in Tasks : HandlerOf(u) /\ FrameOf(u)
  BY DEF PInv
<1>3. impl'[o] = Null /\ \A x \in Promises : x # o => impl'[x] = impl[x]
  BY <1>1, <1>2 DEF Typed
<1>4. Typed' /\ Calls' /\ LostWait'
  <2>1. Typed'
    BY <1>1, <1>2 DEF Typed
  <2>2. \A x \in Promises : /\ call'[x] = "set_exception" => call[x] = "set_exception"
                            /\ call'[x] = "set_value" <=> call[x] = "set_value"
    BY <1>1, <1>2 DEF Typed
  <2>3. suspended' = suspended /\ hand' = hand /\ lost' = lost
    BY <1>1
  <2>4. ASSUME NEW x \in Promises, call'[x] = "set_exception"
        PROVE  impl'[x] \notin Tasks /\ Alive(x)'
    BY <1>2, <1>3, <2>2, <2>3, <2>4, AliveStays DEF Calls
  <2> QED
    BY <1>2, <2>1, <2>2, <2>3, <2>4 DEF Calls, LostWait
<1>5. ASSUME NEW u \in Tasks PROVE HandlerOf(u)'
  <2>1. \A x \in Promises : (impl'[x] = u <=> impl[x] = u) /\ (hand'[x] = u <=> hand[x] = u)
    BY <1>1, <1>3
  <2>2. posted'[u] = posted[u] /\ suspended'[u] = suspended[u] /\ lost' = lost
    BY <1>1
  <2> QED
    BY <1>2, <2>1, <2>2, Stays
<1>6. ASSUME NEW u \in Tasks PROVE FrameOf(u)'
  <2>1. FrameOf(u) /\ Local(u) \in Promises /\ Ctx(u) \in Promises
    BY <1>2, FrameFacts
  <2> QED
    BY <1>1, <1>3, <2>1 DEF FrameOf
<1> QED
  BY <1>4, <1>5, <1>6 DEF PInv

\* There are two promises in a frame.
LEMMA BehindCounted ==
  ASSUME NEW t \in Tasks
  PROVE  Cardinality(Behind(t)) \in Nat
<1>1. IsFiniteSet(Frame(t))
  <2>1. IsFiniteSet({Local(t)}) /\ IsFiniteSet({Ctx(t)})
    BY FS_Singleton
  <2>2. Frame(t) = {Local(t)} \cup {Ctx(t)}
    BY DEF Frame
  <2> QED
    BY <2>1, <2>2, FS_Union
<1>2. Behind(t) \in SUBSET Frame(t)
  BY DEF Behind
<1> QED
  BY <1>1, <1>2, FS_Subset, FS_CardinalityType

LEMMA ResumePInv ==
  ASSUME PInv, NEW t \in Tasks, Resume(t)
  PROVE  PInv'
<1> USE PromiseAssumption DEF PromiseAssumption
<1>1. /\ posted[t] > 0
      /\ posted' = [posted EXCEPT ![t] = posted[t] - 1]
      /\ suspended' = [suspended EXCEPT ![t] = FALSE]
      /\ impl' = [impl EXCEPT ![Local(t)] = Null, ![Ctx(t)] = Null]
      /\ call' = [o \in Promises |-> IF o \in Behind(t) THEN "none" ELSE call[o]]
      /\ stray' = stray + Cardinality(Behind(t))
      /\ suspends' = suspends /\ hand' = hand /\ lost' = lost
  BY DEF Resume
<1>2. Typed /\ Calls /\ LostWait /\ \A u \in Tasks : HandlerOf(u) /\ FrameOf(u)
  BY DEF PInv
<1>3. Local(t) \in Promises /\ Ctx(t) \in Promises
  BY FrameFacts
<1>4. posted[t] = 1 /\ \A n \in Promises : impl[n] # t /\ hand[n] # t
  BY <1>1, <1>2, InQueue DEF Typed
<1>5. Typed'
  <2>1. stray' \in Nat
    BY <1>1, <1>2, BehindCounted DEF Typed
  <2> QED
    BY <1>1, <1>2, <1>3, <1>4, <2>1 DEF Typed
<1>6. /\ impl'[Local(t)] = Null /\ impl'[Ctx(t)] = Null
      /\ \A o \in Promises : o \notin {Local(t), Ctx(t)} => impl'[o] = impl[o]
  BY <1>1, <1>2, <1>3 DEF Typed
<1>7. /\ ~suspended'[t] /\ posted'[t] = 0
      /\ \A u \in Tasks : u # t => suspended'[u] = suspended[u] /\ posted'[u] = posted[u]
  BY <1>1, <1>2, <1>4 DEF Typed
<1>8. impl[Local(t)] \in {t, Null, Moved} /\ impl[Ctx(t)] \in {t, Null, Moved}
  BY <1>2 DEF FrameOf
<1>9. HandlerOf(t)'
  <2>1. \A n \in Promises : impl'[n] # t /\ hand'[n] # t
    BY <1>1, <1>4, <1>6
  <2> QED
    BY <1>7, <2>1, ToNowhere
<1>10. ASSUME NEW u \in Tasks, u # t PROVE HandlerOf(u)'
  <2>1. \A n \in Promises : (impl'[n] = u <=> impl[n] = u) /\ (hand'[n] = u <=> hand[n] = u)
    <3>1. hand' = hand
      BY <1>1
    <3> QED
      BY <1>6, <1>8, <1>10, <3>1
  <2> QED
    BY <1>1, <1>2, <1>7, <1>10, <2>1, Stays
<1>11. ASSUME NEW u \in Tasks PROVE FrameOf(u)'
  <2>1. FrameOf(u) /\ Local(u) \in Promises /\ Ctx(u) \in Promises
    BY <1>2, FrameFacts
  <2> QED
    BY <1>1, <1>6, <2>1 DEF FrameOf
<1>12. Calls'
  <2>1. ASSUME NEW x \in Promises, call'[x] = "set_exception"
        PROVE  impl'[x] \notin Tasks /\ Alive(x)'
    <3>1. x \notin Frame(t) /\ call[x] = "set_exception"
      BY <1>1, <2>1 DEF Behind
    <3>2. impl[x] \notin Tasks /\ Alive(x)
      BY <1>2, <3>1 DEF Calls
    <3>3. impl'[x] \notin Tasks
      BY <1>6, <3>1, <3>2 DEF Frame
    <3>4. Alive(x)'
      BY <1>7, <3>1, <3>2 DEF Alive
    <3> QED
      BY <3>3, <3>4
  <2>2. \A x \in Promises : call'[x] = "set_value" <=> call[x] = "set_value"
    BY <1>1 DEF Behind
  <2>3. hand' = hand
    BY <1>1
  <2> QED
    BY <1>2, <2>1, <2>2, <2>3 DEF Calls
<1>13. LostWait'
  <2>1. lost' = lost
    BY <1>1
  <2>2. t \notin lost
    BY <1>1, <1>2, InQueue DEF Typed
  <2> QED
    BY <1>2, <1>7, <2>1, <2>2 DEF LostWait, Typed
<1> QED
  BY <1>13, <1>5, <1>9, <1>10, <1>11, <1>12 DEF PInv

\* A write to memory that was a promise.
LEMMA StrayWritePInv ==
  ASSUME PInv, StrayWrite
  PROVE  PInv'
<1> USE PromiseAssumption DEF PromiseAssumption
<1>1. Typed /\ Calls /\ LostWait /\ \A u \in Tasks : HandlerOf(u) /\ FrameOf(u)
  BY DEF PInv
<1>2. /\ stray' = stray - 1 /\ stray > 0
      /\ suspended' = suspended /\ suspends' = suspends /\ hand' = hand /\ call' = call
      /\ posted' = posted
  BY DEF StrayWrite
<1>3. stray' \in Nat
  BY <1>1, <1>2 DEF Typed
<1>4. CASE impl' = impl /\ lost' = lost
  <2>1. Typed' /\ Calls' /\ LostWait' /\ \A u \in Tasks : FrameOf(u)'
    BY <1>1, <1>2, <1>3, <1>4 DEF Typed, Calls, LostWait, FrameOf, Alive
  <2>2. \A u \in Tasks : HandlerOf(u)'
    BY <1>1, <1>2, <1>4, Stays
  <2> QED
    BY <2>1, <2>2 DEF PInv
<1>5. ASSUME NEW n \in Promises, impl' = [impl EXCEPT ![n] = Null],
             lost' = lost \cup ({impl[n]} \cap Tasks)
      PROVE  PInv'
  <2>1. impl'[n] = Null /\ \A x \in Promises : x # n => impl'[x] = impl[x]
    BY <1>1, <1>5 DEF Typed
  <2>2. Typed'
    BY <1>1, <1>2, <1>3, <1>5 DEF Typed
  <2>3. Calls'
    <3>1. ASSUME NEW x \in Promises, call[x] = "set_exception"
          PROVE  impl'[x] \notin Tasks /\ Alive(x)'
      BY <1>1, <1>2, <2>1, <3>1, AliveStays DEF Calls
    <3> QED
      BY <1>1, <1>2, <3>1 DEF Calls
  <2>4. LostWait'
    <3>1. impl[n] \in Tasks => suspended[impl[n]]
      BY <1>1, InImpl
    <3> QED
      BY <1>1, <1>2, <1>5, <3>1 DEF LostWait
  <2>5. ASSUME NEW u \in Tasks, u = impl[n] PROVE HandlerOf(u)'
    <3>1. posted[u] = 0 /\ \A x \in Promises : hand[x] # u /\ (impl[x] = u => x = n)
      BY <1>1, <2>5, InImpl
    <3>2. u \in lost' /\ posted'[u] = 0 /\ hand' = hand
      BY <1>2, <1>5, <2>5, <3>1
    <3>3. \A x \in Promises : impl'[x] # u /\ hand'[x] # u
      BY <2>1, <3>1, <3>2
    <3> QED
      BY <3>2, <3>3, ToNowhere
  <2>6. ASSUME NEW u \in Tasks, u # impl[n] PROVE HandlerOf(u)'
    <3>1. \A x \in Promises : (impl'[x] = u <=> impl[x] = u) /\ (hand'[x] = u <=> hand[x] = u)
      BY <1>2, <2>1, <2>6
    <3>2. suspended'[u] = suspended[u] /\ posted'[u] = posted[u]
      BY <1>2
    <3>3. u \in lost' <=> u \in lost
      BY <1>5, <2>6
    <3> QED
      BY <1>1, <3>1, <3>2, <3>3, Stays
  <2>7. ASSUME NEW u \in Tasks PROVE FrameOf(u)'
    <3>1. FrameOf(u) /\ Local(u) \in Promises /\ Ctx(u) \in Promises
      BY <1>1, FrameFacts
    <3> QED
      BY <1>2, <2>1, <3>1 DEF FrameOf
  <2> QED
    BY <2>2, <2>3, <2>4, <2>5, <2>6, <2>7 DEF PInv
<1> QED
  BY <1>4, <1>5 DEF StrayWrite

LEMMA NextPInv ==
  ASSUME PInv, [Next]_vars
  PROVE  PInv'
<1>1. CASE UNCHANGED vars
  <2>1. Typed' /\ Calls' /\ LostWait' /\ \A u \in Tasks : FrameOf(u)'
    BY <1>1 DEF PInv, vars, Typed, Calls, LostWait, FrameOf, Alive
  <2>2. \A u \in Tasks : HandlerOf(u)'
    BY <1>1, Stays DEF PInv, vars
  <2> QED
    BY <2>1, <2>2 DEF PInv
<1>2. ASSUME NEW o \in Promises, Renew(o) \/ ResetImpl(o)
      PROVE  PInv'
  <2>1. impl[o] \notin Tasks
    BY <1>2, PromiseAssumption DEF PromiseAssumption, Renew, ResetImpl, PInv, Calls
  <2> QED
    BY <1>2, <2>1, EmptiedPInv
<1> QED
  BY <1>1, <1>2, SuspendPInv, ResumePInv, ConsumePInv, PostConsumedPInv, SetExceptionPInv,
     MovePInv, StrayWritePInv, PromiseAssumption DEF Next, PromiseAssumption

\* The invariant of the promises, for any number of coroutines and slots.
LEMMA PInvHolds == Spec => []PInv
<1>1. Init => PInv
  BY InitPInv
<1>2. PInv /\ [Next]_vars => PInv'
  BY NextPInv
<1> QED
  BY <1>1, <1>2, PTL DEF Spec

-----------------------------------------------------------------------------
(* What follows from it.                                                   *)

\* Types, and no second resumption of a coroutine beside one that is posted.
THEOREM PromiseTypeCorrect == Spec => []TypeOK
<1>1. ASSUME PInv
      PROVE  TypeOK
  <2>1. Typed /\ \A t \in Tasks : HandlerOf(t)
    BY <1>1 DEF PInv
  <2>2. \A t \in Tasks : posted[t] \in 0..1
    BY <2>1, InQueue DEF Typed
  <2>3. posted \in [Tasks -> 0..1]
    BY <2>1, <2>2 DEF Typed
  <2> QED
    BY <2>1, <2>3 DEF Typed, TypeOK
<1> QED
  BY <1>1, PInvHolds, PTL

\* A suspended coroutine is resumed by one handler, however the handler goes
\* from promise to promise: it is neither forgotten nor resumed twice, and one
\* that is not suspended is not resumed.
THEOREM HandlerKept == Spec => []OneHandler
<1>1. ASSUME PInv
      PROVE  OneHandler
  <2> SUFFICES ASSUME NEW t \in Tasks
               PROVE  Cardinality(Places(t)) = IF suspended[t] /\ t \notin lost THEN 1 ELSE 0
    BY DEF OneHandler
  <2>1. HandlerOf(t)
    BY <1>1 DEF PInv
  <2>2. CASE suspended[t] /\ t \notin lost
    <3> PICK x : Places(t) = {x}
      BY <2>1, <2>2 DEF HandlerOf
    <3> QED
      BY <2>2, FS_Singleton
  <2>3. CASE ~(suspended[t] /\ t \notin lost)
    BY <2>1, <2>3, FS_EmptySet DEF HandlerOf
  <2> QED
    BY <2>2, <2>3
<1> QED
  BY <1>1, PInvHolds, PTL

\* What set_value has still to do is done in time: a promise with a handler in
\* hand is in a frame that has not ended, or in none.
LEMMA HandInTime ==
  ASSUME PInv, NEW o \in Promises, hand[o] # Null
  PROVE  InTime(o)
<1>1. CASE o \in Slots
  BY <1>1, FrameFacts DEF InTime, Alive, Frame
<1>2. CASE o \notin Slots
  <2>1. PICK u \in Tasks : o \in {Local(u), Ctx(u)}
    BY <1>2 DEF Promises
  <2>2. hand[o] = u /\ HandlerOf(u) /\ Typed
    BY <2>1 DEF PInv, FrameOf
  <2>3. suspended[u] /\ posted[u] = 0
    BY <2>2, InHand
  <2>4. \A t \in Tasks : o \in Frame(t) => t = u
    BY <2>1, FrameFacts DEF Frame
  <2> QED
    BY <2>1, <2>3, <2>4 DEF InTime, Alive, Frame
<1> QED
  BY <1>1, <1>2

\* No thread is in a set_value of a promise when the frame that holds it has
\* ended or may end at any time, whoever calls set_exception, and on what.
THEOREM NoWriteBehind == Spec => []NoLateWrite
<1>1. ASSUME PInv
      PROVE  NoLateWrite
  BY <1>1, HandInTime DEF NoLateWrite, PInv, Calls
<1> QED
  BY <1>1, PInvHolds, PTL

\* set_exception is called on slots, and nothing was written too late.
SlotsInv ==
  PInv /\ lost = {} /\ stray = 0 /\ \A o \in Promises : call[o] = "set_exception" => o \in Slots

\* Where set_exception and reset are called only on promises that are not in the
\* frame of the coroutine they resume, no call at all is under way on a promise
\* whose frame may end, and no handler is destroyed.
THEOREM SlotsAreSafe ==
  ASSUME Erring \subseteq Slots
  PROVE  Spec => []NothingLate
<1>1. Init => SlotsInv
  BY InitPInv DEF Init, SlotsInv
<1>2. SlotsInv /\ [Next]_vars => SlotsInv'
  <2> SUFFICES ASSUME SlotsInv, [Next]_vars PROVE SlotsInv'
    OBVIOUS
  <2>1. PInv' /\ lost = {} /\ stray = 0
    BY NextPInv DEF SlotsInv
  <2>2. \A t \in Tasks : Behind(t) = {}
    BY FrameFacts DEF SlotsInv, Behind, Frame
  <2>3. ~StrayWrite
    BY <2>1 DEF StrayWrite
  <2>4. lost' = {} /\ stray' = 0
    <3>1. ASSUME NEW t \in Tasks, Resume(t)
          PROVE  lost' = {} /\ stray' = 0
      <4>1. Cardinality(Behind(t)) = 0
        BY <2>2, FS_EmptySet
      <4> QED
        BY <2>1, <3>1, <4>1 DEF Resume
    <3>2. ~(\E t \in Tasks : Resume(t)) => UNCHANGED <<lost, stray>>
      BY <2>3 DEF Next, vars, Suspend, Renew, Consume, PostConsumed, ResetImpl, Move, SetException
    <3> QED
      BY <2>1, <3>1, <3>2
  <2>5. \A o \in Promises : call'[o] = "set_exception" => call[o] = "set_exception" \/ o \in Slots
    <3> USE DEF SlotsInv, PInv, Typed
    <3>1. ASSUME NEW t \in Tasks, Suspend(t) \/ Resume(t)
          PROVE  \A o \in Promises : call'[o] = "set_exception" => call[o] = "set_exception"
      BY <3>1 DEF Suspend, Resume
    <3>2. ASSUME NEW o \in Promises, Renew(o) \/ Consume(o) \/ PostConsumed(o) \/ ResetImpl(o)
          PROVE  \A x \in Promises : call'[x] = "set_exception" => call[x] = "set_exception"
      BY <3>2 DEF Renew, Consume, PostConsumed, ResetImpl
    <3>3. ASSUME NEW o \in Promises, NEW n \in Targets(o), Move(o, n)
          PROVE  call' = call
      BY <3>3 DEF Move
    <3>4. ASSUME NEW o \in Erring, SetException(o)
          PROVE  \A x \in Promises :
                   call'[x] = "set_exception" => call[x] = "set_exception" \/ x \in Slots
      BY <3>4 DEF SetException
    <3>5. CASE UNCHANGED vars
      BY <3>5 DEF vars
    <3> QED
      BY <2>3, <3>1, <3>2, <3>3, <3>4, <3>5 DEF Next
  <2> QED
    BY <2>1, <2>4, <2>5 DEF SlotsInv
<1>3. SlotsInv => NothingLate
  <2> SUFFICES ASSUME SlotsInv, NEW o \in Promises, call[o] # "none" PROVE InTime(o)
    BY DEF SlotsInv, NothingLate
  <2>1. CASE call[o] = "set_value"
    BY <2>1, HandInTime DEF SlotsInv, PInv, Calls
  <2>2. CASE call[o] = "set_exception"
    BY <2>2, FrameFacts DEF SlotsInv, InTime, Alive, Frame
  <2> QED
    BY <2>1, <2>2 DEF SlotsInv, PInv, Typed
<1> QED
  BY <1>1, <1>2, <1>3, PTL DEF Spec

=============================================================================
