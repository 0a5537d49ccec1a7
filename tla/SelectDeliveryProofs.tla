----------------------- MODULE SelectDeliveryProofs -------------------------
(***************************************************************************)
(* Theorems about Select for orderly scripts, on top of its inductive      *)
(* invariant: no match is missed, who waits is found by walking the lists, *)
(* no value is lost or duplicated, and values are read in the order in     *)
(* which they were written.                                                *)
(***************************************************************************)
EXTENDS SelectProofs

WInv == IInv /\ Met

-----------------------------------------------------------------------------
(* Who waits, before and after a step.                                     *)

\* Coroutine r has no more nodes than before, and no one can claim it that
\* could not before.
Withdraws(r) ==
  /\ queued'[r] \subseteq queued[r]
  /\ queued'[r] # {} => sel'[r] = sel[r] /\ (avail'[r] => avail[r])

LEMMA WaitingShrinks ==
  ASSUME \A r \in Procs : Withdraws(r), NEW k, NEW c
  PROVE  Waiting(k, c)' \subseteq Waiting(k, c)
<1> SUFFICES ASSUME NEW n \in Waiting(k, c)'
             PROVE  n \in Waiting(k, c)
  OBVIOUS
<1>1. /\ n \in Nodes /\ n[2] \in queued'[n[1]] /\ avail'[n[1]]
      /\ AltOf(n)'.kind = k /\ AltOf(n)'.chan = c
  BY DEF Waiting
<1>2. n[1] \in Procs
  BY <1>1 DEF Nodes
<1>3. Withdraws(n[1])
  BY <1>2
<1>4. n[2] \in queued[n[1]] /\ sel'[n[1]] = sel[n[1]] /\ avail[n[1]]
  BY <1>1, <1>3 DEF Withdraws
<1>5. AltOf(n)' = AltOf(n)
  BY <1>4 DEF AltOf
<1> QED
  BY <1>1, <1>4, <1>5 DEF Waiting

\* Every step but a Park only takes waiters away.
LEMMA OthersWithdraw ==
  ASSUME IInv, NEW p \in Procs,
         \/ Begin(p) \/ Lock(p) \/ TakeBuffered(p) \/ Refill(p) \/ RefillNone(p)
         \/ DropClaimed(p) \/ MeetPeer(p) \/ Store(p) \/ LoseClaim(p)
         \/ PassOver(p) \/ TakeNothing(p) \/ EndSubmit(p) \/ Complete(p)
  PROVE  \A r \in Procs : Withdraws(r)
<1> USE DEF Withdraws
<1>1. ControlTypeOK
  BY IInvFacts
<1>2. CASE Begin(p)
  <2> PICK s : sel' = [sel EXCEPT ![p] = s] /\ avail' = [avail EXCEPT ![p] = s.wait]
    BY <1>2 DEF Begin
  <2>1. queued' = queued /\ pc[p] = "idle"
    BY <1>2 DEF Begin
  <2>2. queued[p] = {}
    BY <2>1, IInvFacts DEF ControlOf
  <2>3. \A r \in Procs : r # p => sel'[r] = sel[r] /\ avail'[r] = avail[r]
    BY <1>1 DEF ControlTypeOK
  <2> QED
    BY <2>1, <2>2, <2>3
<1>3. CASE Lock(p) \/ RefillNone(p) \/ DropClaimed(p) \/ LoseClaim(p) \/ PassOver(p)
             \/ TakeNothing(p) \/ EndSubmit(p) \/ Resume(p)
  <2>1. UNCHANGED <<queued, sel, avail>>
    BY <1>3 DEF Lock, RefillNone, DropClaimed, LoseClaim, PassOver, TakeNothing, EndSubmit,
                Resume, procVars
  <2> QED
    BY <2>1
<1>4. CASE TakeBuffered(p) \/ Store(p)
  <2>1. avail' = [avail EXCEPT ![p] = FALSE] /\ UNCHANGED <<queued, sel>>
    BY <1>4 DEF TakeBuffered, Store
  <2> QED
    BY <1>1, <2>1 DEF ControlTypeOK
<1>5. CASE Refill(p)
  <2> PICK q : avail' = [avail EXCEPT ![q] = FALSE]
    BY <1>5 DEF Refill
  <2>1. UNCHANGED <<queued, sel>>
    BY <1>5 DEF Refill
  <2> QED
    BY <1>1, <2>1 DEF ControlTypeOK
<1>6. CASE MeetPeer(p)
  <2> PICK q : avail' = [avail EXCEPT ![p] = FALSE, ![q] = FALSE]
    BY <1>6 DEF MeetPeer, BothClaimed
  <2>1. UNCHANGED <<queued, sel>>
    BY <1>6 DEF MeetPeer
  <2> QED
    BY <1>1, <2>1 DEF ControlTypeOK
<1>7. CASE ClearWait(p)
  <2> PICK i : queued' = [queued EXCEPT ![p] = @ \ {i}]
    BY <1>7 DEF ClearWait
  <2>1. UNCHANGED <<sel, avail>>
    BY <1>7 DEF ClearWait
  <2> QED
    BY <1>1, <2>1 DEF ControlTypeOK
<1>8. CASE Return(p)
  <2>1. /\ sel' = [sel EXCEPT ![p] = NoSelection] /\ avail' = [avail EXCEPT ![p] = FALSE]
        /\ queued' = [queued EXCEPT ![p] = {}]
    BY <1>8 DEF Return
  <2>2. queued'[p] = {} /\ \A r \in Procs : r # p => sel'[r] = sel[r] /\ avail'[r] = avail[r]
    BY <1>1, <2>1 DEF ControlTypeOK
  <2>3. \A r \in Procs : queued'[r] \subseteq queued[r]
    BY <1>1, <2>1 DEF ControlTypeOK
  <2> QED
    BY <2>2, <2>3
<1> QED
  BY <1>2, <1>3, <1>4, <1>5, <1>6, <1>7, <1>8 DEF Complete

\* Park adds its own node, if its coroutine can still be claimed.
LEMMA ParkAdds ==
  ASSUME IInv, NEW p \in Procs, Park(p), NEW k, NEW c, NEW n \in Waiting(k, c)'
  PROVE  n \in Waiting(k, c) \/ (avail[p] /\ k = Alt(p).kind /\ c = Chan(p))
<1>1. /\ n \in Nodes /\ n[2] \in queued'[n[1]] /\ avail'[n[1]]
      /\ AltOf(n)'.kind = k /\ AltOf(n)'.chan = c
  BY DEF Waiting
<1>2. /\ queued' = [queued EXCEPT ![p] = @ \cup {at[p]}] /\ sel' = sel /\ avail' = avail
  BY DEF Park
<1>3. n[1] \in Procs /\ ControlTypeOK
  BY <1>1, IInvFacts DEF Nodes
<1>4. AltOf(n)' = AltOf(n)
  BY <1>2 DEF AltOf
<1>5. n[2] \in queued[n[1]] \/ (n[1] = p /\ n[2] = at[p])
  BY <1>1, <1>2, <1>3 DEF ControlTypeOK
<1>6. CASE n[2] \in queued[n[1]]
  BY <1>1, <1>2, <1>4, <1>6 DEF Waiting
<1>7. CASE n[1] = p /\ n[2] = at[p]
  BY <1>1, <1>2, <1>4, <1>7 DEF AltOf, Alt, Chan
<1> QED
  BY <1>5, <1>6, <1>7

\* Whoever waits at an end of a channel is in its list there.
LEMMA NoneFirst ==
  ASSUME IInv, NEW c \in Channels, NEW k \in {"read", "write"},
         first[<<IF k = "read" THEN "reader" ELSE "writer", c>>] = Null
  PROVE  Waiting(k, c) = {}
<1> SUFFICES ASSUME NEW n \in Waiting(k, c) PROVE FALSE
  OBVIOUS
<1> PICK l : l = <<IF k = "read" THEN "reader" ELSE "writer", c>>
  OBVIOUS
<1> PICK q \in [Lists -> Seq(Nodes)] : Chains(Lists, Nodes, q) /\ Placed(q)
  BY DEF IInv, Queues
<1>1. n \in Live /\ avail[n[1]] /\ AltOf(n).kind = k /\ AltOf(n).chan = c
  BY DEF Waiting, Live
<1>2. ListOf(AltOf(n)) = l /\ l \in Lists /\ first[l] = Null
  BY <1>1 DEF ListOf, ReaderList, WriterList, Lists
<1>3. Within(n, q[l])
  BY <1>1, <1>2 DEF Placed
<1>4. PICK i \in 1..Len(q[l]) : q[l][i] = n
  BY <1>3 DEF Within
<1>5. q[l] \in Seq(Nodes) /\ q[l] # <<>> /\ 1 \in 1..Len(q[l])
  BY <1>2, <1>4
<1>6. first[l] = q[l][1] /\ q[l][1] \in Nodes
  BY <1>2, <1>5 DEF Chains, Spells
<1> QED
  BY <1>2, <1>6, NullNoNode

PeerKind(p) == IF Alt(p).kind = "read" THEN "write" ELSE "read"

\* A submission that can still be claimed and finds no peer has none.
LEMMA NoPeerNone ==
  ASSUME IInv, NEW p \in Procs, NoPeer(p), CallerAvailable(p)
  PROVE  Waiting(PeerKind(p), Chan(p)) = {}
<1>1. pc[p] = "scan" /\ First(p) = Null
  BY DEF NoPeer, CallerAvailable
<1>2. Chan(p) \in Channels /\ Alt(p).kind \in {"read", "write"}
  BY <1>1, IInvFacts, CriticalFacts DEF Critical
<1>3. PeerList(Alt(p)) = <<IF PeerKind(p) = "read" THEN "reader" ELSE "writer", Chan(p)>>
  BY <1>2 DEF PeerList, ReaderList, WriterList, PeerKind, Chan
<1> QED
  BY <1>1, <1>2, <1>3, NoneFirst DEF First, PeerKind

-----------------------------------------------------------------------------
(* Who is about to refill, before and after a step.                        *)

\* The submission of r stays where it is.
Still(r) == pc'[r] = pc[r] /\ sel'[r] = sel[r] /\ at'[r] = at[r]

LEMMA OthersStill ==
  ASSUME IInv, NEW p \in Procs, Begin(p) \/ Submit(p) \/ Complete(p),
         NEW r \in Procs, r # p
  PROVE  Still(r)
<1>1. ControlTypeOK
  BY IInvFacts
<1>2. pc' = pc \/ \E x : pc' = [pc EXCEPT ![p] = x]
  BY DEF Begin, Submit, Complete, Lock, TakeBuffered, Refill, RefillNone, DropClaimed,
         MeetPeer, Store, LoseClaim, Park, PassOver, TakeNothing, EndSubmit, Resume,
         ClearWait, Return, Finish, SkipOperation, SubmitNext, procVars
<1>3. sel' = sel \/ \E x : sel' = [sel EXCEPT ![p] = x]
  BY DEF Begin, Submit, Complete, Lock, TakeBuffered, Refill, RefillNone, DropClaimed,
         MeetPeer, Store, LoseClaim, Park, PassOver, TakeNothing, EndSubmit, Resume,
         ClearWait, Return, procVars
<1>4. at' = at \/ \E x : at' = [at EXCEPT ![p] = x]
  BY DEF Begin, Submit, Complete, Lock, TakeBuffered, Refill, RefillNone, DropClaimed,
         MeetPeer, Store, LoseClaim, Park, PassOver, TakeNothing, EndSubmit, Resume,
         ClearWait, Return, Finish, SkipOperation, SubmitNext, procVars
<1> QED
  BY <1>1, <1>2, <1>3, <1>4 DEF Still, ControlTypeOK

LEMMA RefillingSame ==
  ASSUME NEW c, \A r \in Procs : Still(r) \/ (pc[r] # "refill" /\ pc'[r] # "refill")
  PROVE  Refilling(c)' <=> Refilling(c)
<1>1. ASSUME NEW r \in Procs
      PROVE  pc'[r] = "refill" /\ Chan(r)' = c <=> pc[r] = "refill" /\ Chan(r) = c
  BY DEF Still, Chan, Alt
<1> QED
  BY <1>1 DEF Refilling

\* A channel has one owner.
LEMMA OwnerAlone ==
  ASSUME IInv, NEW p \in Procs, pc[p] \in Critical, NEW r \in Procs, pc[r] \in Critical,
         Chan(r) = Chan(p)
  PROVE  r = p
BY IInvFacts, CriticalFacts

-----------------------------------------------------------------------------
(* Met is preserved: one lemma per action, or kind of action.              *)

LEMMA MetSame ==
  ASSUME NEW c, MetOf(c), buffer'[c] = buffer[c], Refilling(c)' <=> Refilling(c),
         Waiting("read", c)' \subseteq Waiting("read", c),
         Waiting("write", c)' \subseteq Waiting("write", c)
  PROVE  MetOf(c)'
BY DEF MetOf, Empty, Full

\* Other channels than that of the submission.
LEMMA MetElsewhere ==
  ASSUME WInv, NEW p \in Procs, pc[p] \in Critical, Submit(p),
         NEW c \in Channels, c # Chan(p), Waiting("read", c)' \subseteq Waiting("read", c),
         Waiting("write", c)' \subseteq Waiting("write", c)
  PROVE  MetOf(c)'
<1>1. IInv /\ MetOf(c)
  BY DEF WInv, Met
<1>2. buffer' = buffer \/ \E b : buffer' = [buffer EXCEPT ![Chan(p)] = b]
  BY DEF Submit, Lock, TakeBuffered, Refill, RefillNone, DropClaimed, MeetPeer, Store,
         LoseClaim, Park, PassOver, TakeNothing, EndSubmit, chanVars, Dequeued, Enqueued
<1>3. buffer'[c] = buffer[c]
  BY <1>1, <1>2, IInvFacts DEF DataTypeOK
<1>4. Refilling(c)' <=> Refilling(c)
  <2>1. \A r \in Procs : r # p => Still(r)
    BY <1>1, OthersStill
  <2>2. (pc'[p] = "refill" => Chan(p)' = Chan(p))
    <3>1. ControlTypeOK
      BY <1>1, IInvFacts
    <3>2. CASE TakeBuffered(p) \/ DropClaimed(p)
      BY <3>2 DEF TakeBuffered, DropClaimed, Finish, Chan, Alt, procVars
    <3>3. CASE ~(TakeBuffered(p) \/ DropClaimed(p))
      <4>1. \E x \in {"buffer", "scan", "lock", "done"} : pc' = [pc EXCEPT ![p] = x]
        BY <3>3 DEF Submit, Lock, Refill, RefillNone, MeetPeer, Store,
           LoseClaim, Park, PassOver, TakeNothing, EndSubmit, Finish, SkipOperation, SubmitNext
      <4> QED
        BY <3>1, <4>1 DEF ControlTypeOK
    <3> QED
      BY <3>2, <3>3
  <2>3. ASSUME NEW r \in Procs
        PROVE  pc'[r] = "refill" /\ Chan(r)' = c <=> pc[r] = "refill" /\ Chan(r) = c
    BY <2>1, <2>2 DEF Still, Chan, Alt
  <2> QED
    BY <2>3 DEF Refilling
<1> QED
  BY <1>1, <1>3, <1>4, MetSame

LEMMA QuietMet ==
  ASSUME WInv, NEW p \in Procs, NEW c \in Channels,
         \/ Begin(p) \/ Lock(p) \/ DropClaimed(p) \/ MeetPeer(p) \/ LoseClaim(p)
         \/ PassOver(p) \/ TakeNothing(p) \/ EndSubmit(p) \/ Complete(p)
  PROVE  MetOf(c)'
<1>1. IInv /\ MetOf(c) /\ ControlTypeOK /\ ControlOf(p)
  BY IInvFacts DEF WInv, Met
<1>2. \A r \in Procs : Withdraws(r)
  BY <1>1, OthersWithdraw
<1>3. buffer' = buffer
  BY DEF Begin, Lock, DropClaimed, MeetPeer, LoseClaim, PassOver, TakeNothing, EndSubmit,
         Complete, Resume, ClearWait, Return, chanVars
<1>4. \A r \in Procs : r # p => Still(r)
  BY <1>1, OthersStill DEF Submit
<1>5. Still(p) \/ (pc[p] # "refill" /\ pc'[p] # "refill")
  <2>1. CASE DropClaimed(p) \/ Resume(p) \/ ClearWait(p)
    BY <2>1 DEF DropClaimed, Resume, ClearWait, Still, procVars
  <2>2. CASE Return(p)
    BY <1>1, <2>2 DEF Return, ControlOf, ControlTypeOK, Submitting, Critical
  <2>3. CASE \/ Begin(p) \/ Lock(p) \/ MeetPeer(p) \/ LoseClaim(p)
             \/ PassOver(p) \/ TakeNothing(p) \/ EndSubmit(p)
    <3>1. pc[p] # "refill"
      BY <2>3 DEF Begin, Lock, MeetPeer, LoseClaim, PassOver, TakeNothing, EndSubmit,
                  NoPeer, Unserved
    <3>2. \E x \in {"buffer", "scan", "lock", "done"} : pc' = [pc EXCEPT ![p] = x]
      BY <2>3 DEF Begin, Lock, MeetPeer, LoseClaim, PassOver, TakeNothing, EndSubmit, Finish,
                  SkipOperation, SubmitNext
    <3> QED
      BY <1>1, <3>1, <3>2 DEF ControlTypeOK
  <2> QED
    BY <2>1, <2>2, <2>3 DEF Complete
<1>6. Refilling(c)' <=> Refilling(c)
  BY <1>4, <1>5, RefillingSame
<1>7. /\ Waiting("read", c)' \subseteq Waiting("read", c)
      /\ Waiting("write", c)' \subseteq Waiting("write", c)
  BY <1>2, WaitingShrinks
<1> QED
  BY <1>1, <1>3, <1>6, <1>7, MetSame

LEMMA StoreMet ==
  ASSUME WInv, NEW p \in Procs, Store(p)
  PROVE  MetOf(Chan(p))'
<1> PICK c : c = Chan(p)
  OBVIOUS
<1>1. /\ NoPeer(p) /\ Alt(p).kind = "write" /\ ~Full(c) /\ CallerAvailable(p) /\ IInv
      /\ pc[p] = "scan"
  BY DEF Store, WInv, NoPeer
<1>2. c \in Channels /\ MetOf(c) /\ UNCHANGED sel /\ UNCHANGED at
  BY <1>1, IInvFacts, CriticalFacts DEF WInv, Met, Critical, Store, Finish
<1>3. Waiting("read", c) = {}
  BY <1>1, NoPeerNone DEF PeerKind
<1>4. ~Refilling(c)
  BY <1>1, OwnerAlone DEF Refilling, Critical
<1>5. Waiting("write", c) = {}
  BY <1>1, <1>2, <1>4 DEF MetOf
<1>6. \A r \in Procs : Withdraws(r)
  BY <1>1, OthersWithdraw
<1>7. Waiting("read", c)' = {} /\ Waiting("write", c)' = {}
  BY <1>3, <1>5, <1>6, WaitingShrinks
<1>8. Chan(p)' = c
  BY <1>2 DEF Chan, Alt
<1>9. MetOf(c)'
  BY <1>7 DEF MetOf
<1> QED
  BY <1>8, <1>9

LEMMA RefillNoneMet ==
  ASSUME WInv, NEW p \in Procs, RefillNone(p)
  PROVE  MetOf(Chan(p))'
<1> PICK c : c = Chan(p)
  OBVIOUS
<1>1. IInv /\ pc[p] = "refill" /\ first[WriterList(c)] = Null
  BY DEF RefillNone, WInv
<1>2. c \in Channels /\ MetOf(c) /\ UNCHANGED sel /\ UNCHANGED at
  BY <1>1, IInvFacts, CriticalFacts DEF WInv, Met, Critical, RefillNone, Finish
<1>3. Refilling(c)
  BY <1>1 DEF Refilling
<1>4. Waiting("read", c) = {}
  BY <1>2, <1>3 DEF MetOf
<1>5. Waiting("write", c) = {}
  BY <1>1, <1>2, NoneFirst DEF WriterList
<1>6. \A r \in Procs : Withdraws(r)
  BY <1>1, OthersWithdraw
<1>7. Waiting("read", c)' = {} /\ Waiting("write", c)' = {}
  BY <1>4, <1>5, <1>6, WaitingShrinks
<1>8. Chan(p)' = c
  BY <1>2 DEF Chan, Alt
<1>9. MetOf(c)'
  BY <1>7 DEF MetOf
<1> QED
  BY <1>8, <1>9

LEMMA TakeBufferedMet ==
  ASSUME WInv, NEW p \in Procs, TakeBuffered(p)
  PROVE  MetOf(Chan(p))'
<1> PICK c : c = Chan(p)
  OBVIOUS
<1>1. IInv /\ pc[p] = "buffer" /\ ~Empty(c) /\ buffer' = [buffer EXCEPT ![c] = Tail(buffer[c])]
  BY DEF TakeBuffered, WInv, Dequeued
<1>2. c \in Channels /\ MetOf(c) /\ UNCHANGED sel /\ UNCHANGED at
  BY <1>1, IInvFacts, CriticalFacts DEF WInv, Met, Critical, TakeBuffered, Finish
<1>3. ~Refilling(c)
  BY <1>1, OwnerAlone DEF Refilling, Critical
<1>4. Waiting("read", c) = {}
  BY <1>1, <1>2 DEF MetOf
<1>5. Waiting("write", c) # {} => Full(c)
  BY <1>2, <1>3 DEF MetOf
<1>6. \A r \in Procs : Withdraws(r)
  BY <1>1, OthersWithdraw
<1>7. /\ Waiting("read", c)' = {}
      /\ Waiting("write", c)' # {} => Waiting("write", c) # {}
  BY <1>4, <1>6, WaitingShrinks
<1>8. Chan(p)' = c
  BY <1>2 DEF Chan, Alt
<1>9. CASE BuffSize[c] = Unbounded
  <2>1. Waiting("write", c)' = {}
    BY <1>5, <1>7, <1>9 DEF Full
  <2> QED
    BY <1>7, <1>8, <2>1 DEF MetOf
<1>10. CASE BuffSize[c] # Unbounded
  <2>1. pc'[p] = "refill"
    BY <1>10, IInvFacts, <1>1 DEF TakeBuffered, ControlTypeOK
  <2>2. Refilling(c)'
    BY <1>8, <2>1 DEF Refilling
  <2>3. buffer[c] \in Seq(Values) /\ buffer[c] # <<>> /\ buffer'[c] = Tail(buffer[c])
    BY <1>1, <1>2, IInvFacts DEF Empty, DataTypeOK
  <2>4. Len(buffer'[c]) + 1 = Len(buffer[c])
    BY <2>3
  <2>5. Waiting("write", c)' # {} => Len(buffer'[c]) + 1 = BuffSize[c]
    BY <1>5, <1>7, <2>4 DEF Full
  <2>6. MetOf(c)'
    BY <1>7, <1>10, <2>2, <2>5 DEF MetOf
  <2> QED
    BY <1>8, <2>6
<1> QED
  BY <1>9, <1>10

LEMMA RefillMet ==
  ASSUME WInv, NEW p \in Procs, Refill(p)
  PROVE  MetOf(Chan(p))'
<1> PICK c : c = Chan(p)
  OBVIOUS
<1> PICK n : n = first[WriterList(c)]
  OBVIOUS
<1>1. /\ IInv /\ pc[p] = "refill" /\ n # Null /\ avail[n[1]]
      /\ \E v : buffer' = [buffer EXCEPT ![c] = Append(buffer[c], v)]
  BY DEF Refill, WInv, Enqueued
<1>2. c \in Channels /\ MetOf(c) /\ UNCHANGED sel /\ UNCHANGED at
  BY <1>1, IInvFacts, CriticalFacts DEF WInv, Met, Critical, Refill, Finish
<1>3. Refilling(c)
  BY <1>1 DEF Refilling
<1>4. n \in Waiting("write", c)
  <2>1. WriterList(c) \in Lists
    BY <1>2 DEF WriterList, Lists
  <2>2. n \in Live /\ ListOf(AltOf(n)) = WriterList(c)
    BY <1>1, <2>1, FirstLive
  <2>3. AltOf(n).kind \in {"read", "write"}
    BY <1>1, <2>2, LiveFacts
  <2>4. AltOf(n).kind = "write" /\ AltOf(n).chan = c
    BY <2>2, <2>3 DEF ListOf, ReaderList, WriterList
  <2> QED
    BY <1>1, <2>2, <2>4 DEF Waiting, Live
<1>5. Waiting("read", c) = {} /\ BuffSize[c] # Unbounded /\ Len(buffer[c]) + 1 = BuffSize[c]
  BY <1>2, <1>3, <1>4 DEF MetOf
<1>6. \A r \in Procs : Withdraws(r)
  BY <1>1, OthersWithdraw
<1>7. Waiting("read", c)' = {}
  BY <1>5, <1>6, WaitingShrinks
<1>8. Chan(p)' = c
  BY <1>2 DEF Chan, Alt
<1>9. ~Refilling(c)'
  <2>1. pc'[p] = "done"
    BY IInvFacts, <1>1 DEF Refill, Finish, ControlTypeOK
  <2>2. ASSUME NEW r \in Procs, pc'[r] = "refill", Chan(r)' = c
        PROVE  FALSE
    <3>1. r # p /\ Still(r)
      BY <1>1, <2>1, <2>2, OthersStill DEF Submit
    <3>2. pc[r] = "refill" /\ Chan(r) = c
      BY <2>2, <3>1 DEF Still, Chan, Alt
    <3> QED
      BY <1>1, <3>1, <3>2, OwnerAlone DEF Critical
  <2> QED
    BY <2>2 DEF Refilling
<1>10. Full(c)'
  <2>1. buffer[c] \in Seq(Values) /\ \E v : buffer'[c] = Append(buffer[c], v)
    BY <1>1, <1>2, IInvFacts DEF DataTypeOK
  <2>2. Len(buffer'[c]) = Len(buffer[c]) + 1
    BY <2>1
  <2> QED
    BY <1>5, <2>2 DEF Full
<1>11. MetOf(c)'
  BY <1>7, <1>9, <1>10 DEF MetOf
<1> QED
  BY <1>8, <1>11

LEMMA ParkMet ==
  ASSUME WInv, NEW p \in Procs, Park(p), NEW c \in Channels
  PROVE  MetOf(c)'
<1>1. /\ IInv /\ pc[p] \in {"buffer", "scan"} /\ sel[p].wait /\ Unserved(p) /\ buffer' = buffer
      /\ MetOf(c)
  BY DEF Park, WInv, Met, Unserved, NoPeer
<1>2. Chan(p) \in Channels /\ Alt(p).kind \in {"read", "write"} /\ ReadsFrom(p)
  BY <1>1, IInvFacts, CriticalFacts DEF WInv, Met, Critical
<1>3. Refilling(c)' <=> Refilling(c)
  <2>1. \A r \in Procs : r # p => Still(r)
    BY <1>1, OthersStill DEF Submit
  <2>2. pc'[p] = "lock"
    BY <1>1, IInvFacts DEF Park, SubmitNext, ControlTypeOK
  <2> QED
    BY <1>1, <2>1, <2>2, RefillingSame
<1>4. CASE ~avail[p] \/ c # Chan(p)
  <2>1. /\ Waiting("read", c)' \subseteq Waiting("read", c)
        /\ Waiting("write", c)' \subseteq Waiting("write", c)
    BY <1>1, <1>4, ParkAdds
  <2> QED
    BY <1>1, <1>3, <2>1, MetSame
<1>5. CASE avail[p] /\ c = Chan(p)
  <2>1. ~Refilling(c)
    BY <1>1, <1>5, OwnerAlone DEF Refilling, Critical
  <2>2. CallerAvailable(p)
    BY <1>5 DEF CallerAvailable
  <2>3. CASE Alt(p).kind = "read"
    <3>1. Empty(c) /\ Waiting("write", c) = {}
      <4>1. CASE pc[p] = "buffer"
        <5>1. Empty(c)
          BY <1>1, <1>5, <4>1 DEF Unserved, NoPeer
        <5>2. ~Full(c)
          BY <1>2, <1>5, <2>3, <4>1, <5>1 DEF Full, Empty, ReadsFrom
        <5> QED
          BY <1>1, <2>1, <5>1, <5>2 DEF MetOf
      <4>2. CASE pc[p] = "scan"
        <5>1. NoPeer(p) /\ BuffSize[c] = 0
          BY <1>1, <1>2, <1>5, <2>3, <4>2 DEF Unserved, ReadsFrom
        <5>2. BuffSize[c] # Unbounded
          BY <5>1, ChannelAssumption DEF ChannelAssumption
        <5>3. buffer[c] \in Seq(Values) /\ Len(buffer[c]) <= BuffSize[c]
          BY <1>1, <5>2, IInvFacts DEF DataTypeOK
        <5>4. Empty(c)
          BY <5>1, <5>3 DEF Empty
        <5> QED
          BY <1>1, <1>5, <2>2, <2>3, <5>1, <5>4, NoPeerNone DEF PeerKind
      <4> QED
        BY <1>1, <4>1, <4>2
    <3>2. Waiting("write", c)' = {}
      BY <1>1, <2>3, <3>1, ParkAdds
    <3>3. Empty(c)' /\ ~Refilling(c)'
      BY <1>1, <1>3, <2>1, <3>1 DEF Empty
    <3> QED
      BY <3>2, <3>3 DEF MetOf
  <2>4. CASE Alt(p).kind = "write"
    <3>1. NoPeer(p) /\ Full(c)
      BY <1>1, <1>5, <2>4, IInvFacts DEF Unserved, ControlOf
    <3>2. Waiting("read", c) = {}
      BY <1>1, <1>5, <2>2, <2>4, <3>1, NoPeerNone DEF PeerKind
    <3>3. Waiting("read", c)' = {}
      BY <1>1, <2>4, <3>2, ParkAdds
    <3>4. Full(c)' /\ ~Refilling(c)'
      BY <1>1, <1>3, <2>1, <3>1 DEF Full
    <3> QED
      BY <3>3, <3>4 DEF MetOf
  <2> QED
    BY <1>2, <2>3, <2>4
<1> QED
  BY <1>4, <1>5

-----------------------------------------------------------------------------
(* WInv is inductive.                                                      *)

LEMMA NextReadsFrom ==
  ASSUME WInv, NEW p \in Procs, Begin(p) \/ Submit(p) \/ Complete(p), NEW r \in Procs
  PROVE  ReadsFrom(r)'
<1>1. IInv /\ ReadsFrom(r) /\ ReadsFrom(p) /\ ControlTypeOK
  BY IInvFacts DEF WInv, Met
<1>2. ASSUME Still(r)
      PROVE  ReadsFrom(r)'
  BY <1>1, <1>2 DEF Still, ReadsFrom, Alt, Chan
<1>3. CASE r # p
  BY <1>1, <1>2, <1>3, OthersStill
<1>4. CASE r = p
  <2>1. CASE Lock(p)
    <3>1. /\ pc'[p] = IF Alt(p).kind = "read" /\ BuffSize[Chan(p)] # 0 THEN "buffer" ELSE "scan"
          /\ UNCHANGED <<sel, at>>
      BY <1>1, <2>1 DEF Lock, ControlTypeOK
    <3> QED
      BY <1>4, <3>1 DEF ReadsFrom, Alt, Chan
  <2>2. CASE DropClaimed(p) \/ Resume(p) \/ ClearWait(p)
    BY <1>2, <1>4, <2>2 DEF DropClaimed, Resume, ClearWait, Still, procVars
  <2>3. CASE ~(Lock(p) \/ DropClaimed(p) \/ Resume(p) \/ ClearWait(p))
    <3>1. \E x \in {"refill", "lock", "done", "idle"} : pc' = [pc EXCEPT ![p] = x]
      BY <2>3 DEF Begin, Submit, Complete, TakeBuffered, Refill, RefillNone, MeetPeer, Store,
         LoseClaim, Park, PassOver, TakeNothing, EndSubmit, Return, Finish, SkipOperation,
         SubmitNext
    <3>2. pc'[p] \notin {"buffer", "scan"}
      BY <1>1, <3>1 DEF ControlTypeOK
    <3> QED
      BY <1>4, <3>2 DEF ReadsFrom
  <2> QED
    BY <2>1, <2>2, <2>3
<1> QED
  BY <1>3, <1>4

LEMMA NextMetOf ==
  ASSUME WInv, NEW p \in Procs, Begin(p) \/ Submit(p) \/ Complete(p), NEW c \in Channels
  PROVE  MetOf(c)'
<1>1. IInv
  BY DEF WInv
<1>2. CASE TakeBuffered(p) \/ Refill(p) \/ RefillNone(p) \/ Store(p)
  <2>1. CASE c = Chan(p)
    <3>1. Chan(p)' = Chan(p)
      BY <1>2 DEF TakeBuffered, Refill, RefillNone, Store, Finish, Chan, Alt
    <3>2. MetOf(Chan(p))'
      BY <1>2, TakeBufferedMet, RefillMet, RefillNoneMet, StoreMet
    <3> QED
      BY <2>1, <3>1, <3>2
  <2>2. CASE c # Chan(p)
    <3>1. pc[p] \in Critical /\ Submit(p)
      BY <1>2 DEF TakeBuffered, Refill, RefillNone, Store, NoPeer, Critical, Submit
    <3>2. \A r \in Procs : Withdraws(r)
      BY <1>1, <1>2, OthersWithdraw
    <3>3. /\ Waiting("read", c)' \subseteq Waiting("read", c)
          /\ Waiting("write", c)' \subseteq Waiting("write", c)
      BY <3>2, WaitingShrinks
    <3> QED
      BY <2>2, <3>1, <3>3, MetElsewhere
  <2> QED
    BY <2>1, <2>2
<1>3. CASE Park(p)
  BY <1>3, ParkMet
<1> QED
  BY <1>2, <1>3, QuietMet DEF Submit

\* The invariant holds for every orderly script.
LEMMA WInvHolds ==
  ASSUME OrderlyScript
  PROVE  Spec => []WInv
<1>1. Init => WInv
  <2> SUFFICES ASSUME Init PROVE Met
    BY InitIInv DEF WInv
  <2>1. \A k : \A c : Waiting(k, c) = {}
    BY DEF Init, Waiting, Nodes
  <2>2. \A c \in Channels : MetOf(c)
    BY <2>1 DEF MetOf
  <2>3. \A p \in Procs : ReadsFrom(p)
    BY DEF Init, ReadsFrom
  <2> QED
    BY <2>2, <2>3 DEF Met
<1>2. WInv /\ [Next]_vars => WInv'
  <2> SUFFICES ASSUME WInv, [Next]_vars PROVE WInv'
    OBVIOUS
  <2>1. IInv'
    BY NextIInv DEF WInv
  <2>2. CASE UNCHANGED vars
    <3>1. Met'
      BY <2>2 DEF WInv, Met, ReadsFrom, MetOf, Refilling, Waiting, Empty, Full, AltOf, Alt, Chan,
                  vars, chanVars, procVars
    <3> QED
      BY <2>1, <3>1 DEF WInv
  <2>3. ASSUME NEW p \in Procs, Begin(p) \/ Submit(p) \/ Complete(p)
        PROVE  WInv'
    <3>1. (\A r \in Procs : ReadsFrom(r)') /\ (\A c \in Channels : MetOf(c)')
      BY <2>3, NextReadsFrom, NextMetOf
    <3> QED
      BY <2>1, <3>1 DEF WInv, Met
  <2> QED
    BY <2>2, <2>3 DEF Next, Terminated
<1> QED
  BY <1>1, <1>2, PTL DEF Spec

-----------------------------------------------------------------------------
(* What follows from it.                                                   *)

\* No wake-up is missed: when nobody is in a channel, readers wait for an empty
\* buffer, writers for a full one, and no reader waits beside a writer.  What
\* the comments of read_op.hpp and write_op.hpp take for granted of the buffer
\* where they meet a waiter holds for every capacity and any number of waiters.
THEOREM NoneMissed ==
  ASSUME OrderlyScript
  PROVE  Spec => []NoMissedMatch
<1>1. ASSUME WInv
      PROVE  NoMissedMatch
  <2> SUFFICES ASSUME NEW c \in Channels, owner[c] = Null
               PROVE  /\ Waiting("read", c) # {} => Empty(c)
                      /\ Waiting("write", c) # {} => Full(c)
                      /\ \A r \in Waiting("read", c), w \in Waiting("write", c) : r[1] = w[1]
    BY DEF NoMissedMatch
  <2>1. MetOf(c) /\ IInv
    BY <1>1 DEF WInv, Met
  <2>2. ASSUME NEW p \in Procs, pc[p] = "refill", Chan(p) = c
        PROVE  FALSE
    <3>1. owner[c] = p
      BY <2>1, <2>2, IInvFacts, CriticalFacts DEF Critical
    <3> QED
      BY <3>1, ScriptAssumption DEF ScriptAssumption
  <2>3. ~Refilling(c)
    BY <2>2 DEF Refilling
  <2> QED
    BY <2>1, <2>3 DEF MetOf
<1> QED
  BY <1>1, WInvHolds, PTL

LEMMA NodesFinite == IsFiniteSet(Nodes)
<1>1. IsFiniteSet(1..MaxAlts)
  BY ChannelAssumption, FS_Interval DEF ChannelAssumption
<1> QED
  BY <1>1, ProcsAssumption, FS_Product DEF ProcsAssumption, Nodes

\* There are finitely many nodes, and so a walk ends.
LEMMA QueuesAreWalked ==
  ASSUME IInv
  PROVE  \E q \in [Lists -> Seq(Nodes)] :
           Chains(Lists, Nodes, q) /\ Placed(q) /\ \A l \in Lists : Forward(l) = q[l]
<1> PICK q \in [Lists -> Seq(Nodes)] : Chains(Lists, Nodes, q) /\ Placed(q)
  BY DEF IInv, Queues
<1>1. LinksTypeOK(Lists, Nodes)
  BY IInvFacts DEF ControlTypeOK
<1>2. \A l \in Lists : Forward(l) = q[l]
  BY <1>1, NodesFinite, NullNoNode, ForwardIsQueue
<1> QED
  BY <1>2

\* Whoever can still be matched is found, once, by walking the list of the end
\* of the channel it waits at from first_.
THEOREM WaitersFound ==
  ASSUME OrderlyScript
  PROVE  Spec => []WaitersReachable
<1>1. ASSUME IInv
      PROVE  WaitersReachable
  <2> PICK q \in [Lists -> Seq(Nodes)] :
           Chains(Lists, Nodes, q) /\ Placed(q) /\ \A l \in Lists : Forward(l) = q[l]
    BY <1>1, QueuesAreWalked
  <2> SUFFICES ASSUME NEW l \in Lists, NEW n \in Live, avail[n[1]], ListOf(AltOf(n)) = l
               PROVE  \E i \in DOMAIN q[l] :
                        q[l][i] = n /\ \A j \in DOMAIN q[l] : q[l][j] = n => j = i
    BY DEF WaitersReachable
  <2>1. q[l] \in Seq(Nodes) /\ DOMAIN q[l] = 1..Len(q[l])
    OBVIOUS
  <2>2. PICK i \in 1..Len(q[l]) : q[l][i] = n
    BY DEF Placed, Within
  <2>3. \A j \in 1..Len(q[l]) : q[l][j] = n => j = i
    BY <2>2 DEF Chains
  <2> QED
    BY <2>1, <2>2, <2>3
<1> QED
  BY <1>1, IInvHolds, PTL

-----------------------------------------------------------------------------
(* Facts about selections that are not served yet.                         *)

\* Who can still be claimed was not served.
LEMMA ClaimableUnserved ==
  ASSUME IInv, NEW r \in Procs, avail[r]
  PROVE  Served(r) = 0 /\ pc[r] # "idle" /\ pc[r] # "refill" /\ sel[r].wait
BY IInvFacts DEF ControlOf, Served

\* A submission that finds its own flag set is not served yet.
LEMMA SubmittingUnserved ==
  ASSUME IInv, NEW p \in Procs, pc[p] \in {"lock", "buffer", "scan"}, CallerAvailable(p)
  PROVE  Served(p) = 0 /\ token[p] = 0
BY IInvFacts, NothingPosted DEF Served, Submitting, Critical

\* What a write that was not served sends.
LEMMA ToSend ==
  ASSUME IInv, NEW r \in Procs, Served(r) = 0, sel[r] \in SelectionsOfChannels,
         NEW i \in 1..Len(Alts(r))
  PROVE  slot[r][Alts(r)[i].op] =
           IF Alts(r)[i].kind = "write" THEN <<r, round[r], Alts(r)[i].op>> ELSE Null
<1>1. Alts(r)[i].op \in Ops
  BY SelectionFacts DEF Alts
<1>2. Untouched(r, Alts(r)[i].op)
  BY <1>1, IInvFacts DEF SettledOf, MovedOnce, Moved
<1>3. WritesInOp(sel[r], Alts(r)[i].op) <=> Alts(r)[i].kind = "write"
  BY WritesFacts DEF Alts
<1> QED
  BY <1>2, <1>3 DEF Untouched

-----------------------------------------------------------------------------
(* Where a value is.                                                       *)

\* Value v is the i-th in the buffer of c, in slot k of q, which reads, or the
\* i-th result of q.
InBuffer(c, i, v) == c \in Channels /\ i \in DOMAIN buffer[c] /\ buffer[c][i] = v
InSlot(q, k, v) == q \in Procs /\ k \in Ops /\ slot[q][k] = v /\ ~WritesInOp(sel[q], k)
InResult(q, i, v) ==
  q \in Procs /\ i \in DOMAIN results[q] /\ results[q][i].kind = "read" /\ results[q][i].val = v

In(w, a, i, v) ==
  \/ w = "buffer" /\ InBuffer(a, i, v)
  \/ w = "slot" /\ InSlot(a, i, v)
  \/ w = "result" /\ InResult(a, i, v)

LEMMA HoldersAre ==
  ASSUME NEW v
  PROVE  /\ \A x \in Holders(v) : \E w, a, i : x = <<w, a, i>> /\ In(w, a, i, v)
         /\ \A w, a, i : In(w, a, i, v) => <<w, a, i>> \in Holders(v)
<1>2. \A x \in InBuffers(v) : \E a, i : x = <<"buffer", a, i>> /\ InBuffer(a, i, v)
  BY DEF InBuffer, InBuffers
<1>3. \A x \in InSlots(v) : \E a, i : x = <<"slot", a, i>> /\ InSlot(a, i, v)
  BY DEF InSlot, InSlots
<1>4. \A x \in InResults(v) : \E a, i : x = <<"result", a, i>> /\ InResult(a, i, v)
  BY DEF InResult, InResults
<1>5. \A a, i : InBuffer(a, i, v) => <<"buffer", a, i>> \in InBuffers(v)
  BY DEF InBuffer, InBuffers
<1>6. \A a, i : InSlot(a, i, v) => <<"slot", a, i>> \in InSlots(v)
  BY DEF InSlot, InSlots
<1>7. \A a, i : InResult(a, i, v) => <<"result", a, i>> \in InResults(v)
  BY DEF InResult, InResults
<1>8. ASSUME NEW x \in Holders(v)
      PROVE  \E w, a, i : x = <<w, a, i>> /\ In(w, a, i, v)
  <2>1. CASE x \in InBuffers(v)
    BY <1>2, <2>1 DEF In
  <2>2. CASE x \in InSlots(v)
    BY <1>3, <2>2 DEF In
  <2>3. CASE x \in InResults(v)
    BY <1>4, <2>3 DEF In
  <2> QED
    BY <1>8, <2>1, <2>2, <2>3 DEF Holders
<1>9. ASSUME NEW w, NEW a, NEW i, In(w, a, i, v)
      PROVE  <<w, a, i>> \in Holders(v)
  <2>1. CASE w = "buffer" /\ InBuffer(a, i, v)
    BY <1>5, <2>1 DEF Holders
  <2>2. CASE w = "slot" /\ InSlot(a, i, v)
    BY <1>6, <2>2 DEF Holders
  <2>3. CASE w = "result" /\ InResult(a, i, v)
    BY <1>7, <2>3 DEF Holders
  <2> QED
    BY <1>9, <2>1, <2>2, <2>3 DEF In
<1> QED
  BY <1>8, <1>9

\* The write of v was served.
Sending(p, k) ==
  token[p] # 0 /\ Alts(p)[token[p]].kind = "write" /\ Alts(p)[token[p]].op = k

\* A value that was sent is in one place, any other in none.
Kept(v) ==
  IF Sent(v)
  THEN \E w, a, i : /\ In(w, a, i, v)
                    /\ \A x, b, j : In(x, b, j, v) => x = w /\ b = a /\ j = i
  ELSE \A w, a, i : ~In(w, a, i, v)

VInv == WInv /\ Counted /\ \A v \in Values : Kept(v)

LEMMA KeptConserves ==
  ASSUME NEW v, Kept(v)
  PROVE  Cardinality(Holders(v)) = IF Sent(v) THEN 1 ELSE 0
<1>1. CASE Sent(v)
  <2>1. PICK w, a, i : /\ In(w, a, i, v)
                       /\ \A x, b, j : In(x, b, j, v) => x = w /\ b = a /\ j = i
    BY <1>1 DEF Kept
  <2>2. Holders(v) = {<<w, a, i>>}
    BY <2>1, HoldersAre
  <2> QED
    BY <1>1, <2>2, FS_Singleton
<1>2. CASE ~Sent(v)
  <2>1. Holders(v) = {}
    BY <1>2, HoldersAre DEF Kept
  <2> QED
    BY <1>2, <2>1, FS_EmptySet
<1> QED
  BY <1>1, <1>2

-----------------------------------------------------------------------------
(* What a step may do to the values.                                       *)

LEMMA SentSame ==
  ASSUME NEW v \in Values, UNCHANGED <<results, round>>,
         \A r \in Procs : \A k \in Ops : Sending(r, k)' <=> Sending(r, k)
  PROVE  Sent(v)' <=> Sent(v)
<1>1. v[1] \in Procs /\ v[3] \in Ops
  BY DEF Values
<1> QED
  BY <1>1 DEF Sent, Sending

\* Nothing happens to v.
LEMMA StaysPut ==
  ASSUME NEW v, Kept(v), Sent(v)' <=> Sent(v),
         \A w, a, i : In(w, a, i, v)' <=> In(w, a, i, v)
  PROVE  Kept(v)'
BY DEF Kept

\* Value u gets to place <<w, a, i>>; nothing else moves.
Arrives(u, w, a, i) ==
  \A v \in Values : \A x, b, j :
    In(x, b, j, v)' <=> In(x, b, j, v) \/ (v = u /\ x = w /\ b = a /\ j = i)

LEMMA OneIsSent ==
  ASSUME \A v \in Values : Kept(v), NEW u, ~Sent(u),
         \A v \in Values : Sent(v)' <=> Sent(v) \/ v = u,
         NEW w, NEW a, NEW i, Arrives(u, w, a, i)
  PROVE  \A v \in Values : Kept(v)'
<1> SUFFICES ASSUME NEW v \in Values PROVE Kept(v)'
  OBVIOUS
<1>0. \A x, b, j : In(x, b, j, v)' <=> In(x, b, j, v) \/ (v = u /\ x = w /\ b = a /\ j = i)
  BY DEF Arrives
<1>1. CASE v = u
  <2>1. Sent(v)' /\ \A x, b, j : ~In(x, b, j, v)
    BY <1>1 DEF Kept
  <2>2. \A x, b, j : In(x, b, j, v)' <=> x = w /\ b = a /\ j = i
    BY <1>0, <1>1, <2>1
  <2> QED
    BY <2>1, <2>2 DEF Kept
<1>2. CASE v # u
  <2>1. Sent(v)' <=> Sent(v)
    BY <1>2
  <2>2. \A x, b, j : In(x, b, j, v)' <=> In(x, b, j, v)
    BY <1>0, <1>2
  <2> QED
    BY <2>1, <2>2 DEF Kept
<1> QED
  BY <1>1, <1>2

LEMMA NullNoValue == Null \notin Values
BY ScriptAssumption DEF ScriptAssumption, Values

\* The write of operation k of p is served.
LEMMA SentNow ==
  ASSUME NEW p \in Procs, NEW k \in Ops, UNCHANGED <<results, round>>,
         \A r \in Procs : \A o \in Ops : Sending(r, o)' <=> Sending(r, o) \/ (r = p /\ o = k)
  PROVE  \A v \in Values : Sent(v)' <=> Sent(v) \/ v = <<p, round[p], k>>
<1> SUFFICES ASSUME NEW v \in Values
             PROVE  Sent(v)' <=> Sent(v) \/ v = <<p, round[p], k>>
  OBVIOUS
<1>1. v[1] \in Procs /\ v[3] \in Ops /\ v = <<v[1], v[2], v[3]>>
  BY DEF Values
<1>2. Sent(v) <=> \/ /\ v[2] \in DOMAIN results[v[1]] /\ results[v[1]][v[2]].kind = "write"
                     /\ results[v[1]][v[2]].val = v
                  \/ v[2] = round[v[1]] /\ Sending(v[1], v[3])
  BY DEF Sent, Sending
<1>3. Sent(v)' <=> \/ /\ v[2] \in DOMAIN results[v[1]] /\ results[v[1]][v[2]].kind = "write"
                      /\ results[v[1]][v[2]].val = v
                   \/ v[2] = round[v[1]] /\ Sending(v[1], v[3])'
  BY DEF Sent, Sending
<1>4. v = <<p, round[p], k>> <=> v[1] = p /\ v[2] = round[v[1]] /\ v[3] = k
  BY <1>1
<1> QED
  BY <1>1, <1>2, <1>3, <1>4

\* What a selection that is not served has to send was not sent before.
LEMMA NotYetSent ==
  ASSUME VInv, NEW p \in Procs, Served(p) = 0, pc[p] # "idle", NEW k
  PROVE  ~Sent(<<p, round[p], k>>)
<1>1. IInv /\ CountedOf(p)
  BY DEF VInv, WInv, Counted
<1>2. token[p] = 0
  BY DEF Served
<1>3. results[p] \in Seq(Results) /\ round[p] \in Nat /\ DOMAIN results[p] = 1..Len(results[p])
  BY <1>1, IInvFacts DEF DataTypeOK, ControlTypeOK
<1>4. round[p] \notin DOMAIN results[p]
  BY <1>1, <1>3 DEF CountedOf
<1> PICK v : v = <<p, round[p], k>>
  OBVIOUS
<1>5. v[1] = p /\ v[2] = round[p]
  OBVIOUS
<1>6. ~Sent(v)
  BY <1>2, <1>4, <1>5 DEF Sent
<1> QED
  BY <1>6

\* A value is put behind those in the buffer of c.
LEMMA PutBehind ==
  ASSUME DataTypeOK, NEW c \in Channels, NEW u, buffer' = [buffer EXCEPT ![c] = Append(@, u)]
  PROVE  \A a, i, v : InBuffer(a, i, v)' <=>
           InBuffer(a, i, v) \/ (a = c /\ i = Len(buffer[c]) + 1 /\ v = u)
<1>1. buffer[c] \in Seq(Values) /\ Len(buffer[c]) \in Nat
  BY DEF DataTypeOK
<1>2. buffer'[c] = Append(buffer[c], u) /\ \A a \in Channels \ {c} : buffer'[a] = buffer[a]
  BY DEF DataTypeOK
<1>3. /\ DOMAIN buffer[c] = 1..Len(buffer[c]) /\ DOMAIN buffer'[c] = 1..(Len(buffer[c]) + 1)
      /\ \A i \in 1..Len(buffer[c]) : buffer'[c][i] = buffer[c][i]
      /\ buffer'[c][Len(buffer[c]) + 1] = u
  BY <1>1, <1>2
<1>4. ASSUME NEW i, NEW v
      PROVE  InBuffer(c, i, v)' <=> InBuffer(c, i, v) \/ (i = Len(buffer[c]) + 1 /\ v = u)
  <2>1. i \in DOMAIN buffer'[c] <=> i \in DOMAIN buffer[c] \/ i = Len(buffer[c]) + 1
    BY <1>1, <1>3
  <2>2. Len(buffer[c]) + 1 \notin DOMAIN buffer[c]
    BY <1>1, <1>3
  <2> QED
    BY <1>3, <2>1, <2>2 DEF InBuffer
<1>5. ASSUME NEW a, a # c, NEW i, NEW v
      PROVE  InBuffer(a, i, v)' <=> InBuffer(a, i, v)
  BY <1>2, <1>5 DEF InBuffer
<1> QED
  BY <1>4, <1>5

\* Slot k of q, which writes, is emptied.
LEMMA GivenAway ==
  ASSUME DataTypeOK, NEW q \in Procs, NEW k \in Ops, WritesInOp(sel[q], k), sel' = sel,
         slot' = [slot EXCEPT ![q][k] = Null]
  PROVE  \A a, i, v : InSlot(a, i, v)' <=> InSlot(a, i, v)
<1>1. \A a \in Procs : \A i \in Ops : a # q \/ i # k => slot'[a][i] = slot[a][i]
  BY DEF DataTypeOK
<1> QED
  BY <1>1 DEF InSlot

-----------------------------------------------------------------------------
(* The steps.                                                              *)

\* Steps that touch no value.
LEMMA QuietValues ==
  ASSUME VInv, NEW p \in Procs,
         \/ Lock(p) \/ RefillNone(p) \/ DropClaimed(p) \/ LoseClaim(p) \/ Park(p)
         \/ PassOver(p) \/ TakeNothing(p) \/ EndSubmit(p) \/ Resume(p) \/ ClearWait(p)
  PROVE  \A v \in Values : Kept(v)'
<1>1. IInv /\ ControlTypeOK /\ ControlOf(p) /\ \A v \in Values : Kept(v)
  BY IInvFacts DEF VInv, WInv
<1>2. UNCHANGED <<buffer, slot, sel, results, round>>
  BY DEF Lock, RefillNone, DropClaimed, LoseClaim, Park, PassOver, TakeNothing, EndSubmit,
         Resume, ClearWait, chanVars, procVars
<1>3. ASSUME NEW r \in Procs, NEW k \in Ops
      PROVE  Sending(r, k)' <=> Sending(r, k)
  <2>1. Alts(r)' = Alts(r)
    BY <1>2 DEF Alts
  <2>2. CASE RefillNone(p) \/ TakeNothing(p)
    <3>1. /\ token' = [token EXCEPT ![p] = at[p]] /\ Alt(p).kind # "write" /\ token[p] = 0
      <4>1. CASE RefillNone(p)
        BY <1>1, <4>1 DEF RefillNone, ControlOf
      <4>2. CASE TakeNothing(p)
        <5>1. ~sel[p].wait
          BY <1>1, <4>2, IInvFacts, AltFacts DEF TakeNothing, Submitting
        <5> QED
          BY <1>1, <4>2, <5>1 DEF TakeNothing, ControlOf, Submitting
      <4> QED
        BY <2>2, <4>1, <4>2
    <3>2. Alts(p)[at[p]].kind # "write"
      BY <3>1 DEF Alt, Alts
    <3>3. token'[r] = IF r = p THEN at[p] ELSE token[r]
      BY <1>1, <3>1 DEF ControlTypeOK
    <3> QED
      BY <2>1, <3>1, <3>2, <3>3 DEF Sending
  <2>3. CASE ~(RefillNone(p) \/ TakeNothing(p))
    <3>1. token' = token
      BY <2>3 DEF Lock, DropClaimed, LoseClaim, Park, PassOver, EndSubmit,
                  Resume, ClearWait, procVars
    <3> QED
      BY <2>1, <3>1 DEF Sending
  <2> QED
    BY <2>2, <2>3
<1>4. ASSUME NEW v \in Values
      PROVE  Kept(v)'
  <2>1. Sent(v)' <=> Sent(v)
    BY <1>2, <1>3, SentSame
  <2>2. \A w, a, i : In(w, a, i, v)' <=> In(w, a, i, v)
    BY <1>2 DEF In, InBuffer, InSlot, InResult
  <2> QED
    BY <1>1, <2>1, <2>2, StaysPut
<1> QED
  BY <1>4

LEMMA StoreValues ==
  ASSUME VInv, NEW p \in Procs, Store(p)
  PROVE  \A v \in Values : Kept(v)'
<1> PICK c : c = Chan(p)
  OBVIOUS
<1> PICK k : k = Alt(p).op
  OBVIOUS
<1> PICK u : u = slot[p][k]
  OBVIOUS
<1>1. /\ IInv /\ ControlTypeOK /\ DataTypeOK /\ ControlOf(p) /\ \A v \in Values : Kept(v)
  BY IInvFacts DEF VInv, WInv
<1>2. /\ pc[p] = "scan" /\ Alt(p).kind = "write" /\ CallerAvailable(p)
      /\ buffer' = [buffer EXCEPT ![c] = Append(@, u)]
      /\ slot' = [slot EXCEPT ![p][k] = Null]
      /\ token' = [token EXCEPT ![p] = at[p]]
      /\ UNCHANGED <<round, sel, results>>
  BY DEF Store, NoPeer, Enqueued
<1>3. Served(p) = 0 /\ token[p] = 0
  BY <1>1, <1>2, SubmittingUnserved
<1>4. /\ at[p] \in 1..Len(Alts(p)) /\ sel[p] \in SelectionsOfChannels /\ k \in Ops /\ c \in Channels
      /\ Alt(p) = Alts(p)[at[p]]
  BY <1>1, <1>2, IInvFacts, CriticalFacts DEF Critical, Alt, Alts
<1>5. u = <<p, round[p], k>> /\ WritesInOp(sel[p], k)
  BY <1>1, <1>2, <1>3, <1>4, ToSend, WritesFacts DEF Alts
<1>6. ~Sent(u)
  BY <1>2, <1>3, <1>5, NotYetSent
<1>7. \A v \in Values : Sent(v)' <=> Sent(v) \/ v = u
  <2>1. ASSUME NEW r \in Procs, NEW o \in Ops
        PROVE  Sending(r, o)' <=> Sending(r, o) \/ (r = p /\ o = k)
    <3>1. token'[r] = IF r = p THEN at[p] ELSE token[r]
      BY <1>1, <1>2 DEF ControlTypeOK
    <3>2. Alts(r)' = Alts(r)
      BY <1>2 DEF Alts
    <3> QED
      BY <1>2, <1>3, <1>4, <3>1, <3>2 DEF Sending
  <2>2. UNCHANGED <<results, round>>
    BY <1>2
  <2> QED
    BY <1>4, <1>5, <2>1, <2>2, SentNow
<1> PICK j : j = Len(buffer[c]) + 1
  OBVIOUS
<1>8. \A a, i, v : InBuffer(a, i, v)' <=> InBuffer(a, i, v) \/ (a = c /\ i = j /\ v = u)
  <2>1. DataTypeOK
    BY <1>1
  <2>2. c \in Channels
    BY <1>4
  <2>3. buffer' = [buffer EXCEPT ![c] = Append(@, u)]
    BY <1>2
  <2> QED
    BY <2>1, <2>2, <2>3, PutBehind
<1>9. \A a, i, v : InSlot(a, i, v)' <=> InSlot(a, i, v)
  BY <1>1, <1>2, <1>4, <1>5, GivenAway
<1>10. \A a, i, v : InResult(a, i, v)' <=> InResult(a, i, v)
  BY <1>2 DEF InResult
<1>11. Arrives(u, "buffer", c, j)
  BY <1>8, <1>9, <1>10 DEF In, Arrives
<1>12. \A v \in Values : Kept(v)
  BY <1>1
<1> QED
  BY <1>6, <1>7, <1>11, <1>12, OneIsSent

\* The value a selection that is not served has to write.
LEMMA HasToSend ==
  ASSUME VInv, NEW p \in Procs, Served(p) = 0, sel[p] \in SelectionsOfChannels, pc[p] # "idle",
         NEW i \in 1..Len(Alts(p)), Alts(p)[i].kind = "write"
  PROVE  /\ slot[p][Alts(p)[i].op] = <<p, round[p], Alts(p)[i].op>>
         /\ ~Sent(slot[p][Alts(p)[i].op])
         /\ slot[p][Alts(p)[i].op] \in Values
         /\ WritesInOp(sel[p], Alts(p)[i].op)
         /\ Alts(p)[i].op \in Ops
<1>1. IInv
  BY DEF VInv, WInv
<1>2. Alts(p)[i].op \in Ops
  BY SelectionFacts DEF Alts
<1>3. slot[p][Alts(p)[i].op] = <<p, round[p], Alts(p)[i].op>>
  BY <1>1, ToSend
<1>4. ~Sent(slot[p][Alts(p)[i].op])
  BY <1>3, NotYetSent
<1>5. WritesInOp(sel[p], Alts(p)[i].op)
  BY WritesFacts DEF Alts
<1>6. round[p] \in Nat
  BY <1>1, IInvFacts DEF ControlTypeOK
<1>7. slot[p][Alts(p)[i].op] \in Values
  BY <1>2, <1>3, <1>6 DEF Values
<1> QED
  BY <1>2, <1>3, <1>4, <1>5, <1>7

LEMMA RefillValues ==
  ASSUME VInv, NEW p \in Procs, Refill(p)
  PROVE  \A v \in Values : Kept(v)'
<1> PICK c : c = Chan(p)
  OBVIOUS
<1> PICK n : n = first[WriterList(c)]
  OBVIOUS
<1> PICK q : q = n[1]
  OBVIOUS
<1> PICK k : k = AltOf(n).op
  OBVIOUS
<1> PICK u : u = slot[q][k]
  OBVIOUS
<1> PICK j : j = Len(buffer[c]) + 1
  OBVIOUS
<1>0. IInv
  BY DEF VInv, WInv
<1>1. /\ ControlTypeOK /\ DataTypeOK /\ ControlOf(p) /\ \A v \in Values : Kept(v)
  BY <1>0, IInvFacts DEF VInv
<1>2. /\ pc[p] = "refill" /\ n # Null /\ avail[q]
      /\ buffer' = [buffer EXCEPT ![c] = Append(@, u)]
      /\ slot' = [slot EXCEPT ![q][k] = Null]
      /\ token' = [token EXCEPT ![q] = n[2], ![p] = at[p]]
      /\ UNCHANGED <<round, sel, results>>
  BY DEF Refill, Enqueued
<1>3. c \in Channels /\ at[p] \in Nat \ {0} /\ Alt(p).kind = "read" /\ Alt(p) = Alts(p)[at[p]]
  <2>1. c \in Channels /\ at[p] \in 1..MaxAlts
    BY <1>0, <1>2, IInvFacts, CriticalFacts DEF Critical
  <2>2. MaxAlts \in Nat
    BY ChannelAssumption DEF ChannelAssumption
  <2> QED
    BY <1>1, <1>2, <2>1, <2>2 DEF ControlOf, Alt, Alts
<1>4. n \in Live /\ ListOf(AltOf(n)) = WriterList(c)
  <2>1. WriterList(c) \in Lists
    BY <1>3 DEF WriterList, Lists
  <2> QED
    BY <1>0, <1>2, <2>1, FirstLive
<1>5. /\ q \in Procs /\ pc[q] # "idle" /\ sel[q] \in SelectionsOfChannels
      /\ n[2] \in 1..Len(Alts(q)) /\ AltOf(n) = Alts(q)[n[2]]
      /\ AltOf(n).kind = "write" /\ k \in Ops
  BY <1>0, <1>4, LiveFacts DEF ListOf, ReaderList, WriterList
<1>6. q # p
  BY <1>1, <1>2 DEF ControlOf
<1>7. Served(q) = 0 /\ token[q] = 0 /\ token[p] = 0
  BY <1>0, <1>1, <1>2, <1>5, ClaimableUnserved DEF ControlOf, Served
<1>8. u = <<q, round[q], k>> /\ ~Sent(u) /\ WritesInOp(sel[q], k)
  <2> PICK i : i = n[2]
    OBVIOUS
  <2>1. i \in 1..Len(Alts(q)) /\ Alts(q)[i].kind = "write" /\ k = Alts(q)[i].op
    BY <1>5
  <2>2. /\ slot[q][Alts(q)[i].op] = <<q, round[q], Alts(q)[i].op>>
        /\ ~Sent(slot[q][Alts(q)[i].op])
        /\ WritesInOp(sel[q], Alts(q)[i].op)
    BY <1>5, <1>7, <2>1, HasToSend
  <2> QED
    BY <2>1, <2>2
<1>9. \A v \in Values : Sent(v)' <=> Sent(v) \/ v = u
  <2>1. ASSUME NEW r \in Procs, NEW o \in Ops
        PROVE  Sending(r, o)' <=> Sending(r, o) \/ (r = q /\ o = k)
    <3>1. token'[r] = IF r = p THEN at[p] ELSE IF r = q THEN n[2] ELSE token[r]
      BY <1>1, <1>2, <1>5 DEF ControlTypeOK
    <3>2. Alts(r)' = Alts(r)
      BY <1>2 DEF Alts
    <3> QED
      BY <1>3, <1>5, <1>6, <1>7, <3>1, <3>2 DEF Sending
  <2>2. UNCHANGED <<results, round>>
    BY <1>2
  <2> QED
    BY <1>5, <1>8, <2>1, <2>2, SentNow
<1>10. \A a, i, v : InBuffer(a, i, v)' <=> InBuffer(a, i, v) \/ (a = c /\ i = j /\ v = u)
  <2>1. DataTypeOK
    BY <1>1
  <2>2. c \in Channels
    BY <1>3
  <2>3. buffer' = [buffer EXCEPT ![c] = Append(@, u)]
    BY <1>2
  <2> QED
    BY <2>1, <2>2, <2>3, PutBehind
<1>11. \A a, i, v : InSlot(a, i, v)' <=> InSlot(a, i, v)
  BY <1>1, <1>2, <1>5, <1>8, GivenAway
<1>12. \A a, i, v : InResult(a, i, v)' <=> InResult(a, i, v)
  BY <1>2 DEF InResult
<1>13. Arrives(u, "buffer", c, j)
  BY <1>10, <1>11, <1>12 DEF In, Arrives
<1>14. \A v \in Values : Kept(v)
  BY <1>1
<1> QED
  BY <1>8, <1>9, <1>13, <1>14, OneIsSent

\* Alternative i of r is given what alternative j of s has in its slot, which
\* gets what was in that of i.
HandsOver(s, j, r, i) ==
  /\ UNCHANGED <<round, sel, buffer, results>>
  /\ \A q \in Procs : token'[q] = IF q = r THEN i ELSE IF q = s THEN j ELSE token[q]
  /\ \A q \in Procs : \A k \in Ops :
       slot'[q][k] = IF q = r /\ k = Alts(r)[i].op THEN slot[s][Alts(s)[j].op]
                     ELSE IF q = s /\ k = Alts(s)[j].op THEN slot[r][Alts(r)[i].op]
                     ELSE slot[q][k]

\* Neither r, with read i, nor s, with write j, was served.
Meets(s, j, r, i) ==
  /\ r # s /\ Served(r) = 0 /\ Served(s) = 0 /\ pc[s] # "idle"
  /\ sel[r] \in SelectionsOfChannels /\ sel[s] \in SelectionsOfChannels
  /\ i \in 1..Len(Alts(r)) /\ Alts(r)[i].kind = "read"
  /\ j \in 1..Len(Alts(s)) /\ Alts(s)[j].kind = "write"

\* Selection r reads what selection s writes, from hand to hand.
LEMMA HandOver ==
  ASSUME VInv, NEW r \in Procs, NEW s \in Procs, NEW i, NEW j,
         Meets(s, j, r, i), HandsOver(s, j, r, i)
  PROVE  \A v \in Values : Kept(v)'
<1> USE DEF Meets
<1> PICK a : a = Alts(r)[i].op
  OBVIOUS
<1> PICK b : b = Alts(s)[j].op
  OBVIOUS
<1> PICK u : u = slot[s][b]
  OBVIOUS
<1>0. /\ UNCHANGED <<round, sel, buffer, results>>
      /\ \A q \in Procs : token'[q] = IF q = r THEN i ELSE IF q = s THEN j ELSE token[q]
      /\ \A q \in Procs : \A k \in Ops :
           slot'[q][k] = IF q = r /\ k = a THEN slot[s][b]
                         ELSE IF q = s /\ k = b THEN slot[r][a] ELSE slot[q][k]
  BY DEF HandsOver
<1>1. IInv /\ \A v \in Values : Kept(v)
  BY DEF VInv, WInv
<1>2. /\ u = <<s, round[s], b>> /\ ~Sent(u) /\ b \in Ops /\ WritesInOp(sel[s], b)
  BY HasToSend
<1>3. a \in Ops /\ slot[r][a] = Null /\ ~WritesInOp(sel[r], a)
  BY <1>1, ToSend, SelectionFacts, WritesFacts DEF Alts
<1>4. \A v \in Values : Sent(v)' <=> Sent(v) \/ v = u
  <2>1. ASSUME NEW q \in Procs, NEW o \in Ops
        PROVE  Sending(q, o)' <=> Sending(q, o) \/ (q = s /\ o = b)
    <3>1. token'[q] = IF q = r THEN i ELSE IF q = s THEN j ELSE token[q]
      BY <1>0
    <3>2. Alts(q)' = Alts(q)
      BY <1>0 DEF Alts
    <3>3. token[r] = 0 /\ token[s] = 0
      BY DEF Served
    <3> QED
      BY <3>1, <3>2, <3>3 DEF Sending
  <2> QED
    BY <1>0, <1>2, <2>1, SentNow
<1>5. \A c, k, v : InBuffer(c, k, v)' <=> InBuffer(c, k, v)
  BY <1>0 DEF InBuffer
<1>6. \A q, k : \A v \in Values : InSlot(q, k, v)' <=> InSlot(q, k, v) \/ (q = r /\ k = a /\ v = u)
  <2> SUFFICES ASSUME NEW q \in Procs, NEW k \in Ops, NEW v \in Values
               PROVE  InSlot(q, k, v)' <=> InSlot(q, k, v) \/ (q = r /\ k = a /\ v = u)
    BY <1>3 DEF InSlot
  <2>1. v # Null
    BY NullNoValue
  <2>2. WritesInOp(sel[q], k)' <=> WritesInOp(sel[q], k)
    BY <1>0
  <2>3. slot'[q][k] = IF q = r /\ k = a THEN u
                      ELSE IF q = s /\ k = b THEN slot[r][a] ELSE slot[q][k]
    BY <1>0
  <2> QED
    BY <1>2, <1>3, <2>1, <2>2, <2>3 DEF InSlot
<1>7. \A q, k, v : InResult(q, k, v)' <=> InResult(q, k, v)
  BY <1>0 DEF InResult
<1>8. Arrives(u, "slot", r, a)
  BY <1>5, <1>6, <1>7 DEF In, Arrives
<1>9. \A v \in Values : Kept(v)
  BY <1>1
<1> QED
  BY <1>2, <1>4, <1>8, <1>9, OneIsSent

\* A submission that meets a waiting peer: one of the two reads what the other
\* writes, and the buffer, if there is one, is empty.
LEMMA Meeting ==
  ASSUME WInv, NEW p \in Procs, MeetPeer(p)
  PROVE  /\ Empty(Chan(p))
         /\ \E r, s \in Procs : \E i, j : /\ Meets(s, j, r, i) /\ HandsOver(s, j, r, i)
                                        /\ p \in {r, s} /\ Alts(r)[i].chan = Chan(p)
<1> PICK l : l = PeerList(Alt(p))
  OBVIOUS
<1> PICK n : n = first[l]
  OBVIOUS
<1> PICK q : q = n[1]
  OBVIOUS
<1> PICK j : j = n[2]
  OBVIOUS
<1> PICK k : k = AltOf(n).op
  OBVIOUS
<1> PICK h : h = Alt(p).op
  OBVIOUS
<1> PICK i : i = at[p]
  OBVIOUS
<1>0. IInv /\ ReadsFrom(p)
  BY DEF WInv, Met
<1>1. ControlTypeOK /\ DataTypeOK /\ ControlOf(p)
  BY <1>0, IInvFacts
<1>2. /\ pc[p] = "scan" /\ n # Null /\ avail[q] /\ CallerAvailable(p)
      /\ slot' = [slot EXCEPT ![p][h] = slot[q][k], ![q][k] = slot[p][h]]
      /\ token' = [token EXCEPT ![q] = j, ![p] = i]
      /\ UNCHANGED <<round, sel, buffer, results>>
  BY DEF MeetPeer, BothContextsLocked, First
<1>3. /\ l \in Lists /\ h \in Ops /\ sel[p] \in SelectionsOfChannels /\ i \in 1..Len(Alts(p))
      /\ Alt(p) = Alts(p)[i] /\ Alt(p).kind \in {"read", "write"}
  BY <1>0, <1>2, IInvFacts, CriticalFacts DEF Critical, Alt, Alts
<1>4. n \in Live /\ ListOf(AltOf(n)) = l
  BY <1>0, <1>2, <1>3, FirstLive
<1>5. /\ q \in Procs /\ pc[q] # "idle" /\ sel[q] \in SelectionsOfChannels
      /\ j \in 1..Len(Alts(q)) /\ AltOf(n) = Alts(q)[j]
      /\ AltOf(n).kind \in {"read", "write"} /\ k \in Ops
  BY <1>0, <1>4, LiveFacts
<1>6. q # p
  <2>1. n = First(p) /\ BothContextsLocked(p)
    BY DEF MeetPeer, First
  <2> QED
    BY <1>1, <1>2, <2>1 DEF BothContextsLocked, WithOwnContext, ControlOf
<1>7. Served(p) = 0 /\ Served(q) = 0 /\ pc[p] # "idle"
  BY <1>0, <1>2, <1>5, ClaimableUnserved, SubmittingUnserved
<1>8. Alt(p).kind = "write" <=> AltOf(n).kind = "read"
  BY <1>3, <1>4, <1>5, PeerKinds
<1>9. \A r \in Procs : token'[r] = IF r = p THEN i ELSE IF r = q THEN j ELSE token[r]
  BY <1>1, <1>2, <1>5, <1>6 DEF ControlTypeOK
<1>10. \A r \in Procs : \A o \in Ops :
         slot'[r][o] = IF r = p /\ o = h THEN slot[q][k]
                       ELSE IF r = q /\ o = k THEN slot[p][h] ELSE slot[r][o]
  BY <1>1, <1>2, <1>3, <1>5, <1>6 DEF DataTypeOK
<1>11. UNCHANGED <<round, sel, buffer, results>>
  BY <1>2
<1>12. h = Alts(p)[i].op /\ k = Alts(q)[j].op
  BY <1>3, <1>5
<1>13. AltOf(n).chan = Chan(p) /\ Chan(p) = Alt(p).chan /\ Chan(p) \in Channels
  <2>1. Chan(p) \in Channels
    BY <1>0, <1>2, IInvFacts, CriticalFacts DEF Critical
  <2> QED
    BY <1>3, <1>4, <1>5, <2>1 DEF ListOf, PeerList, ReaderList, WriterList, Chan
<1>14. CASE Alt(p).kind = "read"
  <2>1. Alts(p)[i].kind = "read" /\ Alts(q)[j].kind = "write"
    BY <1>3, <1>5, <1>8, <1>14
  <2>2. HandsOver(q, j, p, i)
    BY <1>9, <1>10, <1>11, <1>12 DEF HandsOver
  <2>3. Meets(q, j, p, i)
    BY <1>3, <1>5, <1>6, <1>7, <2>1 DEF Meets
  <2>4. Alts(p)[i].chan = Chan(p)
    BY <1>3, <1>13
  <2>5. Empty(Chan(p))
    <3>1. BuffSize[Chan(p)] = 0
      BY <1>0, <1>2, <1>14 DEF ReadsFrom
    <3>2. Len(buffer[Chan(p)]) <= 0 /\ buffer[Chan(p)] \in Seq(Values)
      BY <1>1, <1>13, <3>1, ChannelAssumption DEF ChannelAssumption, DataTypeOK
    <3> QED
      BY <3>2, EmptyLen DEF Empty
  <2> QED
    BY <1>5, <2>2, <2>3, <2>4, <2>5
<1>15. CASE Alt(p).kind = "write"
  <2>1. Alts(q)[j].kind = "read" /\ Alts(p)[i].kind = "write"
    BY <1>3, <1>5, <1>8, <1>15
  <2>2. HandsOver(p, i, q, j)
    BY <1>6, <1>9, <1>10, <1>11, <1>12 DEF HandsOver
  <2>3. Meets(p, i, q, j)
    BY <1>3, <1>5, <1>6, <1>7, <2>1 DEF Meets
  <2>4. Alts(q)[j].chan = Chan(p)
    BY <1>5, <1>13
  <2>5. Empty(Chan(p))
    <3>1. n \in Waiting("read", Chan(p))
      BY <1>2, <1>4, <1>5, <1>13, <2>1 DEF Waiting, Live
    <3> QED
      BY <1>13, <3>1 DEF WInv, Met, MetOf
  <2> QED
    BY <1>5, <2>2, <2>3, <2>4, <2>5
<1> QED
  BY <1>3, <1>14, <1>15

LEMMA MeetPeerValues ==
  ASSUME VInv, NEW p \in Procs, MeetPeer(p)
  PROVE  \A v \in Values : Kept(v)'
BY Meeting, HandOver DEF VInv

\* The oldest value in the buffer goes to the slot of the read.
LEMMA TakeBufferedValues ==
  ASSUME VInv, NEW p \in Procs, TakeBuffered(p)
  PROVE  \A v \in Values : Kept(v)'
<1> PICK c : c = Chan(p)
  OBVIOUS
<1> PICK h : h = Alt(p).op
  OBVIOUS
<1> PICK u : u = Head(buffer[c])
  OBVIOUS
<1>0. IInv
  BY DEF VInv, WInv
<1>1. ControlTypeOK /\ DataTypeOK /\ ControlOf(p)
  BY <1>0, IInvFacts
<1>2. /\ pc[p] = "buffer" /\ buffer[c] # <<>> /\ CallerAvailable(p)
      /\ buffer' = [buffer EXCEPT ![c] = Tail(@)]
      /\ slot' = [slot EXCEPT ![p][h] = u]
      /\ token' = token \/ token' = [token EXCEPT ![p] = at[p]]
      /\ UNCHANGED <<round, sel, results>>
  BY DEF TakeBuffered, Dequeued, Empty
<1>3. /\ c \in Channels /\ h \in Ops /\ sel[p] \in SelectionsOfChannels
      /\ at[p] \in 1..Len(Alts(p)) /\ Alt(p).kind = "read" /\ Alt(p) = Alts(p)[at[p]]
  BY <1>0, <1>1, <1>2, IInvFacts, CriticalFacts DEF Critical, Alt, Alts, ControlOf
<1>4. Served(p) = 0 /\ token[p] = 0
  BY <1>0, <1>2, SubmittingUnserved
<1>5. ~WritesInOp(sel[p], h) /\ slot[p][h] = Null
  BY <1>0, <1>3, <1>4, WritesFacts, ToSend DEF Alts
<1>6. \A v \in Values : Sent(v)' <=> Sent(v)
  <2>1. ASSUME NEW r \in Procs, NEW o \in Ops
        PROVE  Sending(r, o)' <=> Sending(r, o)
    <3>1. token'[r] = token[r] \/ (r = p /\ token'[r] = at[p])
      BY <1>1, <1>2 DEF ControlTypeOK
    <3>2. Alts(r)' = Alts(r)
      BY <1>2 DEF Alts
    <3> QED
      BY <1>3, <1>4, <3>1, <3>2 DEF Sending
  <2>2. UNCHANGED <<results, round>>
    BY <1>2
  <2> QED
    BY <2>1, <2>2, SentSame
<1>7. /\ buffer[c] \in Seq(Values) /\ Len(buffer[c]) \in Nat \ {0}
      /\ u = buffer[c][1] /\ u \in Values
      /\ Len(buffer'[c]) = Len(buffer[c]) - 1 /\ buffer'[c] \in Seq(Values)
      /\ \A i \in 1..(Len(buffer[c]) - 1) : buffer'[c][i] = buffer[c][i + 1]
  <2> PICK b : b = buffer[c]
    OBVIOUS
  <2>1. b \in Seq(Values) /\ buffer'[c] = Tail(b) /\ b # <<>> /\ u = Head(b)
    BY <1>1, <1>2, <1>3 DEF DataTypeOK
  <2>2. Len(b) \in Nat \ {0} /\ u = b[1] /\ 1 \in 1..Len(b)
    BY <2>1
  <2>3. u \in Values
    BY <2>1, <2>2
  <2>4. /\ Tail(b) \in Seq(Values) /\ Len(Tail(b)) = Len(b) - 1
        /\ \A i \in 1..(Len(b) - 1) : Tail(b)[i] = b[i + 1]
    BY <2>1, <2>2
  <2> QED
    BY <2>1, <2>2, <2>3, <2>4
<1>8. \A i, v : InBuffer(c, i, v)' <=> i \in Nat \ {0} /\ InBuffer(c, i + 1, v)
  <2> SUFFICES ASSUME NEW i, NEW v
               PROVE  i \in DOMAIN buffer'[c] /\ buffer'[c][i] = v <=>
                        i \in Nat \ {0} /\ i + 1 \in DOMAIN buffer[c] /\ buffer[c][i + 1] = v
    BY <1>3 DEF InBuffer
  <2>1. i \in DOMAIN buffer'[c] <=> i \in 1..(Len(buffer[c]) - 1)
    BY <1>7
  <2>2. i \in 1..(Len(buffer[c]) - 1) <=> i \in Nat \ {0} /\ i + 1 \in DOMAIN buffer[c]
    BY <1>7
  <2> QED
    BY <1>7, <2>1, <2>2
<1>9. \A a, i, v : a # c => (InBuffer(a, i, v)' <=> InBuffer(a, i, v))
  <2>1. \A a \in Channels \ {c} : buffer'[a] = buffer[a]
    BY <1>1, <1>2 DEF DataTypeOK
  <2> QED
    BY <2>1 DEF InBuffer
<1>10. \A q, k : \A v \in Values : InSlot(q, k, v)' <=> InSlot(q, k, v) \/ (q = p /\ k = h /\ v = u)
  <2> SUFFICES ASSUME NEW q \in Procs, NEW k \in Ops, NEW v \in Values
               PROVE  InSlot(q, k, v)' <=> InSlot(q, k, v) \/ (q = p /\ k = h /\ v = u)
    BY <1>3 DEF InSlot
  <2>1. v # Null
    BY NullNoValue
  <2>2. WritesInOp(sel[q], k)' <=> WritesInOp(sel[q], k)
    BY <1>2
  <2>3. slot'[q][k] = IF q = p /\ k = h THEN u ELSE slot[q][k]
    BY <1>1, <1>2, <1>3 DEF DataTypeOK
  <2> QED
    BY <1>5, <2>1, <2>2, <2>3 DEF InSlot
<1>11. \A q, k, v : InResult(q, k, v)' <=> InResult(q, k, v)
  BY <1>2 DEF InResult
<1>12. In("buffer", c, 1, u)
  BY <1>3, <1>7 DEF In, InBuffer
<1>13. ASSUME NEW v \in Values
       PROVE  Kept(v)'
  <2>1. Kept(v) /\ (Sent(v)' <=> Sent(v))
    BY <1>6 DEF VInv
  <2>2. CASE ~Sent(v)
    <3>1. \A w, a, i : ~In(w, a, i, v)
      BY <2>1, <2>2 DEF Kept
    <3>2. v # u
      BY <1>12, <3>1
    <3>3. \A w, a, i : ~In(w, a, i, v)'
      <4>1. \A a, i : ~InBuffer(a, i, v)'
        BY <1>8, <1>9, <3>1 DEF In
      <4> QED
        BY <1>10, <1>11, <3>1, <3>2, <4>1 DEF In
    <3> QED
      BY <2>1, <2>2, <3>3 DEF Kept
  <2>3. CASE Sent(v) /\ v = u
    <3>1. \A x, b, i : In(x, b, i, v) => x = "buffer" /\ b = c /\ i = 1
      BY <1>12, <2>1, <2>3 DEF Kept
    <3>2. In("slot", p, h, v)'
      BY <1>3, <1>10, <2>3 DEF In
    <3>3. \A a, i : ~InBuffer(a, i, v)'
      <4>1. ASSUME NEW i, i \in Nat \ {0}, InBuffer(c, i + 1, v) PROVE FALSE
        <5>0. In("buffer", c, i + 1, v)
          BY <4>1 DEF In
        <5>1. i + 1 = 1
          BY <3>1, <5>0
        <5> QED
          BY <4>1, <5>1
      <4> QED
        BY <1>8, <1>9, <3>1, <4>1 DEF In
    <3>4. \A x, b, i : In(x, b, i, v)' => x = "slot" /\ b = p /\ i = h
      BY <1>10, <1>11, <3>1, <3>3 DEF In
    <3> QED
      BY <2>1, <2>3, <3>2, <3>4 DEF Kept
  <2>4. CASE Sent(v) /\ v # u
    <3>1. PICK w, a, i : /\ In(w, a, i, v)
                         /\ \A x, b, j : In(x, b, j, v) => x = w /\ b = a /\ j = i
      BY <2>1, <2>4 DEF Kept
    <3>2. CASE w = "buffer" /\ a = c
      <4>1. i \in 1..Len(buffer[c]) /\ buffer[c][i] = v
        BY <1>7, <3>1, <3>2 DEF In, InBuffer
      <4>2. i # 1
        BY <1>7, <2>4, <4>1
      <4> PICK m : m = i - 1
        OBVIOUS
      <4>3. m \in Nat \ {0} /\ m + 1 = i
        BY <1>7, <4>1, <4>2
      <4>4. In("buffer", c, m, v)'
        BY <1>8, <3>1, <3>2, <4>3 DEF In
      <4>5. \A b, j : InBuffer(b, j, v)' => b = c /\ j = m
        <5>1. ASSUME NEW j, j \in Nat \ {0}, InBuffer(c, j + 1, v) PROVE j = m
          <6>0. In("buffer", c, j + 1, v)
            BY <5>1 DEF In
          <6>1. j + 1 = i
            BY <3>1, <6>0
          <6> QED
            BY <4>3, <5>1, <6>1
        <5>2. ASSUME NEW b, NEW j, InBuffer(b, j, v) PROVE b = c
          BY <3>1, <3>2, <5>2 DEF In
        <5> QED
          BY <1>8, <1>9, <5>1, <5>2
      <4>6. \A x, b, j : In(x, b, j, v)' => x = "buffer" /\ b = c /\ j = m
        BY <1>10, <1>11, <2>4, <3>1, <3>2, <4>5 DEF In
      <4> QED
        BY <2>1, <2>4, <4>4, <4>6 DEF Kept
    <3>3. CASE ~(w = "buffer" /\ a = c)
      <4>1. \A j : ~InBuffer(c, j, v)
        BY <3>1, <3>3 DEF In
      <4>2. \A b, j : InBuffer(b, j, v)' <=> InBuffer(b, j, v)
        BY <1>8, <1>9, <4>1
      <4>3. \A x, b, j : In(x, b, j, v)' <=> In(x, b, j, v)
        BY <1>10, <1>11, <2>4, <4>2 DEF In
      <4> QED
        BY <2>1, <4>3, StaysPut
    <3> QED
      BY <3>2, <3>3
  <2> QED
    BY <2>2, <2>3, <2>4
<1> QED
  BY <1>13

\* A selection begins: its writes have their values, no one has been sent.
LEMMA BeginValues ==
  ASSUME VInv, NEW p \in Procs, Begin(p)
  PROVE  \A v \in Values : Kept(v)'
<1>0. IInv
  BY DEF VInv, WInv
<1>1. ControlTypeOK /\ DataTypeOK /\ ControlOf(p) /\ SettledOf(p)
  BY <1>0, IInvFacts
<1> PICK s : /\ sel' = [sel EXCEPT ![p] = s]
             /\ slot' = [slot EXCEPT ![p] =
                           [k \in Ops |-> IF WritesInOp(s, k)
                                          THEN <<p, round[p] + 1, k>> ELSE Null]]
  BY DEF Begin
<1>2. /\ pc[p] = "idle" /\ round' = [round EXCEPT ![p] = @ + 1]
      /\ UNCHANGED <<buffer, token, results>>
  BY DEF Begin, chanVars
<1>3. token[p] = 0 /\ sel[p] = NoSelection /\ Served(p) = 0
  BY <1>1, <1>2 DEF ControlOf, Served
<1>4. \A k \in Ops : slot[p][k] = Null
  <2>1. \A k \in Ops : ~WritesInOp(NoSelection, k)
    BY DEF WritesInOp, NoSelection
  <2> QED
    BY <1>1, <1>3, <2>1 DEF SettledOf, MovedOnce, Moved, Untouched
<1>5. \A k \in Ops : slot'[p][k] # Null => WritesInOp(sel'[p], k)
  BY <1>1 DEF ControlTypeOK, DataTypeOK
<1>6. \A q \in Procs \ {p} : sel'[q] = sel[q] /\ slot'[q] = slot[q] /\ round'[q] = round[q]
  BY <1>1, <1>2 DEF ControlTypeOK, DataTypeOK
<1>7. ASSUME NEW v \in Values
      PROVE  Kept(v)'
  <2>1. v # Null /\ v[1] \in Procs
    BY NullNoValue DEF Values
  <2>2. Sent(v)' <=> Sent(v)
    <3>1. CASE v[1] = p
      BY <1>2, <1>3, <3>1 DEF Sent
    <3>2. CASE v[1] # p
      BY <1>2, <1>6, <2>1, <3>2 DEF Sent, Alts
    <3> QED
      BY <3>1, <3>2
  <2>3. \A a, i : InBuffer(a, i, v)' <=> InBuffer(a, i, v)
    BY <1>2 DEF InBuffer
  <2>4. \A q, k : InSlot(q, k, v)' <=> InSlot(q, k, v)
    <3> SUFFICES ASSUME NEW q \in Procs, NEW k \in Ops
                 PROVE  InSlot(q, k, v)' <=> InSlot(q, k, v)
      BY DEF InSlot
    <3>1. CASE q = p
      BY <1>4, <1>5, <2>1, <3>1 DEF InSlot
    <3>2. CASE q # p
      BY <1>6, <3>2 DEF InSlot
    <3> QED
      BY <3>1, <3>2
  <2>5. \A a, i : InResult(a, i, v)' <=> InResult(a, i, v)
    BY <1>2 DEF InResult
  <2>6. \A w, a, i : In(w, a, i, v)' <=> In(w, a, i, v)
    BY <2>3, <2>4, <2>5 DEF In
  <2>7. Kept(v)
    BY DEF VInv
  <2> QED
    BY <2>2, <2>6, <2>7, StaysPut
<1> QED
  BY <1>7

\* A selection that returns leaves its result behind those it has.
LEMMA Returning ==
  ASSUME VInv, NEW p \in Procs, Return(p)
  PROVE  /\ sel[p] \in SelectionsOfChannels /\ token[p] \in 1..Len(Alts(p)) /\ token[p] # 0
         /\ Served(p) = token[p] /\ Alts(p)[token[p]].op \in Ops
         /\ \E e, m :
              /\ m = round[p]
              /\ \A i \in DOMAIN results[p] : results'[p][i] = results[p][i] /\ i \in Nat /\ i < m
              /\ \A i : i \in DOMAIN results'[p] <=> i \in DOMAIN results[p] \/ i = m
              /\ results'[p][m] = e /\ m \notin DOMAIN results[p] /\ m \in Nat
              /\ Alts(p)[token[p]].kind = "read" =>
                   /\ e.kind = "read" /\ e.chan = Alts(p)[token[p]].chan
                   /\ e.val = slot[p][Alts(p)[token[p]].op]
              /\ Alts(p)[token[p]].kind = "write" =>
                   /\ e.kind = "write"
                   /\ e.val = <<p, round[p], Alts(p)[token[p]].op>>
              /\ Alts(p)[token[p]].kind \notin {"read", "write"} => e.kind = "nothing"
<1> PICK t : t = token[p]
  OBVIOUS
<1> PICK a : a = Alts(p)[t]
  OBVIOUS
<1> PICK u : u = slot[p][a.op]
  OBVIOUS
<1> PICK m : m = Len(results[p]) + 1
  OBVIOUS
<1> PICK e : e = CASE a.kind = "read" -> [kind |-> "read", chan |-> a.chan, val |-> u]
                   [] a.kind = "write" ->
                        [kind |-> "write", chan |-> a.chan, val |-> <<p, round[p], a.op>>]
                   [] OTHER -> [kind |-> "nothing"]
  OBVIOUS
<1>0. IInv
  BY DEF VInv, WInv
<1>1. ControlTypeOK /\ DataTypeOK /\ ControlOf(p) /\ SettledOf(p) /\ CountedOf(p)
  BY <1>0, IInvFacts DEF VInv, Counted
<1>2. t # 0 /\ results' = [results EXCEPT ![p] = Append(@, e)]
  BY DEF Return
<1>3. /\ pc[p] # "idle" /\ sel[p] \in SelectionsOfChannels /\ t \in 1..Len(Alts(p))
      /\ a.op \in Ops /\ Served(p) = t
  BY <1>1, <1>2, SelectionFacts DEF ControlOf, SettledOf, RoomOf, Served, Alts
<1>4. /\ results[p] \in Seq(Results) /\ DOMAIN results[p] = 1..Len(results[p])
      /\ round[p] \in Nat /\ m = round[p]
  BY <1>1, <1>3 DEF ControlTypeOK, DataTypeOK, CountedOf
<1>5. results'[p] = Append(results[p], e)
  BY <1>1, <1>2 DEF DataTypeOK
<1>6. /\ \A i : i \in DOMAIN results'[p] <=> i \in DOMAIN results[p] \/ i = m
      /\ \A i \in DOMAIN results[p] : results'[p][i] = results[p][i] /\ i \in Nat /\ i < m
      /\ results'[p][m] = e /\ m \notin DOMAIN results[p]
  <2> PICK b : b = results[p]
    OBVIOUS
  <2> PICK d : d = Append(b, e)
    OBVIOUS
  <2>1. b \in Seq(Results) /\ m = Len(b) + 1 /\ DOMAIN b = 1..Len(b) /\ Len(b) \in Nat
    BY <1>4
  <2>2. /\ DOMAIN d = 1..(Len(b) + 1) /\ d[Len(b) + 1] = e
        /\ \A i \in 1..Len(b) : d[i] = b[i]
    BY <2>1
  <2> QED
    BY <1>5, <2>1, <2>2
<1>7. /\ a.kind = "read" => e.kind = "read" /\ e.chan = a.chan /\ e.val = u
      /\ a.kind = "write" => e.kind = "write" /\ e.val = <<p, round[p], a.op>>
      /\ a.kind \notin {"read", "write"} => e.kind = "nothing"
  OBVIOUS
<1> QED
  BY <1>2, <1>3, <1>4, <1>6, <1>7

\* A selection returns: what it read goes from its slot to its result, what it
\* wrote stays where it was sent.
LEMMA ReturnValues ==
  ASSUME VInv, NEW p \in Procs, Return(p)
  PROVE  \A v \in Values : Kept(v)'
<1> PICK t : t = token[p]
  OBVIOUS
<1> PICK a : a = Alts(p)[t]
  OBVIOUS
<1> PICK u : u = slot[p][a.op]
  OBVIOUS
<1>0. IInv
  BY DEF VInv, WInv
<1>1. ControlTypeOK /\ DataTypeOK /\ SettledOf(p)
  BY <1>0, IInvFacts
<1>2. /\ results' = [results EXCEPT ![p] = results'[p]]
      /\ sel' = [sel EXCEPT ![p] = NoSelection]
      /\ token' = [token EXCEPT ![p] = 0]
      /\ slot' = [slot EXCEPT ![p] = EmptySlots]
      /\ UNCHANGED <<buffer, round>>
  BY <1>1 DEF Return, chanVars, DataTypeOK
<1>3. /\ sel[p] \in SelectionsOfChannels /\ t \in 1..Len(Alts(p)) /\ t # 0
      /\ a.op \in Ops /\ Served(p) = t
  BY Returning
<1> PICK e, m :
      /\ m = round[p]
      /\ \A i \in DOMAIN results[p] : results'[p][i] = results[p][i] /\ i \in Nat /\ i < m
      /\ \A i : i \in DOMAIN results'[p] <=> i \in DOMAIN results[p] \/ i = m
      /\ results'[p][m] = e /\ m \notin DOMAIN results[p] /\ m \in Nat
      /\ Alts(p)[token[p]].kind = "read" =>
           /\ e.kind = "read" /\ e.chan = Alts(p)[token[p]].chan
           /\ e.val = slot[p][Alts(p)[token[p]].op]
      /\ Alts(p)[token[p]].kind = "write" =>
           /\ e.kind = "write"
           /\ e.val = <<p, round[p], Alts(p)[token[p]].op>>
      /\ Alts(p)[token[p]].kind \notin {"read", "write"} => e.kind = "nothing"
  BY Returning
<1>4. m = round[p]
  OBVIOUS
<1>5. /\ sel'[p] = NoSelection /\ token'[p] = 0 /\ slot'[p] = EmptySlots
      /\ \A q \in Procs \ {p} : /\ results'[q] = results[q] /\ sel'[q] = sel[q]
                                /\ token'[q] = token[q] /\ slot'[q] = slot[q]
  BY <1>1, <1>2 DEF ControlTypeOK, DataTypeOK
<1>6. /\ \A i : i \in DOMAIN results'[p] <=> i \in DOMAIN results[p] \/ i = m
      /\ \A i \in DOMAIN results[p] : results'[p][i] = results[p][i]
      /\ results'[p][m] = e /\ m \notin DOMAIN results[p]
  OBVIOUS
<1>7. /\ a.kind = "read" => e.kind = "read" /\ e.val = u
      /\ a.kind = "write" => e.kind = "write" /\ e.val = <<p, round[p], a.op>>
      /\ a.kind \notin {"read", "write"} => e.kind = "nothing"
  OBVIOUS
<1>8. ASSUME NEW k \in Ops, slot[p][k] # Null, ~WritesInOp(sel[p], k)
      PROVE  k = a.op /\ a.kind = "read"
  <2>1. Moved(p, k)
    BY <1>1, <1>8 DEF SettledOf, MovedOnce, Untouched
  <2>2. k = a.op /\ a.kind # "nothing"
    BY <1>3, <2>1 DEF Moved
  <2>3. a.kind # "write"
    BY <1>3, <1>8, <2>2, WritesFacts DEF Alts
  <2> QED
    BY <1>3, <2>2, <2>3, SelectionFacts DEF Alts
<1>9. a.kind = "read" => ~WritesInOp(sel[p], a.op)
  BY <1>3, WritesFacts DEF Alts
<1>10. \A v \in Values : Sent(v)' <=> Sent(v)
  <2> SUFFICES ASSUME NEW v \in Values PROVE Sent(v)' <=> Sent(v)
    OBVIOUS
  <2>1. v = <<v[1], v[2], v[3]>> /\ v[1] \in Procs
    BY DEF Values
  <2>2. CASE v[1] # p
    BY <1>2, <1>5, <2>1, <2>2 DEF Sent, Alts
  <2>3. CASE v[1] = p
    <3>1. Sent(v)' <=> /\ v[2] \in DOMAIN results'[p] /\ results'[p][v[2]].kind = "write"
                       /\ results'[p][v[2]].val = v
      BY <1>5, <2>3 DEF Sent
    <3>2. Sent(v) <=> \/ /\ v[2] \in DOMAIN results[p] /\ results[p][v[2]].kind = "write"
                         /\ results[p][v[2]].val = v
                      \/ v[2] = m /\ a.kind = "write" /\ a.op = v[3]
      BY <1>3, <1>4, <2>3 DEF Sent, Alts
    <3>3. e.kind = "write" <=> a.kind = "write"
      BY <1>7
    <3>4. v[2] = m /\ a.kind = "write" => (e.val = v <=> a.op = v[3])
      BY <1>4, <1>7, <2>1, <2>3
    <3> QED
      BY <1>6, <3>1, <3>2, <3>3, <3>4
  <2> QED
    BY <2>2, <2>3
<1>11. \A c, i, v : InBuffer(c, i, v)' <=> InBuffer(c, i, v)
  BY <1>2 DEF InBuffer
<1>12. \A q, k : \A v \in Values :
         InSlot(q, k, v)' <=> InSlot(q, k, v) /\ ~(q = p /\ k = a.op /\ a.kind = "read" /\ v = u)
  <2> SUFFICES ASSUME NEW q \in Procs, NEW k \in Ops, NEW v \in Values
               PROVE  InSlot(q, k, v)' <=>
                        /\ InSlot(q, k, v)
                        /\ ~(q = p /\ k = a.op /\ a.kind = "read" /\ v = u)
    BY DEF InSlot
  <2>1. v # Null
    BY NullNoValue
  <2>2. CASE q = p
    <3>1. ~InSlot(q, k, v)'
      BY <1>5, <2>1, <2>2 DEF InSlot, EmptySlots
    <3>2. InSlot(q, k, v) => k = a.op /\ a.kind = "read" /\ v = u
      BY <1>8, <2>1, <2>2 DEF InSlot
    <3> QED
      BY <2>2, <3>1, <3>2
  <2>3. CASE q # p
    BY <1>5, <2>3 DEF InSlot
  <2> QED
    BY <2>2, <2>3
<1>13. \A q, i, v :
         InResult(q, i, v)' <=> InResult(q, i, v) \/ (q = p /\ i = m /\ a.kind = "read" /\ v = u)
  <2> SUFFICES ASSUME NEW q \in Procs, NEW i, NEW v
               PROVE  InResult(q, i, v)' <=>
                        InResult(q, i, v) \/ (q = p /\ i = m /\ a.kind = "read" /\ v = u)
    BY DEF InResult
  <2>1. CASE q = p
    BY <1>6, <1>7, <2>1 DEF InResult
  <2>2. CASE q # p
    BY <1>5, <2>2 DEF InResult
  <2> QED
    BY <2>1, <2>2
<1>14. ASSUME NEW v \in Values
       PROVE  Kept(v)'
  <2>1. Kept(v) /\ (Sent(v)' <=> Sent(v))
    BY <1>10 DEF VInv
  <2>2. CASE a.kind = "read" /\ v = u
    <3>1. In("slot", p, a.op, v)
      BY <1>3, <1>9, <2>2 DEF In, InSlot
    <3>2. Sent(v) /\ \A x, b, i : In(x, b, i, v) => x = "slot" /\ b = p /\ i = a.op
      BY <2>1, <3>1 DEF Kept
    <3>3. In("result", p, m, v)'
      BY <1>13, <2>2 DEF In
    <3>4. \A b, i : ~InSlot(b, i, v)'
      BY <1>12, <2>2, <3>2 DEF In
    <3>5. \A x, b, i : In(x, b, i, v)' => x = "result" /\ b = p /\ i = m
      BY <1>11, <1>13, <3>2, <3>4 DEF In
    <3> QED
      BY <2>1, <3>2, <3>3, <3>5 DEF Kept
  <2>3. CASE ~(a.kind = "read" /\ v = u)
    <3>1. \A x, b, i : In(x, b, i, v)' <=> In(x, b, i, v)
      BY <1>11, <1>12, <1>13, <2>3 DEF In
    <3> QED
      BY <2>1, <3>1, StaysPut
  <2> QED
    BY <2>2, <2>3
<1> QED
  BY <1>14

-----------------------------------------------------------------------------
(* No value is lost or duplicated.                                         *)

LEMMA NextCounted ==
  ASSUME VInv, NEW p \in Procs, Begin(p) \/ Submit(p) \/ Complete(p)
  PROVE  Counted'
<1>1. IInv /\ ControlTypeOK /\ DataTypeOK /\ ControlOf(p)
  BY IInvFacts DEF VInv, WInv
<1> SUFFICES ASSUME NEW r \in Procs PROVE CountedOf(r)'
  BY DEF Counted
<1>2. CountedOf(r) /\ round[r] \in Nat /\ results[r] \in Seq(Results)
  BY <1>1 DEF VInv, Counted, ControlTypeOK, DataTypeOK
<1>3. CASE Begin(p) /\ r = p
  <2>1. /\ pc[p] = "idle" /\ pc'[p] = "lock" /\ round'[p] = round[p] + 1
        /\ results' = results
    BY <1>1, <1>3 DEF Begin, SubmitNext, ControlTypeOK
  <2> QED
    BY <1>2, <1>3, <2>1 DEF CountedOf
<1>4. CASE Return(p) /\ r = p
  <2> PICK e : results' = [results EXCEPT ![p] = Append(@, e)]
    BY <1>4 DEF Return
  <2>1. pc[p] # "idle" /\ pc'[p] = "idle" /\ round' = round
    BY <1>1, <1>4 DEF Return, ControlTypeOK, ControlOf
  <2>2. results'[p] = Append(results[p], e)
    BY <1>1 DEF DataTypeOK
  <2>3. Len(Append(results[p], e)) = Len(results[p]) + 1
    BY <1>2, <1>4
  <2> QED
    BY <1>2, <1>4, <2>1, <2>2, <2>3 DEF CountedOf
<1>5. CASE r # p
  <2>1. pc'[r] = pc[r]
    BY <1>1, <1>5, OthersStill DEF Still
  <2>2. round'[r] = round[r] /\ results'[r] = results[r]
    <3>1. round' = round \/ \E x : round' = [round EXCEPT ![p] = x]
      BY DEF Begin, Submit, Complete, Lock, TakeBuffered, Refill, RefillNone, DropClaimed,
             MeetPeer, Store, LoseClaim, Park, PassOver, TakeNothing, EndSubmit, Resume,
             ClearWait, Return, procVars
    <3>2. results' = results \/ \E x : results' = [results EXCEPT ![p] = x]
      BY DEF Begin, Submit, Complete, Lock, TakeBuffered, Refill, RefillNone, DropClaimed,
             MeetPeer, Store, LoseClaim, Park, PassOver, TakeNothing, EndSubmit, Resume,
             ClearWait, Return, procVars
    <3> QED
      BY <1>1, <1>5, <3>1, <3>2 DEF ControlTypeOK, DataTypeOK
  <2> QED
    BY <1>2, <2>1, <2>2 DEF CountedOf
<1>6. CASE (Submit(p) \/ Resume(p) \/ ClearWait(p)) /\ r = p
  <2>1. UNCHANGED <<round, results>>
    BY <1>6 DEF Submit, Lock, TakeBuffered, Refill, RefillNone, DropClaimed,
         MeetPeer, Store, LoseClaim, Park, PassOver, TakeNothing, EndSubmit, Resume,
         ClearWait, procVars
  <2>2. pc[p] # "idle"
    BY <1>1, <1>6 DEF ControlOf, Submit, Lock, TakeBuffered, Refill, RefillNone, DropClaimed,
         BothContextsLocked, MeetPeer, Store, LoseClaim, Park, PassOver, TakeNothing, EndSubmit,
         Resume, ClearWait, Unserved, NoPeer
  <2>3. pc'[p] # "idle"
    BY <1>1, <1>6, <2>2 DEF ControlTypeOK, Submit, Lock, TakeBuffered, Refill, RefillNone,
         DropClaimed, MeetPeer, Store, LoseClaim, Park, PassOver, TakeNothing, EndSubmit,
         Resume, ClearWait, Finish, SkipOperation, SubmitNext, procVars
  <2> QED
    BY <1>2, <1>6, <2>1, <2>2, <2>3 DEF CountedOf
<1> QED
  BY <1>3, <1>4, <1>5, <1>6 DEF Complete

LEMMA VInvHolds ==
  ASSUME OrderlyScript
  PROVE  Spec => []VInv
<1>1. Init => Counted /\ \A v \in Values : Kept(v)
  <2> SUFFICES ASSUME Init PROVE Counted /\ \A v \in Values : Kept(v)
    OBVIOUS
  <2>1. Counted
    BY DEF Init, Counted, CountedOf
  <2>2. ASSUME NEW v \in Values
        PROVE  Kept(v)
    <3>1. v[1] \in Procs /\ v # Null
      BY NullNoValue DEF Values
    <3>2. ~Sent(v)
      BY <3>1 DEF Init, Sent
    <3>3. \A w, a, i : ~In(w, a, i, v)
      BY <3>1 DEF Init, In, InBuffer, InSlot, InResult, EmptySlots
    <3> QED
      BY <3>2, <3>3 DEF Kept
  <2> QED
    BY <2>1, <2>2
<1>2. VInv /\ [Next]_vars => (Counted /\ \A v \in Values : Kept(v))'
  <2> SUFFICES ASSUME VInv, [Next]_vars PROVE Counted' /\ \A v \in Values : Kept(v)'
    OBVIOUS
  <2>1. CASE UNCHANGED vars
    <3>1. UNCHANGED <<buffer, slot, sel, results, round, token, pc>>
      BY <2>1 DEF vars, chanVars, procVars
    <3>2. Counted'
      BY <3>1 DEF VInv, Counted, CountedOf
    <3>3. ASSUME NEW v \in Values PROVE Kept(v)'
      <4>1. Sent(v)' <=> Sent(v)
        BY <3>1 DEF Sent, Alts
      <4>2. \A w, a, i : In(w, a, i, v)' <=> In(w, a, i, v)
        BY <3>1 DEF In, InBuffer, InSlot, InResult
      <4> QED
        BY <4>1, <4>2, StaysPut DEF VInv
    <3> QED
      BY <3>2, <3>3
  <2>2. ASSUME NEW p \in Procs, Begin(p) \/ Submit(p) \/ Complete(p)
        PROVE  \A v \in Values : Kept(v)'
    BY <2>2, BeginValues, QuietValues, TakeBufferedValues, RefillValues, MeetPeerValues,
       StoreValues, ReturnValues DEF Submit, Complete
  <2> QED
    BY <2>1, <2>2, NextCounted DEF Next, Terminated
<1> QED
  BY <1>1, <1>2, WInvHolds, PTL DEF Spec, VInv

\* No value is lost, duplicated or made up: whatever the number of coroutines
\* and channels and the sizes of the buffers, a value is in one buffer, one slot
\* of a reader or one result once the select that writes it has been served, and
\* in none before.
THEOREM ValuesKept ==
  ASSUME OrderlyScript
  PROVE  Spec => []ValuesConserved
<1>1. ASSUME VInv
      PROVE  ValuesConserved
  <2> SUFFICES ASSUME NEW v \in ValuesOfWrites
               PROVE  Cardinality(Holders(v)) = IF Sent(v) THEN 1 ELSE 0
    BY DEF ValuesConserved
  <2>1. v \in Values
    <3>1. PICK p \in Procs : v \in {p} \X (1..round[p]) \X (1..MaxAlts)
      BY DEF ValuesOfWrites
    <3>2. round[p] \in Nat
      BY <1>1, IInvFacts DEF VInv, WInv, ControlTypeOK
    <3> QED
      BY <3>1, <3>2 DEF Values, Ops
  <2>2. Kept(v)
    BY <1>1, <2>1 DEF VInv
  <2> QED
    BY <2>2, KeptConserves
<1> QED
  BY <1>1, VInvHolds, PTL

-----------------------------------------------------------------------------
(* In which order the values go.                                           *)

OInv == VInv /\ Ordered

\* What q has in hand through c is no more than it was.
HandKept(q, c) == InHand(q, c)' => InHand(q, c) /\ Hand(q)' = Hand(q)

LEMMA HandFacts ==
  ASSUME IInv, NEW q \in Procs, NEW c, InHand(q, c)
  PROVE  /\ sel[q] \in SelectionsOfChannels /\ Served(q) \in 1..Len(Alts(q))
         /\ Hand(q) \in Values /\ InSlot(q, Alts(q)[Served(q)].op, Hand(q))
<1>1. ControlOf(q) /\ SettledOf(q) /\ DataTypeOK
  BY IInvFacts
<1>2. sel[q] \in SelectionsOfChannels /\ Served(q) \in 1..Len(Alts(q))
  <2>1. CASE token[q] # 0
    BY <1>1, <2>1 DEF ControlOf, SettledOf, RoomOf, Served
  <2>2. CASE token[q] = 0
    <3>1. pc[q] = "refill" /\ Served(q) = at[q]
      BY <2>2 DEF InHand, Served
    <3> QED
      BY <3>1, IInvFacts, CriticalFacts DEF Critical
  <2> QED
    BY <2>1, <2>2
<1> PICK k : k = Alts(q)[Served(q)].op
  OBVIOUS
<1>3. k \in Ops /\ ~WritesInOp(sel[q], k) /\ Hand(q) = slot[q][k]
  BY <1>2, SelectionFacts, WritesFacts DEF Alts, InHand, Hand
<1>4. Moved(q, k)
  BY DEF InHand, Moved
<1>5. slot[q][k] # Null
  BY <1>1, <1>3, <1>4 DEF SettledOf, MovedOnce, Untouched
<1>6. slot[q][k] \in Values
  BY <1>1, <1>3, <1>5 DEF DataTypeOK
<1> QED
  BY <1>2, <1>3, <1>6 DEF InSlot

\* What p is about to send is newer than what p has sent.
LEMMA SentBefore ==
  ASSUME VInv, NEW p \in Procs, Served(p) = 0, pc[p] # "idle", NEW k,
         NEW v \in Values, NEW w, NEW a, NEW i, In(w, a, i, v)
  PROVE  Older(v, <<p, round[p], k>>)
<1>1. Sent(v)
  BY DEF VInv, Kept
<1>2. /\ results[p] \in Seq(Results) /\ DOMAIN results[p] = 1..Len(results[p])
      /\ round[p] \in Nat /\ CountedOf(p) /\ token[p] = 0
  BY IInvFacts DEF VInv, WInv, DataTypeOK, ControlTypeOK, Counted, Served
<1>3. Len(results[p]) \in Nat /\ Len(results[p]) = round[p] - 1
  BY <1>2 DEF CountedOf
<1>4. ASSUME v[1] = p PROVE v[2] < round[p]
  <2>1. v[2] \in DOMAIN results[p]
    BY <1>1, <1>2, <1>4 DEF Sent
  <2> QED
    BY <1>2, <1>3, <2>1
<1> QED
  BY <1>4 DEF Older

LEMMA AllOlder ==
  ASSUME OInv, NEW p \in Procs, Served(p) = 0, pc[p] # "idle", NEW k, NEW u, u = <<p, round[p], k>>
  PROVE  /\ \A c \in Channels : \A j \in DOMAIN buffer[c] : Older(buffer[c][j], u)
         /\ \A q \in Procs : \A c : \A i \in ReadFrom(q, c) : Older(results[q][i].val, u)
         /\ \A q \in Procs : \A c : InHand(q, c) => Older(Hand(q), u)
<1>0. VInv /\ IInv /\ DataTypeOK
  BY IInvFacts DEF OInv, VInv, WInv
<1>1. ASSUME NEW c \in Channels, NEW j \in DOMAIN buffer[c]
      PROVE  Older(buffer[c][j], u)
  <2>1. buffer[c][j] \in Values
    BY <1>0 DEF DataTypeOK
  <2>2. In("buffer", c, j, buffer[c][j])
    BY DEF In, InBuffer
  <2> QED
    BY <1>0, <2>1, <2>2, SentBefore
<1>2. ASSUME NEW q \in Procs, NEW c, NEW i \in ReadFrom(q, c)
      PROVE  Older(results[q][i].val, u)
  <2>1. results[q][i].val \in Values
    BY DEF OInv, Ordered, Delivered, ReadFrom
  <2>2. In("result", q, i, results[q][i].val)
    BY DEF In, InResult, ReadFrom
  <2> QED
    BY <1>0, <2>1, <2>2, SentBefore
<1>3. ASSUME NEW q \in Procs, NEW c, InHand(q, c)
      PROVE  Older(Hand(q), u)
  <2>1. Hand(q) \in Values /\ In("slot", q, Alts(q)[Served(q)].op, Hand(q))
    BY <1>0, <1>3, HandFacts DEF In
  <2> QED
    BY <1>0, <2>1, SentBefore
<1> QED
  BY <1>1, <1>2, <1>3

\* Nothing happens to what goes through c.
LEMMA OrderedSame ==
  ASSUME OInv, NEW c \in Channels, buffer'[c] = buffer[c], results' = results,
         \A q \in Procs : HandKept(q, c)
  PROVE  OrderedOf(c)'
BY DEF OInv, Ordered, OrderedOf, HandKept, ReadFrom

\* A value is put behind those in the buffer of c.
LEMMA OrderedBehind ==
  ASSUME OInv, NEW p \in Procs, Served(p) = 0, pc[p] # "idle", NEW k, NEW u, u = <<p, round[p], k>>,
         NEW c \in Channels, buffer'[c] = Append(buffer[c], u), results' = results,
         \A q \in Procs : HandKept(q, c)
  PROVE  OrderedOf(c)'
<1>1. OrderedOf(c) /\ buffer[c] \in Seq(Values)
  BY IInvFacts DEF OInv, Ordered, VInv, WInv, DataTypeOK
<1>2. /\ \A j \in DOMAIN buffer[c] : Older(buffer[c][j], u)
      /\ \A q \in Procs : \A i \in ReadFrom(q, c) : Older(results[q][i].val, u)
      /\ \A q \in Procs : InHand(q, c) => Older(Hand(q), u)
  BY AllOlder
<1> PICK m : m = Len(buffer[c]) + 1
  OBVIOUS
<1>3. /\ DOMAIN buffer[c] = 1..(m - 1) /\ DOMAIN buffer'[c] = 1..m /\ m \in Nat \ {0}
      /\ \A j \in DOMAIN buffer[c] : buffer'[c][j] = buffer[c][j]
      /\ buffer'[c][m] = u
  BY <1>1
<1>4. \A j \in DOMAIN buffer'[c] : j \in DOMAIN buffer[c] \/ j = m
  BY <1>3
<1>5. \A i, j \in DOMAIN buffer'[c] : i < j => Older(buffer'[c][i], buffer'[c][j])
  <2> SUFFICES ASSUME NEW i \in DOMAIN buffer'[c], NEW j \in DOMAIN buffer'[c], i < j
               PROVE  Older(buffer'[c][i], buffer'[c][j])
    OBVIOUS
  <2>1. i \in DOMAIN buffer[c]
    BY <1>3
  <2> QED
    BY <1>1, <1>2, <1>3, <1>4, <2>1 DEF OrderedOf
<1>6. \A q \in Procs : \A i \in ReadFrom(q, c) : \A j \in DOMAIN buffer'[c] :
        Older(results[q][i].val, buffer'[c][j])
  BY <1>1, <1>2, <1>3, <1>4 DEF OrderedOf
<1>7. \A q \in Procs : InHand(q, c) => \A j \in DOMAIN buffer'[c] : Older(Hand(q), buffer'[c][j])
  BY <1>1, <1>2, <1>3, <1>4 DEF OrderedOf
<1>8. \A q \in Procs : InHand(q, c) => \A i \in ReadFrom(q, c) : Older(results[q][i].val, Hand(q))
  BY <1>1 DEF OrderedOf
<1>9. \A q \in Procs : ReadFrom(q, c)' = ReadFrom(q, c)
  BY DEF ReadFrom
<1> QED
  BY <1>5, <1>6, <1>7, <1>8, <1>9 DEF OrderedOf, HandKept

\* The channels are served in order, and nothing is returned.
LEMMA StillOrdered ==
  ASSUME OInv, results' = results, \A c \in Channels : OrderedOf(c)'
  PROVE  Ordered'
<1>1. Delivered'
  BY DEF OInv, Ordered, Delivered
<1>2. ReadInOrder'
  BY DEF OInv, Ordered, ReadInOrder
<1> QED
  BY <1>1, <1>2 DEF Ordered

\* Who is not touched has in hand what it had.
LEMMA HandSame ==
  ASSUME NEW q \in Procs, NEW c, sel'[q] = sel[q], slot'[q] = slot[q], Served(q)' = Served(q)
  PROVE  HandKept(q, c)
BY DEF HandKept, InHand, Hand, Alts

LEMMA HandOfOthers ==
  ASSUME IInv, NEW p \in Procs, Begin(p) \/ Submit(p) \/ Complete(p),
         NEW q \in Procs, q # p, token'[q] = token[q], slot'[q] = slot[q], NEW c
  PROVE  HandKept(q, c)
<1>1. Still(q)
  BY OthersStill
<1>2. Served(q)' = Served(q)
  BY <1>1 DEF Still, Served
<1> QED
  BY <1>1, <1>2, HandSame DEF Still

\* Who is served by a write has nothing in hand.
LEMMA HandEmpty ==
  ASSUME NEW q \in Procs, NEW c, sel'[q] = sel[q],
         Served(q)' = 0 \/ Alts(q)[Served(q)'].kind # "read"
  PROVE  HandKept(q, c)
BY DEF HandKept, InHand, Alts

LEMMA QuietOrder ==
  ASSUME OInv, NEW p \in Procs,
         \/ Lock(p) \/ RefillNone(p) \/ DropClaimed(p) \/ LoseClaim(p) \/ Park(p)
         \/ PassOver(p) \/ TakeNothing(p) \/ EndSubmit(p) \/ Resume(p) \/ ClearWait(p)
  PROVE  Ordered'
<1>1. IInv /\ ControlTypeOK /\ ControlOf(p)
  BY IInvFacts DEF OInv, VInv, WInv
<1>2. UNCHANGED <<buffer, slot, sel, results>>
  BY DEF Lock, RefillNone, DropClaimed, LoseClaim, Park, PassOver, TakeNothing, EndSubmit,
         Resume, ClearWait, chanVars, procVars
<1>3. ASSUME NEW q \in Procs \ {p}, NEW c
      PROVE  HandKept(q, c)
  <2>1. token'[q] = token[q]
    <3>1. token' = token \/ token' = [token EXCEPT ![p] = at[p]]
      BY DEF Lock, RefillNone, DropClaimed, LoseClaim, Park, PassOver, TakeNothing, EndSubmit,
             Resume, ClearWait, procVars
    <3> QED
      BY <1>1, <3>1 DEF ControlTypeOK
  <2>2. Begin(p) \/ Submit(p) \/ Complete(p)
    BY DEF Submit, Complete
  <2> QED
    BY <1>1, <1>2, <2>1, <2>2, HandOfOthers
<1>4. ASSUME NEW c
      PROVE  HandKept(p, c)
  <2>1. CASE TakeNothing(p)
    <3>1. /\ token'[p] = at[p] /\ Alts(p)[at[p]].kind = "nothing" /\ pc'[p] = "done"
      BY <1>1, <2>1 DEF TakeNothing, ControlTypeOK, Alt, Alts, Finish
    <3>2. Served(p)' = 0 \/ Alts(p)[Served(p)'].kind # "read"
      BY <3>1 DEF Served
    <3> QED
      BY <1>2, <3>2, HandEmpty
  <2>2. CASE RefillNone(p)
    <3>1. token[p] = 0 /\ pc[p] = "refill" /\ token'[p] = at[p] /\ at[p] # 0
      BY <1>1, <2>2 DEF RefillNone, ControlTypeOK, ControlOf, Submitting, Critical
    <3>2. Served(p)' = Served(p)
      BY <3>1 DEF Served
    <3> QED
      BY <1>2, <3>2, HandSame
  <2>3. CASE ~(TakeNothing(p) \/ RefillNone(p) \/ DropClaimed(p) \/ ClearWait(p) \/ Resume(p))
    <3>1. token' = token /\ pc[p] # "refill" /\ pc'[p] # "refill"
      BY <1>1, <2>3 DEF Lock, LoseClaim, Park, PassOver, EndSubmit, Unserved, NoPeer, Finish,
                        SkipOperation, SubmitNext, ControlTypeOK
    <3>2. Served(p)' = Served(p)
      BY <3>1 DEF Served
    <3> QED
      BY <1>2, <3>2, HandSame
  <2>4. CASE DropClaimed(p) \/ ClearWait(p) \/ Resume(p)
    <3>1. UNCHANGED <<token, pc, at>>
      BY <2>4 DEF DropClaimed, ClearWait, Resume, procVars
    <3>2. Served(p)' = Served(p)
      BY <3>1 DEF Served
    <3> QED
      BY <1>2, <3>2, HandSame
  <2> QED
    BY <2>1, <2>2, <2>3, <2>4
<1>5. ASSUME NEW c \in Channels
      PROVE  OrderedOf(c)'
  <2>1. \A q \in Procs : HandKept(q, c)
    BY <1>3, <1>4
  <2> QED
    BY <1>2, <2>1, OrderedSame
<1> QED
  BY <1>2, <1>5, StillOrdered

LEMMA BeginOrder ==
  ASSUME OInv, NEW p \in Procs, Begin(p)
  PROVE  Ordered'
<1>1. IInv /\ ControlTypeOK /\ DataTypeOK /\ ControlOf(p)
  BY IInvFacts DEF OInv, VInv, WInv
<1>2. UNCHANGED <<buffer, token, results>> /\ pc[p] = "idle" /\ pc'[p] = "lock"
  BY <1>1 DEF Begin, chanVars, SubmitNext, ControlTypeOK
<1>3. \A q \in Procs \ {p} : slot'[q] = slot[q]
  BY <1>1 DEF Begin, DataTypeOK
<1>4. ASSUME NEW c
      PROVE  HandKept(p, c)
  <2>1. token'[p] = 0
    BY <1>1, <1>2 DEF ControlOf
  <2>2. Served(p)' = 0
    BY <1>2, <2>1 DEF Served
  <2> QED
    BY <2>2 DEF HandKept, InHand
<1>5. ASSUME NEW c \in Channels
      PROVE  OrderedOf(c)'
  <2>1. \A q \in Procs : HandKept(q, c)
    BY <1>1, <1>2, <1>3, <1>4, HandOfOthers
  <2> QED
    BY <1>2, <2>1, OrderedSame
<1> QED
  BY <1>2, <1>5, StillOrdered

LEMMA StoreOrder ==
  ASSUME OInv, NEW p \in Procs, Store(p)
  PROVE  Ordered'
<1> PICK c : c = Chan(p)
  OBVIOUS
<1> PICK k : k = Alt(p).op
  OBVIOUS
<1> PICK u : u = slot[p][k]
  OBVIOUS
<1>1. IInv /\ ControlTypeOK /\ DataTypeOK
  BY IInvFacts DEF OInv, VInv, WInv
<1>2. /\ pc[p] = "scan" /\ Alt(p).kind = "write" /\ CallerAvailable(p)
      /\ buffer' = [buffer EXCEPT ![c] = Append(@, u)]
      /\ slot' = [slot EXCEPT ![p][k] = Null]
      /\ token' = [token EXCEPT ![p] = at[p]]
      /\ UNCHANGED <<round, sel, results>>
  BY DEF Store, NoPeer, Enqueued
<1>3. Served(p) = 0
  BY <1>1, <1>2, SubmittingUnserved
<1>4. /\ at[p] \in 1..Len(Alts(p)) /\ sel[p] \in SelectionsOfChannels /\ c \in Channels
      /\ Alt(p) = Alts(p)[at[p]] /\ at[p] # 0
  BY <1>1, <1>2, IInvFacts, CriticalFacts DEF Critical, Alt, Alts
<1>5. u = <<p, round[p], k>>
  BY <1>1, <1>2, <1>3, <1>4, ToSend DEF Alts
<1>6. ASSUME NEW q \in Procs \ {p}, NEW d
      PROVE  HandKept(q, d)
  <2>1. token'[q] = token[q] /\ slot'[q] = slot[q]
    BY <1>1, <1>2 DEF ControlTypeOK, DataTypeOK
  <2> QED
    BY <1>1, <2>1, HandOfOthers DEF Submit
<1>7. ASSUME NEW d
      PROVE  HandKept(p, d)
  <2>1. Served(p)' = at[p]
    BY <1>1, <1>2, <1>4 DEF Served, ControlTypeOK
  <2> QED
    BY <1>2, <1>4, <2>1, HandEmpty
<1>8. ASSUME NEW d \in Channels
      PROVE  OrderedOf(d)'
  <2>1. \A q \in Procs : HandKept(q, d)
    BY <1>6, <1>7
  <2>2. buffer'[d] = IF d = c THEN Append(buffer[c], u) ELSE buffer[d]
    BY <1>1, <1>2 DEF DataTypeOK
  <2>3. results' = results /\ pc[p] # "idle"
    BY <1>2
  <2>4. CASE d = c
    BY <1>3, <1>5, <2>1, <2>2, <2>3, <2>4, OrderedBehind
  <2>5. CASE d # c
    BY <2>1, <2>2, <2>3, <2>5, OrderedSame
  <2> QED
    BY <2>4, <2>5
<1> QED
  BY <1>2, <1>8, StillOrdered

LEMMA RefillOrder ==
  ASSUME OInv, NEW p \in Procs, Refill(p)
  PROVE  Ordered'
<1> PICK c : c = Chan(p)
  OBVIOUS
<1> PICK n : n = first[WriterList(c)]
  OBVIOUS
<1> PICK q : q = n[1]
  OBVIOUS
<1> PICK k : k = AltOf(n).op
  OBVIOUS
<1> PICK u : u = slot[q][k]
  OBVIOUS
<1>0. IInv
  BY DEF OInv, VInv, WInv
<1>1. ControlTypeOK /\ DataTypeOK /\ ControlOf(p)
  BY <1>0, IInvFacts
<1>2. /\ pc[p] = "refill" /\ n # Null /\ avail[q]
      /\ buffer' = [buffer EXCEPT ![c] = Append(@, u)]
      /\ slot' = [slot EXCEPT ![q][k] = Null]
      /\ token' = [token EXCEPT ![q] = n[2], ![p] = at[p]]
      /\ UNCHANGED <<round, sel, results>>
  BY DEF Refill, Enqueued
<1>3. c \in Channels /\ at[p] # 0
  BY <1>0, <1>2, IInvFacts, CriticalFacts DEF Critical
<1>4. n \in Live /\ ListOf(AltOf(n)) = WriterList(c)
  <2>1. WriterList(c) \in Lists
    BY <1>3 DEF WriterList, Lists
  <2> QED
    BY <1>0, <1>2, <2>1, FirstLive
<1>5. /\ q \in Procs /\ pc[q] # "idle" /\ sel[q] \in SelectionsOfChannels
      /\ n[2] \in 1..Len(Alts(q)) /\ AltOf(n) = Alts(q)[n[2]]
      /\ AltOf(n).kind = "write" /\ k \in Ops
  BY <1>0, <1>4, LiveFacts DEF ListOf, ReaderList, WriterList
<1>6. q # p
  BY <1>1, <1>2 DEF ControlOf
<1>7. Served(q) = 0 /\ token[p] = 0
  BY <1>0, <1>1, <1>2, <1>5, ClaimableUnserved DEF ControlOf
<1>8. u = <<q, round[q], k>>
  <2> PICK i : i = n[2]
    OBVIOUS
  <2>1. i \in 1..Len(Alts(q)) /\ Alts(q)[i].kind = "write" /\ k = Alts(q)[i].op
    BY <1>5
  <2>2. slot[q][Alts(q)[i].op] = <<q, round[q], Alts(q)[i].op>>
    BY <1>0, <1>5, <1>7, <2>1, ToSend
  <2> QED
    BY <2>1, <2>2
<1>9. \A r \in Procs : /\ token'[r] = IF r = p THEN at[p] ELSE IF r = q THEN n[2] ELSE token[r]
                       /\ r # q => slot'[r] = slot[r]
  BY <1>1, <1>2, <1>5 DEF ControlTypeOK, DataTypeOK
<1>10. ASSUME NEW r \in Procs \ {p, q}, NEW d
       PROVE  HandKept(r, d)
  BY <1>0, <1>9, HandOfOthers DEF Submit
<1>11. ASSUME NEW d
       PROVE  HandKept(p, d)
  <2>1. Served(p)' = Served(p)
    BY <1>2, <1>3, <1>7, <1>9 DEF Served
  <2> QED
    BY <1>2, <1>6, <1>9, <2>1, HandSame
<1>12. ASSUME NEW d
       PROVE  HandKept(q, d)
  <2>1. Served(q)' = n[2]
    BY <1>5, <1>6, <1>9 DEF Served
  <2>2. Alts(q)[Served(q)'].kind # "read" /\ sel'[q] = sel[q]
    BY <1>2, <1>5, <2>1
  <2> QED
    BY <1>5, <2>2, HandEmpty
<1>13. ASSUME NEW d \in Channels
       PROVE  OrderedOf(d)'
  <2>1. \A r \in Procs : HandKept(r, d)
    BY <1>10, <1>11, <1>12
  <2>2. buffer'[d] = IF d = c THEN Append(buffer[c], u) ELSE buffer[d]
    BY <1>1, <1>2 DEF DataTypeOK
  <2>3. results' = results
    BY <1>2
  <2>4. CASE d = c
    BY <1>5, <1>7, <1>8, <2>1, <2>2, <2>3, <2>4, OrderedBehind
  <2>5. CASE d # c
    BY <2>1, <2>2, <2>3, <2>5, OrderedSame
  <2> QED
    BY <2>4, <2>5
<1> QED
  BY <1>2, <1>13, StillOrdered

\* What goes from hand to hand is newer than all that went through the channel:
\* the buffer is empty.
LEMMA MeetPeerOrder ==
  ASSUME OInv, NEW p \in Procs, MeetPeer(p)
  PROVE  Ordered'
<1>0. WInv /\ IInv /\ ControlTypeOK /\ DataTypeOK
  BY IInvFacts DEF OInv, VInv, WInv
<1> PICK c : c = Chan(p)
  OBVIOUS
<1>1. Empty(c) /\ pc[p] = "scan"
  BY <1>0, Meeting DEF MeetPeer
<1> PICK r \in Procs, s \in Procs :
      \E i, j : /\ Meets(s, j, r, i) /\ HandsOver(s, j, r, i)
               /\ p \in {r, s} /\ Alts(r)[i].chan = Chan(p)
  BY <1>0, Meeting
<1> PICK i, j :
      Meets(s, j, r, i) /\ HandsOver(s, j, r, i) /\ p \in {r, s} /\ Alts(r)[i].chan = Chan(p)
  OBVIOUS
<1> PICK k : k = Alts(s)[j].op
  OBVIOUS
<1> PICK u : u = slot[s][k]
  OBVIOUS
<1>2. /\ r # s /\ Served(r) = 0 /\ Served(s) = 0 /\ pc[s] # "idle"
      /\ sel[r] \in SelectionsOfChannels /\ sel[s] \in SelectionsOfChannels
      /\ i \in 1..Len(Alts(r)) /\ Alts(r)[i].kind = "read" /\ Alts(r)[i].chan = c
      /\ j \in 1..Len(Alts(s)) /\ Alts(s)[j].kind = "write" /\ i # 0 /\ j # 0
  BY DEF Meets
<1>3. UNCHANGED <<round, sel, buffer, results>> /\ token'[r] = i /\ token'[s] = j
  BY <1>2 DEF HandsOver
<1>4. u = <<s, round[s], k>>
  BY <1>0, <1>2, ToSend
<1>5. Alts(r)[i].op \in Ops /\ slot'[r][Alts(r)[i].op] = u
  <2>1. Alts(r)[i].op \in Ops
    BY <1>2, SelectionFacts DEF Alts
  <2> QED
    BY <2>1 DEF HandsOver
<1>6. /\ \A d : InHand(r, d)' <=> d = c
      /\ Hand(r)' = u
  <2>1. Served(r)' = i /\ Alts(r)' = Alts(r)
    BY <1>2, <1>3 DEF Served, Alts
  <2> QED
    BY <1>2, <1>5, <2>1 DEF InHand, Hand
<1>7. ASSUME NEW d
      PROVE  HandKept(s, d)
  <2>1. Served(s)' = j /\ sel'[s] = sel[s]
    BY <1>2, <1>3 DEF Served
  <2> QED
    BY <1>2, <2>1, HandEmpty
<1>8. ASSUME NEW q \in Procs \ {r, s}, NEW d
      PROVE  HandKept(q, d)
  <2>1. token'[q] = token[q]
    BY <1>8 DEF HandsOver
  <2>2. slot'[q] = slot[q]
    <3>1. \A o \in Ops : slot'[q][o] = slot[q][o]
      BY <1>8 DEF HandsOver
    <3>2. slot[q] \in [Ops -> Values \cup {Null}] /\ slot'[q] \in [Ops -> Values \cup {Null}]
      BY <1>0, MeetPeerData DEF DataTypeOK
    <3> QED
      BY <3>1, <3>2
  <2>3. q # p
    BY <1>8
  <2> QED
    BY <1>0, <2>1, <2>2, <2>3, HandOfOthers DEF Submit
<1>9. ASSUME NEW d \in Channels, d # c
      PROVE  OrderedOf(d)'
  <2>1. \A q \in Procs : HandKept(q, d)
    BY <1>6, <1>7, <1>8, <1>9 DEF HandKept
  <2> QED
    BY <1>3, <2>1, OrderedSame
<1>10. ASSUME c \in Channels
       PROVE  OrderedOf(c)'
  <2>1. /\ \A q \in Procs : \A e \in ReadFrom(q, c) : Older(results[q][e].val, u)
    BY <1>2, <1>4, AllOlder
  <2>2. OrderedOf(c)
    BY <1>10 DEF OInv, Ordered
  <2>3. DOMAIN buffer'[c] = {}
    BY <1>1, <1>3 DEF Empty
  <2>4. \A q \in Procs : ReadFrom(q, c)' = ReadFrom(q, c)
    BY <1>3 DEF ReadFrom
  <2>5. ASSUME NEW q \in Procs, InHand(q, c)', NEW e \in ReadFrom(q, c)
        PROVE  Older(results[q][e].val, Hand(q)')
    <3>1. CASE q = r
      BY <1>6, <2>1, <3>1
    <3>2. CASE q # r
      <4>1. HandKept(q, c)
        BY <1>7, <1>8, <3>2
      <4>2. InHand(q, c) /\ Hand(q)' = Hand(q)
        BY <2>5, <4>1 DEF HandKept
      <4> QED
        BY <2>2, <4>2 DEF OrderedOf
    <3> QED
      BY <3>1, <3>2
  <2>6. \A q \in Procs : InHand(q, c)' =>
          \A e \in ReadFrom(q, c)' : Older(results[q][e].val, Hand(q)')
    BY <2>4, <2>5
  <2> QED
    BY <1>3, <2>3, <2>6 DEF OrderedOf, Older
<1> QED
  BY <1>3, <1>9, <1>10, StillOrdered

\* The oldest value in the buffer goes to the read.
LEMMA TakeBufferedOrder ==
  ASSUME OInv, NEW p \in Procs, TakeBuffered(p)
  PROVE  Ordered'
<1> PICK c : c = Chan(p)
  OBVIOUS
<1> PICK h : h = Alt(p).op
  OBVIOUS
<1> PICK b : b = buffer[c]
  OBVIOUS
<1>1. IInv /\ ControlTypeOK /\ DataTypeOK /\ ControlOf(p)
  BY IInvFacts DEF OInv, VInv, WInv
<1>2. /\ pc[p] = "buffer" /\ b # <<>> /\ CallerAvailable(p)
      /\ buffer' = [buffer EXCEPT ![c] = Tail(@)]
      /\ slot' = [slot EXCEPT ![p][h] = Head(b)]
      /\ \/ token' = token /\ pc' = [pc EXCEPT ![p] = "refill"] /\ at' = at
         \/ token' = [token EXCEPT ![p] = at[p]]
      /\ UNCHANGED <<round, sel, results>>
  BY DEF TakeBuffered, Dequeued, Empty
<1>3. /\ c \in Channels /\ h \in Ops /\ at[p] # 0 /\ Alt(p).kind = "read" /\ Alt(p).chan = c
      /\ Alt(p) = Alts(p)[at[p]]
  BY <1>1, <1>2, IInvFacts, CriticalFacts DEF Critical, Alt, Alts, ControlOf, Chan
<1>4. token[p] = 0
  BY <1>1, <1>2, SubmittingUnserved
<1>5. Served(p)' = at[p]
  BY <1>1, <1>2, <1>3, <1>4 DEF Served, ControlTypeOK
<1>6. (\A d : InHand(p, d)' <=> d = c) /\ Hand(p)' = b[1]
  <2>1. Alts(p)' = Alts(p) /\ slot'[p][h] = Head(b) /\ Head(b) = b[1]
    BY <1>1, <1>2, <1>3 DEF Alts, DataTypeOK
  <2> QED
    BY <1>3, <1>5, <2>1 DEF InHand, Hand
<1>7. ASSUME NEW q \in Procs \ {p}, NEW d
      PROVE  HandKept(q, d)
  <2>1. token'[q] = token[q] /\ slot'[q] = slot[q]
    BY <1>1, <1>2 DEF ControlTypeOK, DataTypeOK
  <2> QED
    BY <1>1, <2>1, HandOfOthers DEF Submit
<1>8. ASSUME NEW d \in Channels, d # c
      PROVE  OrderedOf(d)'
  <2>1. \A q \in Procs : HandKept(q, d)
    BY <1>6, <1>7, <1>8 DEF HandKept
  <2>2. buffer'[d] = buffer[d]
    BY <1>1, <1>2, <1>8 DEF DataTypeOK
  <2> QED
    BY <1>2, <2>1, <2>2, OrderedSame
<1>9. OrderedOf(c)'
  <2>1. b \in Seq(Values) /\ buffer'[c] = Tail(b) /\ OrderedOf(c)
    BY <1>1, <1>2, <1>3 DEF DataTypeOK, OInv, Ordered
  <2>2. Len(b) \in Nat \ {0} /\ 1 \in DOMAIN b /\ DOMAIN b = 1..Len(b)
    BY <1>2, <2>1
  <2>3. /\ DOMAIN Tail(b) = 1..(Len(b) - 1)
        /\ \A j \in 1..(Len(b) - 1) : Tail(b)[j] = b[j + 1]
    BY <2>1, <2>2
  <2>4. \A j \in DOMAIN buffer'[c] :
          buffer'[c][j] = b[j + 1] /\ j + 1 \in DOMAIN b /\ j \in Nat \ {0}
    BY <2>1, <2>2, <2>3
  <2>5. \A i, j \in DOMAIN b : i < j => Older(b[i], b[j])
    BY <2>1 DEF OrderedOf
  <2>6. \A i, j \in DOMAIN buffer'[c] : i < j => Older(buffer'[c][i], buffer'[c][j])
    <3> SUFFICES ASSUME NEW i \in DOMAIN buffer'[c], NEW j \in DOMAIN buffer'[c], i < j
                 PROVE  Older(buffer'[c][i], buffer'[c][j])
      OBVIOUS
    <3>1. i + 1 < j + 1
      BY <2>4
    <3> QED
      BY <2>4, <2>5, <3>1
  <2>7. \A q \in Procs : \A i \in ReadFrom(q, c) : \A j \in DOMAIN buffer'[c] :
          Older(results[q][i].val, buffer'[c][j])
    BY <2>1, <2>4 DEF OrderedOf
  <2>8. \A q \in Procs : ReadFrom(q, c)' = ReadFrom(q, c)
    BY <1>2 DEF ReadFrom
  <2>9. ASSUME NEW q \in Procs, InHand(q, c)'
        PROVE  /\ \A j \in DOMAIN buffer'[c] : Older(Hand(q)', buffer'[c][j])
               /\ \A i \in ReadFrom(q, c) : Older(results[q][i].val, Hand(q)')
    <3>1. CASE q = p
      <4>1. \A j \in DOMAIN buffer'[c] : Older(b[1], buffer'[c][j])
        <5> SUFFICES ASSUME NEW j \in DOMAIN buffer'[c] PROVE Older(b[1], b[j + 1])
          BY <2>4
        <5>1. 1 < j + 1
          BY <2>4
        <5> QED
          BY <2>2, <2>4, <2>5, <5>1
      <4>2. \A i \in ReadFrom(p, c) : Older(results[p][i].val, b[1])
        BY <2>1, <2>2 DEF OrderedOf
      <4> QED
        BY <1>6, <3>1, <4>1, <4>2
    <3>2. CASE q # p
      <4>1. InHand(q, c) /\ Hand(q)' = Hand(q)
        BY <1>7, <2>9, <3>2 DEF HandKept
      <4> QED
        BY <2>1, <2>4, <4>1 DEF OrderedOf
    <3> QED
      BY <3>1, <3>2
  <2> QED
    BY <1>2, <2>6, <2>7, <2>8, <2>9 DEF OrderedOf, Older
<1> QED
  BY <1>2, <1>8, <1>9, StillOrdered

\* What was in hand is the last result, and is older than what is in the buffer.
LEMMA ReturnOrder ==
  ASSUME OInv, NEW p \in Procs, Return(p)
  PROVE  Ordered'
<1> PICK t : t = token[p]
  OBVIOUS
<1> PICK a : a = Alts(p)[t]
  OBVIOUS
<1>1. VInv /\ IInv /\ ControlTypeOK /\ DataTypeOK
  BY IInvFacts DEF OInv, VInv, WInv
<1>2. /\ results' = [results EXCEPT ![p] = results'[p]]
      /\ pc' = [pc EXCEPT ![p] = "idle"]
      /\ sel' = [sel EXCEPT ![p] = NoSelection]
      /\ token' = [token EXCEPT ![p] = 0]
      /\ slot' = [slot EXCEPT ![p] = EmptySlots]
      /\ UNCHANGED <<buffer, round>>
  BY <1>1 DEF Return, chanVars, DataTypeOK
<1>3. t # 0 /\ Served(p) = t
  BY <1>1, Returning
<1> PICK e, m :
      /\ m = round[p]
      /\ \A i \in DOMAIN results[p] : results'[p][i] = results[p][i] /\ i \in Nat /\ i < m
      /\ \A i : i \in DOMAIN results'[p] <=> i \in DOMAIN results[p] \/ i = m
      /\ results'[p][m] = e /\ m \notin DOMAIN results[p] /\ m \in Nat
      /\ Alts(p)[token[p]].kind = "read" =>
           /\ e.kind = "read" /\ e.chan = Alts(p)[token[p]].chan
           /\ e.val = slot[p][Alts(p)[token[p]].op]
      /\ Alts(p)[token[p]].kind = "write" =>
           /\ e.kind = "write"
           /\ e.val = <<p, round[p], Alts(p)[token[p]].op>>
      /\ Alts(p)[token[p]].kind \notin {"read", "write"} => e.kind = "nothing"
  BY <1>1, Returning
<1>4. /\ \A i \in DOMAIN results[p] : results'[p][i] = results[p][i] /\ i \in Nat /\ i < m
      /\ \A i \in DOMAIN results'[p] : i \in DOMAIN results[p] \/ i = m
      /\ results'[p][m] = e /\ m \in Nat /\ m \notin DOMAIN results[p]
  OBVIOUS
<1>5. e.kind = "read" => InHand(p, e.chan) /\ e.val = Hand(p)
  BY <1>3 DEF InHand, Hand
<1>6. \A q \in Procs \ {p} : /\ results'[q] = results[q] /\ token'[q] = token[q]
                             /\ slot'[q] = slot[q]
  BY <1>1, <1>2 DEF ControlTypeOK, DataTypeOK
<1>7. ASSUME NEW q \in Procs, NEW c
      PROVE  HandKept(q, c) /\ (q = p => ~InHand(q, c)')
  <2>1. CASE q = p
    <3>1. Served(p)' = 0
      BY <1>1, <1>2 DEF Served, ControlTypeOK
    <3> QED
      BY <2>1, <3>1 DEF HandKept, InHand
  <2>2. CASE q # p
    BY <1>1, <1>6, <2>2, HandOfOthers DEF Complete
  <2> QED
    BY <2>1, <2>2
<1>8. ASSUME NEW c, NEW q \in Procs, NEW i \in ReadFrom(q, c)'
      PROVE  \/ i \in ReadFrom(q, c) /\ results'[q][i] = results[q][i]
             \/ /\ q = p /\ i = m /\ results'[q][i] = e
                /\ e.kind = "read" /\ e.chan = c /\ InHand(p, c) /\ e.val = Hand(p)
  <2>1. i \in DOMAIN results'[q] /\ results'[q][i].kind = "read" /\ results'[q][i].chan = c
    BY DEF ReadFrom
  <2>2. CASE q = p
    BY <1>4, <1>5, <2>1, <2>2 DEF ReadFrom
  <2>3. CASE q # p
    BY <1>6, <2>1, <2>3 DEF ReadFrom
  <2> QED
    BY <2>2, <2>3
<1>9. ASSUME NEW c \in Channels
      PROVE  OrderedOf(c)'
  <2>1. OrderedOf(c)
    BY DEF OInv, Ordered
  <2>2. ASSUME NEW q \in Procs, NEW i \in ReadFrom(q, c)', NEW j \in DOMAIN buffer[c]
        PROVE  Older(results'[q][i].val, buffer[c][j])
    BY <1>8, <2>1 DEF OrderedOf
  <2>3. ASSUME NEW q \in Procs, InHand(q, c)'
        PROVE  /\ \A j \in DOMAIN buffer[c] : Older(Hand(q)', buffer[c][j])
               /\ \A i \in ReadFrom(q, c)' : Older(results'[q][i].val, Hand(q)')
    <3>1. InHand(q, c) /\ Hand(q)' = Hand(q) /\ q # p
      BY <1>7, <2>3 DEF HandKept
    <3>2. \A i \in ReadFrom(q, c)' : i \in ReadFrom(q, c) /\ results'[q][i] = results[q][i]
      BY <1>8, <3>1
    <3> QED
      BY <2>1, <3>1, <3>2 DEF OrderedOf
  <2>4. \A i, j \in DOMAIN buffer[c] : i < j => Older(buffer[c][i], buffer[c][j])
    BY <2>1 DEF OrderedOf
  <2> QED
    BY <1>2, <2>2, <2>3, <2>4 DEF OrderedOf, Older
<1>10. Delivered'
  <2> SUFFICES ASSUME NEW q \in Procs, NEW i \in DOMAIN results'[q], results'[q][i].kind = "read"
               PROVE  results'[q][i].val \in Values
    BY DEF Delivered, Values
  <2> PICK c : c = results'[q][i].chan
    OBVIOUS
  <2>1. i \in ReadFrom(q, c)'
    BY DEF ReadFrom
  <2>2. \/ i \in DOMAIN results[q] /\ results'[q][i] = results[q][i]
        \/ results'[q][i] = e /\ InHand(p, c) /\ e.val = Hand(p)
    BY <1>8, <2>1 DEF ReadFrom
  <2>3. CASE i \in DOMAIN results[q] /\ results'[q][i] = results[q][i]
    BY <2>3 DEF OInv, Ordered, Delivered
  <2>4. CASE results'[q][i] = e /\ InHand(p, c) /\ e.val = Hand(p)
    BY <1>1, <2>4, HandFacts
  <2> QED
    BY <2>2, <2>3, <2>4
<1>11. ReadInOrder'
  <2> SUFFICES ASSUME NEW q \in Procs, NEW i \in DOMAIN results'[q], NEW j \in DOMAIN results'[q],
                      i < j, results'[q][i].kind = "read", results'[q][j].kind = "read",
                      results'[q][i].chan = results'[q][j].chan,
                      results'[q][i].val[1] = results'[q][j].val[1]
               PROVE  results'[q][i].val[2] < results'[q][j].val[2]
    BY DEF ReadInOrder
  <2> PICK c : c = results'[q][j].chan
    OBVIOUS
  <2>1. i \in ReadFrom(q, c)' /\ j \in ReadFrom(q, c)'
    BY DEF ReadFrom
  <2>2. CASE j \in ReadFrom(q, c) /\ results'[q][j] = results[q][j]
    <3>1. ~(q = p /\ i = m)
      BY <1>4, <2>2 DEF ReadFrom
    <3>2. i \in ReadFrom(q, c) /\ results'[q][i] = results[q][i]
      BY <1>8, <2>1, <3>1
    <3> QED
      BY <2>2, <3>2 DEF OInv, Ordered, ReadInOrder, ReadFrom
  <2>3. CASE q = p /\ j = m /\ InHand(p, c) /\ results'[q][j] = e /\ e.val = Hand(p)
    <3>1. i # m
      BY <1>4, <2>3
    <3>2. i \in ReadFrom(q, c) /\ results'[q][i] = results[q][i]
      BY <1>8, <2>1, <3>1
    <3>3. c \in Channels
      BY <1>1, <2>3, HandFacts, SelectionFacts DEF InHand, Alts
    <3>4. Older(results[p][i].val, Hand(p))
      BY <2>3, <3>2, <3>3 DEF OInv, Ordered, OrderedOf
    <3> QED
      BY <2>3, <3>2, <3>4 DEF Older
  <2> QED
    BY <1>8, <2>1, <2>2, <2>3
<1> QED
  BY <1>9, <1>10, <1>11 DEF Ordered

LEMMA OInvHolds ==
  ASSUME OrderlyScript
  PROVE  Spec => []OInv
<1>1. Init => Ordered
  <2> SUFFICES ASSUME Init PROVE Ordered
    OBVIOUS
  <2>1. Delivered /\ ReadInOrder
    BY DEF Init, Delivered, ReadInOrder
  <2>2. ASSUME NEW c \in Channels
        PROVE  OrderedOf(c)
    <3>1. DOMAIN buffer[c] = {}
      BY DEF Init
    <3>2. \A q \in Procs : ReadFrom(q, c) = {} /\ ~InHand(q, c)
      BY DEF Init, ReadFrom, InHand, Served
    <3> QED
      BY <3>1, <3>2 DEF OrderedOf
  <2> QED
    BY <2>1, <2>2 DEF Ordered
<1>2. VInv /\ Ordered /\ [Next]_vars => Ordered'
  <2> SUFFICES ASSUME OInv, [Next]_vars PROVE Ordered'
    BY DEF OInv
  <2>1. CASE UNCHANGED vars
    <3>1. UNCHANGED <<buffer, slot, sel, results, token, pc, at>>
      BY <2>1 DEF vars, chanVars, procVars
    <3>2. ASSUME NEW c \in Channels PROVE OrderedOf(c)'
      <4>1. \A q \in Procs : HandKept(q, c)
        BY <3>1, HandSame DEF Served
      <4> QED
        BY <3>1, <4>1, OrderedSame
    <3> QED
      BY <3>1, <3>2, StillOrdered
  <2>2. ASSUME NEW p \in Procs, Begin(p) \/ Submit(p) \/ Complete(p)
        PROVE  Ordered'
    BY <2>2, BeginOrder, QuietOrder, TakeBufferedOrder, RefillOrder, MeetPeerOrder,
       StoreOrder, ReturnOrder DEF Submit, Complete
  <2> QED
    BY <2>1, <2>2 DEF Next, Terminated
<1> QED
  BY <1>1, <1>2, VInvHolds, PTL DEF Spec, OInv

\* Whatever a coroutine reads of another through a channel it reads in the order
\* of the writes: through the buffer, from waiting writers into it, or from hand
\* to hand.
THEOREM ReadsInOrder ==
  ASSUME OrderlyScript
  PROVE  Spec => []ReadInOrder
<1>1. OInv => ReadInOrder
  BY DEF OInv, Ordered
<1> QED
  BY <1>1, OInvHolds, PTL

\* All that holds of select() at all times, with the queues that TLC looks at:
\* those met by following the pointers.
THEOREM InvariantHolds ==
  ASSUME OrderlyScript
  PROVE  Spec => []IInvWalked
<1>1. ASSUME OInv, NobodyStuck
      PROVE  IInvWalked
  <2>1. WInv /\ IInv /\ Met /\ Counted /\ Ordered
    BY <1>1 DEF OInv, VInv, WInv
  <2> PICK q \in [Lists -> Seq(Nodes)] :
           Chains(Lists, Nodes, q) /\ Placed(q) /\ \A l \in Lists : Forward(l) = q[l]
    BY <2>1, QueuesAreWalked
  <2>2. q = [l \in Lists |-> Forward(l)]
    OBVIOUS
  <2>3. QueuesWalked
    BY <2>2 DEF QueuesWalked
  <2> QED
    BY <1>1, <2>1, <2>3 DEF IInv, IInvWalked
<1> QED
  BY <1>1, OInvHolds, NoneStuck, PTL

=============================================================================
