---------------------------- MODULE AtomicSelect ----------------------------
(***************************************************************************)
(* What select() and select_ready() promise: a selection is tried          *)
(* alternative by alternative, one attempt is one step, and whoever is     *)
(* served stops waiting everywhere at that moment.  There are no threads,  *)
(* mutexes, flags or nodes here, only coroutines that wait in the order    *)
(* in which they came.                                                     *)
(*                                                                         *)
(* A read of a full buffer lets the first waiting writer in with a step of *)
(* its own, Restock; until then nobody else gets at the channel.           *)
(***************************************************************************)
EXTENDS Selections

CONSTANTS
  Null,
  Procs,       \* the coroutines
  Script       \* per coroutine, per round: the selections it may make

VARIABLES
  round,       \* round[p]: selections begun
  sel,         \* sel[p]: the selection under way
  tried,       \* tried[p]: how many of its alternatives were not ready
  served,      \* served[p]: the alternative that took effect, 0 if none did
  got,         \* got[p]: the value it received
  waiting,     \* the alternatives <<p, i>> that wait
  ahead,       \* <<m, n>>: m and n wait for the same, and m came first
  buffer,      \* buffer[c]: the values inside
  results      \* results[p]: what the selections of p returned

vars == <<round, sel, tried, served, got, waiting, ahead, buffer, results>>

Alts(p) == sel[p].alts
AltOf(n) == sel[n[1]].alts[n[2]]

\* The next alternative of p, and where it stands in the selection.
Turn(p) == <<p, tried[p] + 1>>
Alt(p) == AltOf(Turn(p))

\* The value alternative n, a write, sends.
Sends(n) == <<n[1], round[n[1]], AltOf(n).op>>

Full(c) == BuffSize[c] # Unbounded /\ Len(buffer[c]) = BuffSize[c]

WaitingIn(l) == {n \in waiting : ListOf(AltOf(n)) = l}

\* n has waited longer than everyone else in its list.
Foremost(n) == \A m \in waiting : <<m, n>> \notin ahead

\* No writer waits beside room in the buffer of c.
Restocked(c) == WaitingIn(WriterList(c)) = {} \/ Full(c)

Init ==
  /\ round = [p \in Procs |-> 0]
  /\ sel = [p \in Procs |-> NoSelection]
  /\ tried = [p \in Procs |-> 0]
  /\ served = [p \in Procs |-> 0]
  /\ got = [p \in Procs |-> Null]
  /\ waiting = {} /\ ahead = {}
  /\ buffer = [c \in Channels |-> <<>>]
  /\ results = [p \in Procs |-> <<>>]

-----------------------------------------------------------------------------
(* What being served means.                                                *)

\* The coroutines ps wait no longer, for none of their alternatives.
Withdraw(ps) ==
  /\ waiting' = {n \in waiting : n[1] \notin ps}
  /\ ahead' = {e \in ahead : e[1][1] \notin ps /\ e[2][1] \notin ps}

\* Alternative n takes effect and receives v.
Serve(n, v) ==
  /\ served' = [served EXCEPT ![n[1]] = n[2]]
  /\ got' = [got EXCEPT ![n[1]] = v]
  /\ tried' = [tried EXCEPT ![n[1]] = 0]
  /\ Withdraw({n[1]})

\* Alternatives m and n take effect, m receives u and n receives v.
ServeBoth(m, u, n, v) ==
  /\ served' = [served EXCEPT ![m[1]] = m[2], ![n[1]] = n[2]]
  /\ got' = [got EXCEPT ![m[1]] = u, ![n[1]] = v]
  /\ tried' = [tried EXCEPT ![m[1]] = 0, ![n[1]] = 0]
  /\ Withdraw({m[1], n[1]})

-----------------------------------------------------------------------------
(* The attempts.                                                           *)

Begin(p) ==
  /\ sel[p] = NoSelection
  /\ round[p] < Len(Script[p])
  /\ \E s \in Script[p][round[p] + 1] : sel' = [sel EXCEPT ![p] = s]
  /\ round' = [round EXCEPT ![p] = @ + 1]
  /\ UNCHANGED <<tried, served, got, waiting, ahead, buffer, results>>

\* It is the turn of an alternative of p that reads or writes.
Attempts(p) ==
  /\ tried[p] < Len(Alts(p)) /\ served[p] = 0
  /\ Alt(p).kind # "nothing"
  /\ Restocked(Alt(p).chan)

CanMeet(p) ==
  /\ WaitingIn(PeerList(Alt(p))) # {}
  /\ Alt(p).kind = "read" => BuffSize[Alt(p).chan] = 0
CanTake(p) == Alt(p).kind = "read" /\ buffer[Alt(p).chan] # <<>>
CanStore(p) == Alt(p).kind = "write" /\ ~CanMeet(p) /\ ~Full(Alt(p).chan)
CanDoNothing(p) == ~CanMeet(p) /\ ~CanTake(p) /\ ~CanStore(p)

\* Hand to hand with the peer that has waited longest.
MeetPeer(p) ==
  /\ Attempts(p) /\ CanMeet(p)
  /\ \E n \in WaitingIn(PeerList(Alt(p))) :
       /\ Foremost(n) /\ n[1] # p
       /\ IF Alt(p).kind = "read"
          THEN ServeBoth(Turn(p), Sends(n), n, Null)
          ELSE ServeBoth(Turn(p), Null, n, Sends(Turn(p)))
  /\ UNCHANGED <<round, sel, buffer, results>>

Take(p) ==
  /\ Attempts(p) /\ CanTake(p)
  /\ Serve(Turn(p), Head(buffer[Alt(p).chan]))
  /\ buffer' = [buffer EXCEPT ![Alt(p).chan] = Tail(@)]
  /\ UNCHANGED <<round, sel, results>>

Store(p) ==
  /\ Attempts(p) /\ CanStore(p)
  /\ Serve(Turn(p), Null)
  /\ buffer' = [buffer EXCEPT ![Alt(p).chan] = Append(@, Sends(Turn(p)))]
  /\ UNCHANGED <<round, sel, results>>

\* Not ready: select() waits for the alternative, select_ready() passes it over.
Unready(p) ==
  /\ Attempts(p) /\ CanDoNothing(p)
  /\ tried' = [tried EXCEPT ![p] = @ + 1]
  /\ IF sel[p].wait
     THEN /\ waiting' = waiting \cup {Turn(p)}
          /\ ahead' = ahead \cup (WaitingIn(ListOf(Alt(p))) \X {Turn(p)})
     ELSE UNCHANGED <<waiting, ahead>>
  /\ UNCHANGED <<round, sel, served, got, buffer, results>>

TakeNothing(p) ==
  /\ tried[p] < Len(Alts(p)) /\ served[p] = 0 /\ Alt(p).kind = "nothing"
  /\ Serve(Turn(p), Null)
  /\ UNCHANGED <<round, sel, buffer, results>>

\* The writer that has waited longest for room in c is let in.
Restock(c) ==
  /\ ~Restocked(c)
  /\ \E n \in WaitingIn(WriterList(c)) :
       /\ Foremost(n)
       /\ Serve(n, Null)
       /\ buffer' = [buffer EXCEPT ![c] = Append(@, Sends(n))]
  /\ UNCHANGED <<round, sel, results>>

Return(p) ==
  LET a == Alts(p)[served[p]] IN
  /\ served[p] # 0
  /\ results' = [results EXCEPT ![p] = Append(@,
       CASE a.kind = "read" -> [kind |-> "read", chan |-> a.chan, val |-> got[p]]
         [] a.kind = "write" ->
              [kind |-> "write", chan |-> a.chan, val |-> Sends(<<p, served[p]>>)]
         [] OTHER -> [kind |-> "nothing"])]
  /\ sel' = [sel EXCEPT ![p] = NoSelection]
  /\ served' = [served EXCEPT ![p] = 0]
  /\ got' = [got EXCEPT ![p] = Null]
  /\ UNCHANGED <<round, tried, waiting, ahead, buffer>>

-----------------------------------------------------------------------------
Next ==
  \/ \E p \in Procs : \/ Begin(p) \/ MeetPeer(p) \/ Take(p) \/ Store(p)
                      \/ Unready(p) \/ TakeNothing(p) \/ Return(p)
  \/ \E c \in Channels : Restock(c)

Spec == Init /\ [][Next]_vars

=============================================================================
