---------------------------- MODULE SelectResult ----------------------------
(***************************************************************************)
(* select_result.hpp: what select() returns, and the questions it answers. *)
(*                                                                         *)
(* The token of the alternative that took effect is decoded into an        *)
(* operation and a channel of it; the result keeps the result_type of the  *)
(* operation, the channel and the value.  All questions are asked by type, *)
(* or with a channel, and a type can be asked for if it is one of the      *)
(* selection's.                                                            *)
(***************************************************************************)
EXTENDS Selections, Integers, FiniteSets

CONSTANTS
  Offered,     \* the selections to look at
  Void,        \* the send_type that has no values
  Value,       \* a value that was read
  MovedOut,    \* what a value leaves behind that was moved
  NoValue      \* the result holds none: of a write, a read of void, nothing

VARIABLES
  sel,         \* the selection
  token,       \* the alternative that took effect, 0 before any did
  result       \* result_: [type, chan, val]

vars == <<sel, token, result>>

ReadResult(T) == [kind |-> "read", type |-> T]
WriteResult(T) == [kind |-> "write", type |-> T]
NoResultT == [kind |-> "nothing", type |-> Void]

\* result_type of the operation that alternative a belongs to.
ResultType(a) ==
  CASE a.kind = "read" -> ReadResult(SendType[a.chan])
    [] a.kind = "write" -> WriteResult(SendType[a.chan])
    [] OTHER -> NoResultT

\* is_alternative
IsAlternative(T) == \E i \in DOMAIN sel.alts : ResultType(sel.alts[i]) = T

Types == {ResultType(sel.alts[i]) : i \in DOMAIN sel.alts}

\* What a result can be.
Results ==
  [type : {ReadResult(SendType[c]) : c \in Channels} \cup
          {WriteResult(SendType[c]) : c \in Channels} \cup {NoResultT},
   chan : Channels \cup {"none"},
   val : {Value, MovedOut, NoValue}]

ASSUME ResultAssumption ==
  /\ Offered \subseteq SelectionsOfChannels
  /\ NoValue \notin Results \cup {Value, MovedOut}

-----------------------------------------------------------------------------
(* From the token to the result.                                           *)

NumAlternatives(k) == Cardinality({i \in DOMAIN sel.alts : sel.alts[i].op = k})

\* A faulty table of base tokens that is one short from the second one on.
BaseTokenShort(k) ==
  IF k = 1 THEN 0 ELSE Cardinality({i \in DOMAIN sel.alts : sel.alts[i].op < k}) - 1

\* select_ops_base_tokens: as many as the operations before k have alternatives.
BaseToken(k) == Cardinality({i \in DOMAIN sel.alts : sel.alts[i].op < k})

\* The alternative that is number i of operation k.
AlternativeOf(k, i) ==
  LET at == {j \in DOMAIN sel.alts : sel.alts[j].op = k} IN
  sel.alts[CHOOSE j \in at : Cardinality({m \in at : m < j}) = i]

Init ==
  /\ sel \in Offered
  /\ token = 0
  /\ result = [type |-> NoResultT, chan |-> "none", val |-> NoValue]

\* get_result of the operation whose tokens t is among.
Complete(t) ==
  /\ token = 0 /\ token' = t
  /\ \E k \in {sel.alts[i].op : i \in DOMAIN sel.alts} :
       LET i == t - 1 - BaseToken(k)
           a == AlternativeOf(k, i)
       IN  /\ i \in 0..(NumAlternatives(k) - 1)
           /\ result' = [type |-> ResultType(a),
                         chan |-> IF a.kind = "nothing" THEN "none" ELSE a.chan,
                         val |-> IF a.kind = "read" /\ SendType[a.chan] # Void
                                 THEN Value ELSE NoValue]
  /\ UNCHANGED sel

-----------------------------------------------------------------------------
(* The questions.  NoValue stands for nullptr, too.                        *)

Is(T) == result.type = T
Received(T) == Is(ReadResult(T))
Sent(T) == Is(WriteResult(T))
HasValue == ~Is(NoResultT)

\* A faulty channel_op_result_base::matches that only looks at the send_type.
TypeMatches(c) == result.type # NoResultT /\ result.type.type = SendType[c]

\* channel_op_result_base::matches, no_result_t::matches
ResultMatches(c) ==
  result.type # NoResultT /\ result.type.type = SendType[c] /\ result.chan = c

Matches(c) == ResultMatches(c)
\* received_from and sent_to take a handle that can be read from; c stands for
\* one of both directions.
ReceivedFrom(c) == Received(SendType[c]) /\ ResultMatches(c)
SentTo(c) == Sent(SendType[c]) /\ ResultMatches(c)

\* get throws bad_select_result_access, get_if returns nullptr.
Throws(T) == ~Is(T)
GetIf(T) == IF Is(T) THEN result ELSE NoValue

GetIfReceived(T) == IF GetIf(ReadResult(T)) # NoValue THEN result.val ELSE NoValue

\* A faulty get_if_received_from that does not look at the channel.
GetIfReceivedAny(c) == GetIfReceived(SendType[c])

GetIfReceivedFrom(c) ==
  IF GetIf(ReadResult(SendType[c])) # NoValue /\ ResultMatches(c)
  THEN result.val ELSE NoValue

\* get_received() of a result that is an rvalue, or to_variant(): the value is
\* moved out.
MoveReceived(T) ==
  /\ token # 0 /\ IsAlternative(ReadResult(T)) /\ T # Void /\ ~Throws(ReadResult(T))
  /\ result' = [result EXCEPT !.val = MovedOut]
  /\ UNCHANGED <<sel, token>>

Next ==
  \/ \E t \in DOMAIN sel.alts : Complete(t)
  \/ \E c \in Channels : MoveReceived(SendType[c])

Spec == Init /\ [][Next]_vars

-----------------------------------------------------------------------------
Effective == sel.alts[token]

\* The channel a question is asked with has a type the selection has.
Asked(c, kinds) == \E k \in kinds : [kind |-> k, type |-> SendType[c]] \in Types

\* A result tells what happened: with every channel that can be asked for,
\* read, written or both, of one type with others or not, in one operation
\* with others or not, the answer is that of the alternative that took effect.
\* "This allows disambiguation between channels of the same `send_type`" (README.md)
ToldApart ==
  token # 0 => \A c \in Channels :
    LET moved == Effective.kind # "nothing" /\ Effective.chan = c IN
    /\ Asked(c, {"read", "write"}) => (Matches(c) <=> moved)
    /\ Asked(c, {"read"}) => (ReceivedFrom(c) <=> moved /\ Effective.kind = "read")
    /\ Asked(c, {"write"}) => (SentTo(c) <=> moved /\ Effective.kind = "write")

\* One type fits and all others are refused: the operation that was served is
\* the only one that get() finds, so that it is known by its type.
OneTypeFits ==
  token # 0 =>
    /\ \A T \in Types : ~Throws(T) <=> T = ResultType(Effective)
    /\ \A i \in DOMAIN sel.alts :
         ~Throws(ResultType(sel.alts[i])) <=> sel.alts[i].op = Effective.op
    /\ NoResultT \in Types => (HasValue <=> Effective.kind # "nothing")

\* A value is found through the type and through the channel it was read
\* from, and through nothing else.
ValueFound ==
  token # 0 => \A c \in Channels : Asked(c, {"read"}) /\ SendType[c] # Void =>
    /\ GetIfReceived(SendType[c]) # NoValue <=>
         Effective.kind = "read" /\ SendType[Effective.chan] = SendType[c]
    /\ GetIfReceivedFrom(c) # NoValue <=>
         Effective.kind = "read" /\ Effective.chan = c

=============================================================================
