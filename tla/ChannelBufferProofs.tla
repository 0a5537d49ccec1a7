------------------------- MODULE ChannelBufferProofs -------------------------
(***************************************************************************)
(* Theorems about ChannelBuffer: the ring implements the FIFO queue.       *)
(***************************************************************************)
EXTENDS ChannelBuffer, SequenceTheorems, TLAPS

RingInv == TypeOK /\ CellsMatchCount

\* A cell of a ring that starts at h, and one after the last.
LEMMA Wrap ==
  ASSUME NEW h \in 0..(Size - 1), NEW i \in 0..Size
  PROVE  (h + i) % Size = IF h + i < Size THEN h + i ELSE h + i - Size
BY RingAssumption, Z3 DEF RingAssumption

\* A sequence that is s with e behind it, and one that is s without its first.
LEMMA IsAppend ==
  ASSUME NEW S, NEW s \in Seq(S), NEW e \in S, NEW t, NEW n \in Nat, n = Len(s),
         t = [i \in 1..(n + 1) |-> t[i]],
         \A i \in 1..n : t[i] = s[i], t[n + 1] = e
  PROVE  t = Append(s, e)
<1>1. \A i \in 1..(n + 1) : i \in 1..n \/ i = n + 1
  OBVIOUS
<1>2. \A i \in 1..n : s[i] \in S
  OBVIOUS
<1>3. \A i \in 1..(n + 1) : t[i] \in S
  BY <1>1, <1>2
<1>4. t \in Seq(S) /\ Len(t) = n + 1
  BY <1>3
<1>5. /\ Append(s, e) \in Seq(S) /\ Len(Append(s, e)) = n + 1
      /\ \A i \in 1..n : Append(s, e)[i] = s[i]
      /\ Append(s, e)[n + 1] = e
  BY AppendProperties
<1>6. \A i \in 1..(n + 1) : t[i] = Append(s, e)[i]
  BY <1>1, <1>5
<1> QED
  BY <1>4, <1>5, <1>6, SeqEqual

LEMMA IsTail ==
  ASSUME NEW S, NEW s \in Seq(S), s # <<>>, NEW t, NEW n \in Nat, n = Len(s) - 1,
         t = [i \in 1..n |-> t[i]], \A i \in 1..n : t[i] = s[i + 1]
  PROVE  t = Tail(s)
<1>1. \A i \in 1..n : i + 1 \in 1..Len(s)
  OBVIOUS
<1>2. \A i \in 1..n : t[i] \in S
  BY <1>1
<1>3. t \in Seq(S) /\ Len(t) = n
  BY <1>2
<1>4. /\ Tail(s) \in Seq(S) /\ Len(Tail(s)) = n
      /\ \A i \in 1..n : t[i] = Tail(s)[i]
  BY HeadTailProperties
<1> QED
  BY <1>3, <1>4, SeqEqual

\* The cells from head on are the cells of the ring, each of them once.
LEMMA CellFacts ==
  ASSUME TypeOK, NEW i \in 1..Size
  PROVE  /\ Cell(i) \in Indices
         /\ Cell(i) = IF head + i - 1 < Size THEN head + i - 1 ELSE head + i - 1 - Size
         /\ \A j \in 1..Size : Cell(j) = Cell(i) => j = i
<1> USE RingAssumption DEF RingAssumption
<1>1. \A j \in 1..Size :
        Cell(j) = IF head + j - 1 < Size THEN head + j - 1 ELSE head + j - 1 - Size
  <2> SUFFICES ASSUME NEW j \in 1..Size
               PROVE  Cell(j) = IF head + j - 1 < Size THEN head + j - 1
                                ELSE head + j - 1 - Size
    OBVIOUS
  <2>1. head \in Nat /\ head + j - 1 \in 0..(2 * Size - 1)
    BY DEF TypeOK, Indices
  <2> QED
    BY <2>1, Z3 DEF Cell
<1>2. head \in 0..(Size - 1)
  BY DEF TypeOK, Indices
<1> QED
  BY <1>1, <1>2 DEF Indices

LEMMA HeadFacts ==
  ASSUME TypeOK
  PROVE  /\ count < Size => FreeCell = Cell(count + 1) /\ FreeCell \in Indices
         /\ head = Cell(1)
         /\ NextHead = IF head + 1 < Size THEN head + 1 ELSE 0
<1> USE RingAssumption DEF RingAssumption
<1>1. count < Size => FreeCell = Cell(count + 1) /\ count + 1 \in 1..Size
  BY DEF TypeOK, FreeCell, Cell, Indices
<1>2. head = Cell(1)
  <2>1. 1 \in 1..Size /\ head \in 0..(Size - 1)
    BY DEF TypeOK, Indices
  <2> QED
    BY <2>1, CellFacts
<1>3. NextHead = IF head + 1 < Size THEN head + 1 ELSE 0
  <2>1. head \in Nat /\ head + 1 \in 0..(2 * Size - 1)
    BY DEF TypeOK, Indices
  <2>2. NextHead = IF head + 1 < Size THEN head + 1 ELSE head + 1 - Size
    BY <2>1, Z3 DEF NextHead
  <2> QED
    BY <2>2 DEF TypeOK, Indices
<1> QED
  BY <1>1, <1>2, <1>3, CellFacts

\* What the buffer holds is a sequence of values.
LEMMA ContentsFacts ==
  ASSUME RingInv
  PROVE  /\ Contents \in Seq(Values) /\ Len(Contents) = count
         /\ \A i \in 1..count : Contents[i] = cells[Cell(i)]
<1>1. \A i \in 1..count : cells[Cell(i)] \in Values
  BY CellFacts, RingAssumption DEF RingInv, TypeOK, CellsMatchCount, InUse, Slots, RingAssumption
<1>2. count \in Nat
  BY RingAssumption DEF RingInv, TypeOK, RingAssumption
<1> QED
  BY <1>1, <1>2 DEF Contents

-----------------------------------------------------------------------------
\* enqueue keeps the invariant and appends the value.
LEMMA EnqueueStep ==
  ASSUME RingInv, Enqueue
  PROVE  RingInv' /\ Queue!Put
<1> USE RingAssumption DEF RingAssumption
<1>1. /\ from \in Values /\ count < Size /\ count \in Nat
      /\ cells' = [cells EXCEPT ![FreeCell] = from] /\ from' = cells[FreeCell]
      /\ count' = count + 1 /\ head' = head /\ to' = to /\ TypeOK
  BY DEF RingInv, TypeOK, Enqueue, Full, Slots
<1>2. FreeCell = Cell(count + 1) /\ FreeCell \in Indices /\ count + 1 \in 1..Size
  BY <1>1, HeadFacts
<1>3. \A i \in 1..count : Cell(i) # FreeCell
  BY <1>1, <1>2, CellFacts
<1>4. from' = NoValue
  BY <1>1, <1>2, <1>3 DEF RingInv, CellsMatchCount, InUse
<1>5. TypeOK'
  BY <1>1, <1>2, <1>4 DEF TypeOK, Slots, Indices
<1>6. \A i \in Int : Cell(i)' = Cell(i)
  BY <1>1 DEF Cell
<1>7. InUse' = InUse \cup {FreeCell}
  BY <1>1, <1>2, <1>6 DEF InUse
<1>8. CellsMatchCount'
  BY <1>1, <1>2, <1>7 DEF RingInv, CellsMatchCount, TypeOK
<1>9. Contents' = Append(Contents, from)
  <2>1. /\ Contents \in Seq(Values) /\ Len(Contents) = count
        /\ \A i \in 1..count : Contents[i] = cells[Cell(i)]
    BY ContentsFacts
  <2>2. Contents' = [i \in 1..(count + 1) |-> cells'[Cell(i)]]
    BY <1>1, <1>6 DEF Contents
  <2>3. \A i \in 1..count : cells'[Cell(i)] = cells[Cell(i)]
    BY <1>1, <1>2, <1>3 DEF TypeOK
  <2>4. cells'[Cell(count + 1)] = from
    BY <1>1, <1>2 DEF TypeOK
  <2> QED
    <3>1. \A i \in 1..(count + 1) : Contents'[i] = cells'[Cell(i)]
      BY <2>2
    <3>2. Contents' = [i \in 1..(count + 1) |-> Contents'[i]]
      BY <2>2
    <3>3. /\ \A i \in 1..count : Contents'[i] = Contents[i]
          /\ Contents'[count + 1] = from
      BY <1>1, <2>1, <2>3, <2>4, <3>1
    <3> QED
      BY <1>1, <2>1, <3>2, <3>3, IsAppend
<1>10. Queue!Put
  BY <1>1, <1>4, <1>9, ContentsFacts DEF Queue!Put
<1> QED
  BY <1>5, <1>8, <1>10 DEF RingInv

\* dequeue keeps the invariant and removes the oldest value.
LEMMA DequeueStep ==
  ASSUME RingInv, Dequeue
  PROVE  RingInv' /\ Queue!Take
<1> USE RingAssumption DEF RingAssumption
<1>1. /\ to = NoValue /\ count >= 1 /\ count \in 1..Size
      /\ cells' = [cells EXCEPT ![head] = NoValue] /\ to' = cells[head]
      /\ head' = NextHead /\ count' = count - 1 /\ from' = from /\ TypeOK
      /\ head \in 0..(Size - 1)
  BY DEF RingInv, TypeOK, Dequeue, Empty, Indices
<1>2. head = Cell(1) /\ NextHead = IF head + 1 < Size THEN head + 1 ELSE 0
  BY <1>1, HeadFacts
<1>3. to' \in Values
  BY <1>1, <1>2, ContentsFacts
<1>4. TypeOK'
  BY <1>1, <1>2, <1>3 DEF TypeOK, Slots, Indices
<1>5. \A i \in 1..(count - 1) : Cell(i)' = Cell(i + 1) /\ i + 1 \in 1..count
  <2> SUFFICES ASSUME NEW i \in 1..(count - 1)
               PROVE  Cell(i)' = Cell(i + 1) /\ i + 1 \in 1..count
    OBVIOUS
  <2>1. i \in 1..Size /\ i + 1 \in 1..Size /\ i + 1 \in 1..count
    BY <1>1
  <2>2. head' + i - 1 \in 0..(2 * Size - 1) /\ head' \in 0..(Size - 1)
    BY <1>1, <1>2, <2>1
  <2>3. Cell(i)' = IF head' + i - 1 < Size THEN head' + i - 1 ELSE head' + i - 1 - Size
    <3>1. PICK h \in 0..(Size - 1) : h = head'
      BY <2>2
    <3>2. i - 1 \in 0..Size /\ \A k \in 0..(Size - 1) : k + i - 1 = k + (i - 1)
      BY <2>1
    <3>3. (h + (i - 1)) % Size = IF h + (i - 1) < Size THEN h + (i - 1) ELSE h + (i - 1) - Size
      BY <3>2, Wrap
    <3> QED
      BY <2>1, <3>1, <3>2, <3>3 DEF Cell
  <2>4. Cell(i + 1) = IF head + i < Size THEN head + i ELSE head + i - Size
    BY <1>1, <2>1, CellFacts
  <2> QED
    BY <1>1, <1>2, <2>1, <2>3, <2>4
<1>6. \A i \in 2..count : Cell(i) # head /\ i - 1 \in 1..(count - 1)
  BY <1>1, <1>2, CellFacts
<1>7. InUse' = InUse \ {head}
  <2>1. InUse' = {Cell(i)' : i \in 1..(count - 1)}
    BY <1>1 DEF InUse
  <2>2. \A i \in 1..count : i = 1 \/ i \in 2..count
    BY <1>1
  <2>3. InUse' \subseteq InUse \ {head}
    <3> SUFFICES ASSUME NEW i \in 1..(count - 1) PROVE Cell(i)' \in InUse \ {head}
      BY <2>1
    <3>1. i + 1 \in 2..count
      BY <1>1
    <3> QED
      BY <1>5, <1>6, <3>1 DEF InUse
  <2>4. InUse \ {head} \subseteq InUse'
    <3> SUFFICES ASSUME NEW i \in 1..count, Cell(i) # head PROVE Cell(i) \in InUse'
      BY DEF InUse
    <3>1. i \in 2..count
      BY <1>2, <2>2
    <3>2. i - 1 \in 1..(count - 1) /\ (i - 1) + 1 = i
      BY <1>1, <3>1
    <3>3. Cell(i - 1)' = Cell((i - 1) + 1)
      BY <1>5, <3>2
    <3> QED
      BY <2>1, <3>2, <3>3
  <2> QED
    BY <2>3, <2>4
<1>8. CellsMatchCount'
  BY <1>1, <1>7 DEF RingInv, CellsMatchCount, TypeOK
<1>9. Contents # <<>> /\ to' = Head(Contents) /\ Contents' = Tail(Contents)
  <2>1. /\ Contents \in Seq(Values) /\ Len(Contents) = count
        /\ \A i \in 1..count : Contents[i] = cells[Cell(i)]
    BY ContentsFacts
  <2>2. Contents' = [i \in 1..(count - 1) |-> cells'[Cell(i)']]
    BY <1>1 DEF Contents
  <2>3. \A i \in 1..(count - 1) : cells'[Cell(i)'] = Contents[i + 1]
    <3> SUFFICES ASSUME NEW i \in 1..(count - 1) PROVE cells'[Cell(i)'] = Contents[i + 1]
      OBVIOUS
    <3>1. i + 1 \in 2..count /\ i + 1 \in 1..Size
      BY <1>1
    <3>2. Cell(i + 1) \in Indices /\ Cell(i + 1) # head
      BY <1>1, <1>6, <3>1, CellFacts
    <3> QED
      BY <1>1, <1>5, <2>1, <3>2 DEF TypeOK
  <2>4. Contents # <<>> /\ Head(Contents) = Contents[1]
    BY <1>1, <2>1
  <2>5. Contents' = [i \in 1..(count - 1) |-> Contents'[i]]
    BY <2>2
  <2>6. \A i \in 1..(count - 1) : Contents'[i] = Contents[i + 1]
    BY <2>2, <2>3
  <2>7. Contents' = Tail(Contents)
    BY <1>1, <2>1, <2>4, <2>5, <2>6, IsTail
  <2> QED
    BY <1>1, <1>2, <2>1, <2>4, <2>7
<1>10. Queue!Take
  BY <1>1, <1>9 DEF Queue!Take
<1> QED
  BY <1>4, <1>8, <1>10 DEF RingInv

\* The steps that do not touch the ring.
LEMMA SlotStep ==
  ASSUME RingInv, UNCHANGED <<head, count, cells>>, from' \in Slots, to' \in Slots
  PROVE  RingInv' /\ Contents' = Contents
<1>1. \A i \in Int : Cell(i)' = Cell(i)
  BY DEF Cell
<1>2. count \in Nat
  BY RingAssumption DEF RingInv, TypeOK, RingAssumption
<1>3. InUse' = InUse /\ Contents' = Contents
  BY <1>1, <1>2 DEF InUse, Contents
<1> QED
  BY <1>3 DEF RingInv, TypeOK, CellsMatchCount

LEMMA RingStep ==
  ASSUME RingInv, [Next]_vars
  PROVE  RingInv' /\ [Queue!Next]_<<Contents, from, to>>
<1>1. CASE Offer
  <2>1. RingInv' /\ Contents' = Contents
    BY <1>1, SlotStep DEF Offer, RingInv, TypeOK, Slots
  <2> QED
    BY <1>1, <2>1 DEF Offer, Queue!Offer, Queue!Next
<1>2. CASE Enqueue
  BY <1>2, EnqueueStep DEF Queue!Next
<1>3. CASE Dequeue
  BY <1>3, DequeueStep DEF Queue!Next
<1>4. CASE HandOver
  <2>1. RingInv' /\ Contents' = Contents
    BY <1>4, SlotStep DEF HandOver, RingInv, TypeOK, Slots
  <2>2. Contents = <<>>
    BY <1>4, ContentsFacts DEF HandOver, Empty
  <2> QED
    BY <1>4, <2>1, <2>2 DEF HandOver, Queue!HandOver, Queue!Next
<1>5. CASE Collect
  <2>1. RingInv' /\ Contents' = Contents
    BY <1>5, SlotStep DEF Collect, RingInv, TypeOK, Slots
  <2> QED
    BY <1>5, <2>1 DEF Collect, Queue!Collect, Queue!Next
<1>6. CASE UNCHANGED vars
  <2>1. RingInv' /\ Contents' = Contents
    BY <1>6, SlotStep DEF vars, RingInv, TypeOK
  <2> QED
    BY <1>6, <2>1 DEF vars
<1> QED
  BY <1>1, <1>2, <1>3, <1>4, <1>5, <1>6 DEF Next

LEMMA RingInit ==
  ASSUME Init
  PROVE  RingInv /\ Queue!Init
<1> USE RingAssumption DEF RingAssumption
<1>1. TypeOK
  BY DEF Init, TypeOK, Slots, Indices
<1>2. CellsMatchCount
  BY DEF Init, CellsMatchCount, InUse
<1>3. Contents = <<>>
  BY <1>1, <1>2, ContentsFacts DEF RingInv, Init
<1> QED
  BY <1>1, <1>2, <1>3 DEF RingInv, Init, Queue!Init

\* The cells hold values exactly where the count says, for every buff_size.
THEOREM RingInvHolds == Spec => []RingInv
<1>1. Init => RingInv
  BY RingInit
<1>2. RingInv /\ [Next]_vars => RingInv'
  BY RingStep
<1> QED
  BY <1>1, <1>2, PTL DEF Spec

\* head_ and count_ stay within the ring, and its cells hold values.
THEOREM RingTypeCorrect == Spec => []TypeOK
<1>1. RingInv => TypeOK
  BY DEF RingInv
<1> QED
  BY <1>1, RingInvHolds, PTL

\* The assertions of transfer hold whenever the buffer is used as it is.
THEOREM TransfersDefined == Spec => []TransferAsserts
<1>1. ASSUME RingInv
      PROVE  TransferAsserts
  <2>1. TypeOK /\ count \in 0..Size
    BY <1>1 DEF RingInv, TypeOK
  <2>2. ASSUME ~Full
        PROVE  cells[FreeCell] = NoValue
    <3>1. /\ FreeCell = Cell(count + 1) /\ FreeCell \in Indices
          /\ count + 1 \in 1..Size /\ \A i \in 1..count : i \in 1..Size /\ i # count + 1
      BY <2>1, <2>2, HeadFacts, RingAssumption DEF Full, RingAssumption
    <3> QED
      BY <1>1, <2>1, <3>1, CellFacts DEF RingInv, CellsMatchCount, InUse
  <2>3. ASSUME ~Empty
        PROVE  cells[head] # NoValue
    <3>1. head = Cell(1) /\ 1 \in 1..count /\ head \in Indices
      BY <2>1, <2>3, HeadFacts DEF Empty, TypeOK
    <3> QED
      BY <1>1, <3>1 DEF RingInv, CellsMatchCount, InUse
  <2> QED
    BY <2>2, <2>3 DEF TransferAsserts
<1> QED
  BY <1>1, RingInvHolds, PTL

\* The ring of send_slots is a FIFO queue, for every buff_size and however
\* often head_ has gone round.
THEOREM RingImplementsFifo == Spec => RingIsFifo
<1>1. Init => Queue!Init
  BY RingInit
<1>2. RingInv /\ [Next]_vars => [Queue!Next]_<<Contents, from, to>>
  BY RingStep
<1> QED
  BY <1>1, <1>2, RingInvHolds, PTL DEF Spec, RingIsFifo, Queue!Spec

=============================================================================
