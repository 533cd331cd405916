---------------------------- MODULE KeyRingProofs ----------------------------
(***************************************************************************)
(* A key ring of any size implements the bounded queue.                    *)
(***************************************************************************)
EXTENDS KeyRing, SequenceTheorems, TLAPS

IInv == TypeOK /\ CopyIsOldest

(* The remainder wraps an index at the end of the ring (BufferPut, BufferGet). *)
LEMMA AdvanceWraps ==
    ASSUME SizeAssumption, NEW i \in Slot
    PROVE  Advance(i) = IF i + 1 = Size THEN 0 ELSE i + 1
<1>1. Size \in Nat /\ Size >= 2 /\ i \in Nat /\ i + 1 <= Size
  BY DEF SizeAssumption, Slot
<1>2. CASE i + 1 = Size
  BY <1>1, <1>2 DEF Advance
<1>3. CASE i + 1 < Size
  BY <1>1, <1>3 DEF Advance
<1> QED  BY <1>1, <1>2, <1>3

(* What the refinement mapping is, as a sequence. *)
LEMMA ContentsLen ==
    ASSUME SizeAssumption, TypeOK
    PROVE  /\ Waiting \in 0 .. Size - 1
           /\ \A i \in 1 .. Waiting : SlotAt(i) \in Slot
           /\ Contents \in Seq(Item \cup {NoItem})
           /\ Len(Contents) = Waiting
<1>1. Waiting \in 0 .. Size - 1
  BY DEF Waiting, TypeOK, Slot, SizeAssumption
<1>2. \A i \in 1 .. Waiting : SlotAt(i) \in Slot
  BY DEF Waiting, SlotAt, TypeOK, Slot, SizeAssumption
<1>3. Contents \in [1 .. Waiting -> Item \cup {NoItem}]
  BY <1>2 DEF Contents, TypeOK
<1> QED  BY <1>1, <1>2, <1>3, Waiting \in Nat

LEMMA EmptyContents ==
    ASSUME SizeAssumption, TypeOK
    PROVE  IsEmpty <=> Waiting = 0
BY DEF IsEmpty, Waiting, TypeOK, Slot, SizeAssumption

LEMMA FullRing ==
    ASSUME SizeAssumption, TypeOK
    PROVE  Advance(write_pos) # read_pos <=> Waiting < Size - 1
<1>1. read_pos \in Slot /\ write_pos \in Slot
  BY DEF TypeOK
<1>2. Advance(write_pos) = IF write_pos + 1 = Size THEN 0 ELSE write_pos + 1
  BY <1>1, AdvanceWraps
<1> QED  BY <1>1, <1>2 DEF Waiting, Slot, SizeAssumption

(* A put is a Put of the queue, or drops the item. *)
LEMMA PutMaps ==
    ASSUME SizeAssumption, IInv, NEW c \in Item, Put(c)
    PROVE  IInv' /\ (Queue!Put(c) \/ UNCHANGED Contents)
<1> USE DEF IInv
<1>1. CASE Advance(write_pos) = read_pos
  <2>1. UNCHANGED vars
    BY <1>1 DEF Put, vars
  <2>2. UNCHANGED <<Contents, Waiting>>
    BY <2>1 DEF vars, Contents, Waiting, SlotAt
  <2> QED  BY <2>1, <2>2 DEF vars, TypeOK, CopyIsOldest
<1>2. CASE Advance(write_pos) # read_pos
  <2>1. /\ buffer' = [buffer EXCEPT ![write_pos] = c]
        /\ write_pos' = IF write_pos + 1 = Size THEN 0 ELSE write_pos + 1
        /\ UNCHANGED <<read_pos, item>>
        /\ read_pos \in Slot /\ write_pos \in Slot
    BY <1>2, AdvanceWraps DEF Put, TypeOK
  <2>2. TypeOK'
    BY <2>1 DEF TypeOK, Slot, SizeAssumption
  <2>3. Waiting < Size - 1 /\ Waiting \in Nat
    BY <1>2, FullRing, ContentsLen
  <2>4. Waiting' = Waiting + 1
    BY <2>1, <2>3 DEF Waiting, Slot, SizeAssumption
  <2>5. \A i \in 1 .. Waiting + 1 :
           /\ SlotAt(i)' = IF i <= Waiting THEN SlotAt(i) ELSE write_pos
           /\ i <= Waiting => SlotAt(i) # write_pos
    <3>1. \A i \in 1 .. Waiting + 1 : SlotAt(i)' = SlotAt(i)
      BY <2>1 DEF SlotAt
    <3>2. \A i \in 1 .. Waiting : SlotAt(i) # write_pos
      BY <2>1, <2>3 DEF SlotAt, Waiting, Slot, SizeAssumption
    <3>3. SlotAt(Waiting + 1) = write_pos
      BY <2>1, <2>3 DEF SlotAt, Waiting, Slot, SizeAssumption
    <3> QED  BY <2>3, <3>1, <3>2, <3>3
  <2>6. \A i \in 1 .. Waiting : SlotAt(i) \in Slot
    BY ContentsLen
  <2>7. \A i \in 1 .. Waiting + 1 :
           buffer'[SlotAt(i)'] = IF i <= Waiting THEN buffer[SlotAt(i)] ELSE c
    <3> SUFFICES ASSUME NEW i \in 1 .. Waiting + 1
                 PROVE  buffer'[SlotAt(i)'] = IF i <= Waiting THEN buffer[SlotAt(i)] ELSE c
      OBVIOUS
    <3>1. CASE i <= Waiting
      <4>1. i \in 1 .. Waiting
        BY <2>3, <3>1
      <4>2. SlotAt(i)' = SlotAt(i) /\ SlotAt(i) # write_pos /\ SlotAt(i) \in Slot
        BY <4>1, <3>1, <2>5, <2>6
      <4> QED  BY <4>2, <2>1, <3>1 DEF TypeOK
    <3>2. CASE i = Waiting + 1
      <4>1. SlotAt(i)' = write_pos /\ ~(i <= Waiting)
        BY <2>3, <2>5, <3>2
      <4> QED  BY <4>1, <2>1 DEF TypeOK
    <3> QED  BY <2>3, <3>1, <3>2
  <2>8. Contents' = Append(Contents, c)
    <3> DEFINE S == Item \cup {NoItem}
    <3>1. /\ Contents \in Seq(S) /\ Len(Contents) = Waiting
          /\ \A i \in 1 .. Waiting : Contents[i] = buffer[SlotAt(i)]
      BY ContentsLen DEF Contents
    <3>2. /\ Contents' \in Seq(S) /\ Len(Contents') = Waiting + 1
          /\ \A i \in 1 .. Waiting + 1 : Contents'[i] = buffer'[SlotAt(i)']
      <4>1. Contents' = [i \in 1 .. Waiting + 1 |-> buffer'[SlotAt(i)']]
        BY <2>4 DEF Contents
      <4>2. \A i \in 1 .. Waiting + 1 : SlotAt(i)' \in Slot
        BY <2>1, <2>3, <2>5, <2>6
      <4>3. Contents' \in [1 .. Waiting + 1 -> S]
        BY <2>2, <4>1, <4>2 DEF TypeOK
      <4> QED  BY <4>1, <4>3, <2>3
    <3>3. c \in S
      OBVIOUS
    <3> HIDE DEF S
    <3>4. /\ Append(Contents, c) \in Seq(S)
          /\ Len(Append(Contents, c)) = Waiting + 1
          /\ \A i \in 1 .. Waiting : Append(Contents, c)[i] = Contents[i]
          /\ Append(Contents, c)[Waiting + 1] = c
      BY <3>1, <3>3, AppendProperties
    <3>5. \A i \in 1 .. Waiting + 1 : Contents'[i] = Append(Contents, c)[i]
      BY <2>3, <2>7, <3>1, <3>2, <3>4
    <3> QED  BY <3>2, <3>4, <3>5, SeqEqual
  <2>9. Queue!Put(c)
    BY <2>3, <2>8, ContentsLen DEF Queue!Put
  <2>10. CopyIsOldest'
    <3>1. Waiting > 0 => Contents'[1] = Contents[1]
      BY <2>3, <2>8, ContentsLen
    <3> QED  BY <2>1, <2>3, <2>4, <3>1 DEF CopyIsOldest
  <2> QED  BY <2>2, <2>9, <2>10
<1> QED  BY <1>1, <1>2

(* The copy changes nothing a queue shows. *)
LEMMA GetCopyMaps ==
    ASSUME SizeAssumption, IInv, GetCopy
    PROVE  IInv' /\ UNCHANGED Contents
<1> USE DEF IInv
<1>1. UNCHANGED Contents /\ Waiting' = Waiting
  BY DEF GetCopy, Contents, Waiting, SlotAt
<1>2. Waiting > 0 /\ Waiting \in Nat
  BY EmptyContents, ContentsLen DEF GetCopy
<1>3. Contents[1] = buffer[read_pos]
  BY <1>2 DEF Contents, SlotAt, TypeOK, Slot, SizeAssumption
<1>4. CopyIsOldest'
  BY <1>1, <1>2, <1>3 DEF CopyIsOldest, GetCopy
<1> QED  BY <1>1, <1>4 DEF GetCopy, TypeOK

(* Moving the read position takes the oldest item, and it is the one the get returns. *)
LEMMA GetAdvanceMaps ==
    ASSUME SizeAssumption, IInv, GetAdvance
    PROVE  IInv' /\ Queue!Take
<1> USE DEF IInv
<1>1. /\ read_pos' = IF read_pos + 1 = Size THEN 0 ELSE read_pos + 1
      /\ item' = NoItem /\ UNCHANGED <<buffer, write_pos>>
      /\ read_pos \in Slot /\ write_pos \in Slot
  BY AdvanceWraps DEF GetAdvance, TypeOK
<1>2. Waiting > 0 /\ Waiting \in Nat
  BY ContentsLen DEF GetAdvance, CopyIsOldest
<1>3. Waiting' = Waiting - 1
  BY <1>1, <1>2 DEF Waiting, Slot, SizeAssumption
<1>4. \A i \in 1 .. Waiting - 1 : SlotAt(i)' = SlotAt(i + 1)
  BY <1>1, <1>2 DEF SlotAt, Waiting, Slot, SizeAssumption
<1>5. Contents # << >>
  BY <1>2, ContentsLen
<1>6. TypeOK'
  BY <1>1 DEF TypeOK, Slot, SizeAssumption
<1>7. Contents' = Tail(Contents)
  <2> DEFINE S == Item \cup {NoItem}
  <2>1. /\ Contents \in Seq(S) /\ Len(Contents) = Waiting
        /\ \A i \in 1 .. Waiting : Contents[i] = buffer[SlotAt(i)]
    BY ContentsLen DEF Contents
  <2>2. /\ Contents' \in Seq(S) /\ Len(Contents') = Waiting - 1
        /\ \A i \in 1 .. Waiting - 1 : Contents'[i] = buffer[SlotAt(i)']
    <3>1. Contents' = [i \in 1 .. Waiting - 1 |-> buffer[SlotAt(i)']]
      BY <1>1, <1>3 DEF Contents
    <3>2. \A i \in 1 .. Waiting - 1 : SlotAt(i)' \in Slot
      BY <1>2, <1>4, ContentsLen
    <3>3. Contents' \in [1 .. Waiting - 1 -> S]
      BY <3>1, <3>2 DEF TypeOK
    <3> QED  BY <3>1, <3>3, <1>2
  <2> HIDE DEF S
  <2>3. /\ Tail(Contents) \in Seq(S) /\ Len(Tail(Contents)) = Waiting - 1
        /\ \A i \in 1 .. Waiting - 1 : Tail(Contents)[i] = Contents[i + 1]
    BY <2>1, <1>5, HeadTailProperties
  <2>4. \A i \in 1 .. Waiting - 1 : Contents'[i] = Tail(Contents)[i]
    BY <1>2, <1>4, <2>1, <2>2, <2>3
  <2> QED  BY <2>2, <2>3, <2>4, SeqEqual
<1>8. Queue!Take
  BY <1>5, <1>7 DEF Queue!Take
<1> QED  BY <1>1, <1>8 DEF TypeOK, CopyIsOldest, Slot, SizeAssumption

(* A kill in the middle of a get takes nothing out of the ring. *)
LEMMA AbandonMaps ==
    ASSUME SizeAssumption, IInv, Abandon
    PROVE  IInv' /\ UNCHANGED Contents
BY DEF IInv, Abandon, TypeOK, CopyIsOldest, Contents, Waiting, SlotAt

LEMMA InitMaps ==
    ASSUME SizeAssumption, Init
    PROVE  IInv /\ Queue!Init
<1>1. IInv
  BY DEF IInv, Init, TypeOK, CopyIsOldest, Slot, SizeAssumption
<1>2. Len(Contents) = 0 /\ Contents \in Seq(Item \cup {NoItem})
  BY <1>1, ContentsLen DEF Init, Waiting, IInv
<1> QED  BY <1>1, <1>2 DEF Queue!Init

(* Every step of the ring is a step of the queue or none. *)
LEMMA StepMaps ==
    ASSUME SizeAssumption, IInv, [Next]_vars
    PROVE  IInv' /\ [Queue!Next]_Contents
<1>1. CASE GetCopy
  BY <1>1, GetCopyMaps
<1>2. CASE GetAdvance
  BY <1>2, GetAdvanceMaps DEF Queue!Next
<1>3. CASE Abandon
  BY <1>3, AbandonMaps
<1>4. ASSUME NEW c \in Item, Put(c) PROVE IInv' /\ [Queue!Next]_Contents
  BY <1>4, PutMaps DEF Queue!Next
<1>5. CASE UNCHANGED vars
  BY <1>5 DEF vars, IInv, TypeOK, CopyIsOldest, Contents, Waiting, SlotAt
<1> QED  BY <1>1, <1>2, <1>3, <1>4, <1>5 DEF Next

=============================================================================
