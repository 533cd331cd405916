------------------------------- MODULE KeyRing -------------------------------
(***************************************************************************)
(* One ring of keyboard.c: the interrupt puts, one system call gets.  The  *)
(* interrupt may come between the two steps of a get, and a kill may end   *)
(* the call there.                                                         *)
(***************************************************************************)
EXTENDS Naturals, Sequences

CONSTANTS
    Size,       \* slots of the ring: 256
    Item,       \* what a slot can hold
    NoItem      \* nothing: an unwritten slot, no get under way

SizeAssumption == Size \in Nat /\ Size >= 2 /\ NoItem \notin Item

VARIABLES
    buffer,     \* the slots
    read_pos,   \* the next slot to read
    write_pos,  \* the next slot to write
    item        \* what the get under way has copied, or NoItem

vars == <<buffer, read_pos, write_pos, item>>

Slot == 0 .. Size - 1

Init == /\ buffer = [i \in Slot |-> NoItem]
        /\ read_pos = 0 /\ write_pos = 0
        /\ item = NoItem

Advance_NoWrap(i) == i + 1
Advance(i) == (i + 1) % Size

IsEmpty == read_pos = write_pos

Put_DropOldest(c) == /\ buffer' = [buffer EXCEPT ![write_pos] = c]
                     /\ write_pos' = Advance(write_pos)
                     /\ read_pos' = IF Advance(write_pos) = read_pos
                                    THEN Advance(read_pos) ELSE read_pos
                     /\ UNCHANGED item
Put_Unchecked(c) == /\ buffer' = [buffer EXCEPT ![write_pos] = c]
                    /\ write_pos' = Advance(write_pos)
                    /\ UNCHANGED <<read_pos, item>>
Put_NextSlot(c) == /\ Advance(write_pos) # read_pos
                   /\ buffer' = [buffer EXCEPT ![Advance(write_pos)] = c]
                   /\ write_pos' = Advance(write_pos)
                   /\ UNCHANGED <<read_pos, item>>
Put(c) == /\ IF Advance(write_pos) # read_pos
             THEN /\ buffer' = [buffer EXCEPT ![write_pos] = c]
                  /\ write_pos' = Advance(write_pos)
             ELSE UNCHANGED <<buffer, write_pos>>
          /\ UNCHANGED <<read_pos, item>>

GetCopy == /\ ~IsEmpty /\ item = NoItem
           /\ item' = buffer[read_pos]
           /\ UNCHANGED <<buffer, read_pos, write_pos>>

GetAdvance == /\ item # NoItem
              /\ read_pos' = Advance(read_pos)
              /\ item' = NoItem
              /\ UNCHANGED <<buffer, write_pos>>

(* The process in the call is killed: its local variables are gone. *)
Abandon == item' = NoItem /\ UNCHANGED <<buffer, read_pos, write_pos>>

Next == GetCopy \/ GetAdvance \/ Abandon \/ \E c \in Item : Put(c)

Spec == Init /\ [][Next]_vars

-----------------------------------------------------------------------------

TypeOK == /\ buffer \in [Slot -> Item \cup {NoItem}]
          /\ read_pos \in Slot /\ write_pos \in Slot
          /\ item \in Item \cup {NoItem}

Waiting == IF read_pos <= write_pos THEN write_pos - read_pos
                                    ELSE write_pos - read_pos + Size

(* The i-th slot from read_pos on. *)
SlotAt(i) == IF read_pos + i - 1 < Size THEN read_pos + i - 1 ELSE read_pos + i - 1 - Size

Contents == [i \in 1 .. Waiting |-> buffer[SlotAt(i)]]

Queue == INSTANCE BoundedQueue
             WITH queue <- Contents, Capacity <- Size - 1

(* What a get has copied is still the oldest item when it returns it. *)
CopyIsOldest == item # NoItem => Waiting > 0 /\ item = Contents[1]

(* The ring is a queue that drops the newest item when full, whatever the
   interrupt does between the steps of a get (BufferPut, BufferGet). *)
QueueSpec == Queue!Spec
=============================================================================
