--------------------------- MODULE KeyboardProofs ---------------------------
(***************************************************************************)
(* Theorems about Keyboard: both rings implement their queues, GETCHAR     *)
(* never halts, a modifier is on only while one of its keys is held.       *)
(***************************************************************************)
EXTENDS Keyboard, TLAPS

CharRing == INSTANCE KeyRingProofs
                WITH Size <- KBD_BUFFER_SIZE, Item <- Char, NoItem <- Nothing,
                     buffer <- g_kbd_buffer, read_pos <- g_kbd_read_pos,
                     write_pos <- g_kbd_write_pos, item <- c

EventRing == INSTANCE KeyRingProofs
                 WITH Size <- KBD_EVENT_BUFFER_SIZE, Item <- KeyEvent, NoItem <- Nothing,
                      buffer <- g_kbd_events, read_pos <- g_kbd_event_read,
                      write_pos <- g_kbd_event_write, item <- ev

RingInv == Chars!TypeOK /\ Chars!CopyIsOldest /\ Events!TypeOK /\ Events!CopyIsOldest

FlagsOK == /\ g_shift_state \in BOOLEAN /\ g_ctrl_state \in BOOLEAN
           /\ g_caps_lock \in BOOLEAN /\ app \in BOOLEAN
           /\ call \in {"none", "getchar", "getkey"}
           /\ down \subseteq Modifier
           /\ line \in [raw : Extended, released : BOOLEAN] \cup {Nothing}

(* A modifier that is on has a key held, or one whose release is on its way. *)
HeldOrComing(state, keys) ==
    state => \/ \E key \in down : key[1] \in keys
             \/ line # Nothing /\ line.released /\ line.raw \in keys

ModifierInv ==
    /\ HeldOrComing(g_shift_state, ShiftKey) /\ HeldOrComing(g_ctrl_state, CtrlKey)
    /\ line # Nothing /\ ~line.released /\ line.raw \in ShiftKey \cup CtrlKey
         => <<line.raw, TRUE>> \in down

IInv == RingInv /\ FlagsOK /\ ModifierInv /\ GetCharNeverHalts

LEMMA Sizes == CharRing!SizeAssumption /\ EventRing!SizeAssumption
BY RingAssumption
   DEF CharRing!SizeAssumption, EventRing!SizeAssumption,
       Chars!SizeAssumption, Events!SizeAssumption

(* The steps of the character ring, in the terms of Keyboard. *)
LEMMA CharStep ==
    ASSUME RingInv, [Chars!Next]_charVars
    PROVE  /\ Chars!TypeOK' /\ Chars!CopyIsOldest'
           /\ [Chars!Queue!Next]_Chars!Contents
<1>1. CharRing!IInv
  BY DEF RingInv, CharRing!IInv, Chars!TypeOK, CharRing!TypeOK, Chars!CopyIsOldest,
         CharRing!CopyIsOldest, Chars!Waiting, CharRing!Waiting, Chars!Contents,
         CharRing!Contents, Chars!SlotAt, CharRing!SlotAt, Chars!Slot, CharRing!Slot
<1>2. [CharRing!Next]_CharRing!vars
  BY DEF charVars, CharRing!vars, Chars!Next, CharRing!Next, Chars!GetCopy, CharRing!GetCopy,
         Chars!GetAdvance, CharRing!GetAdvance, Chars!Abandon, CharRing!Abandon, Chars!Put,
         CharRing!Put, Chars!Advance, CharRing!Advance, Chars!IsEmpty, CharRing!IsEmpty
<1>3. CharRing!IInv' /\ [CharRing!Queue!Next]_CharRing!Contents
  BY <1>1, <1>2, Sizes, CharRing!StepMaps
<1> QED
  BY <1>3 DEF CharRing!IInv, Chars!TypeOK, CharRing!TypeOK, Chars!CopyIsOldest,
         CharRing!CopyIsOldest, Chars!Waiting, CharRing!Waiting, Chars!Contents,
         CharRing!Contents, Chars!SlotAt, CharRing!SlotAt, Chars!Slot, CharRing!Slot,
         Chars!Queue!Next, CharRing!Queue!Next, Chars!Queue!Put, CharRing!Queue!Put,
         Chars!Queue!Take, CharRing!Queue!Take

(* The steps of the event ring, in the terms of Keyboard. *)
LEMMA EventStep ==
    ASSUME RingInv, [Events!Next]_eventVars
    PROVE  /\ Events!TypeOK' /\ Events!CopyIsOldest'
           /\ [Events!Queue!Next]_Events!Contents
<1>1. EventRing!IInv
  BY DEF RingInv, EventRing!IInv, Events!TypeOK, EventRing!TypeOK, Events!CopyIsOldest,
         EventRing!CopyIsOldest, Events!Waiting, EventRing!Waiting, Events!Contents,
         EventRing!Contents, Events!SlotAt, EventRing!SlotAt, Events!Slot, EventRing!Slot
<1>2. [EventRing!Next]_EventRing!vars
  BY DEF eventVars, EventRing!vars, Events!Next, EventRing!Next, Events!GetCopy, EventRing!GetCopy,
         Events!GetAdvance, EventRing!GetAdvance, Events!Abandon, EventRing!Abandon, Events!Put,
         EventRing!Put, Events!Advance, EventRing!Advance, Events!IsEmpty, EventRing!IsEmpty
<1>3. EventRing!IInv' /\ [EventRing!Queue!Next]_EventRing!Contents
  BY <1>1, <1>2, Sizes, EventRing!StepMaps
<1> QED
  BY <1>3 DEF EventRing!IInv, Events!TypeOK, EventRing!TypeOK, Events!CopyIsOldest,
         EventRing!CopyIsOldest, Events!Waiting, EventRing!Waiting, Events!Contents,
         EventRing!Contents, Events!SlotAt, EventRing!SlotAt, Events!Slot, EventRing!Slot,
         Events!Queue!Next, EventRing!Queue!Next, Events!Queue!Put, EventRing!Queue!Put,
         Events!Queue!Take, EventRing!Queue!Take

(* Every step leaves the rings alone, puts, copies, advances or abandons. *)
LEMMA HandleKeyRings ==
    ASSUME FlagsOK, NEW s \in [raw : Raw \cup {Prefix}, released : BOOLEAN],
           KeyboardIrqHandler(s)
    PROVE  [Chars!Next]_charVars /\ [Events!Next]_eventVars
<1>1. CASE CtrlC(s)
  BY <1>1 DEF KeyboardIrqHandler, Kill, Chars!Next, Events!Next
<1>2. CASE ~CtrlC(s)
  <2>1. HandleKey(s)
    BY <1>2 DEF KeyboardIrqHandler
  <2>2. [scancode |-> s.raw, pressed |-> ~s.released] \in KeyEvent
    BY DEF KeyEvent
  <2>3. Events!Next
    BY <2>1, <2>2 DEF HandleKey, Events!Next
  <2>4. CASE ~s.released /\ s.raw \in Letter \cup Symbol
    <3>1. CharOf(s.raw) \in Char
      BY <2>4 DEF CharOf, Char
    <3> QED  BY <2>1, <2>3, <2>4, <3>1 DEF HandleKey, Chars!Next
  <2>5. CASE ~(~s.released /\ s.raw \in Letter \cup Symbol)
    BY <2>1, <2>3, <2>5 DEF HandleKey, charVars
  <2> QED  BY <2>4, <2>5
<1> QED  BY <1>1, <1>2

LEMMA ScancodeType ==
    ASSUME NEW key \in Key, NEW released \in BOOLEAN
    PROVE  /\ Scancode(key[1], released) \in [raw : Raw, released : BOOLEAN]
           /\ Scancode(Prefix, TRUE) \in [raw : Raw \cup {Prefix}, released : BOOLEAN]
           /\ Scancode(key[1], released) # Nothing
<1>1. key[1] \in Raw
  BY KeyAssumption DEF Key
<1>2. /\ Scancode(key[1], released) \in [raw : Raw, released : BOOLEAN]
      /\ Scancode(Prefix, TRUE) \in [raw : Raw \cup {Prefix}, released : BOOLEAN]
  BY <1>1 DEF Scancode
<1> QED  BY <1>2, KeyAssumption

LEMMA StepRings ==
    ASSUME FlagsOK, [Next]_vars
    PROVE  [Chars!Next]_charVars /\ [Events!Next]_eventVars
<1>1. ASSUME NEW key \in Key, NEW released \in BOOLEAN, Send(key, released)
      PROVE  [Chars!Next]_charVars /\ [Events!Next]_eventVars
  <2>1. PICK s \in [raw : Raw \cup {Prefix}, released : BOOLEAN] : KeyboardIrqHandler(s)
    BY <1>1, ScancodeType DEF Send
  <2> QED  BY <2>1, HandleKeyRings
<1>2. CASE SendRest
  <2>1. line \in [raw : Raw \cup {Prefix}, released : BOOLEAN]
    BY <1>2, KeyAssumption DEF FlagsOK, SendRest
  <2> QED  BY <1>2, <2>1, HandleKeyRings DEF SendRest
<1>3. CASE GetCharEnter
  BY <1>3 DEF GetCharEnter
<1>4. CASE GetCharCopy
  BY <1>4 DEF GetCharCopy, Chars!Next
<1>5. CASE GetCharAdvance
  BY <1>5 DEF GetCharAdvance, Chars!Next
<1>6. CASE GetKeyCopy
  BY <1>6 DEF GetKeyCopy, Events!Next
<1>7. CASE GetKeyAdvance
  BY <1>7 DEF GetKeyAdvance, Events!Next
<1>8. CASE Switch
  BY <1>8 DEF Switch
<1>9. CASE UNCHANGED vars
  BY <1>9 DEF vars
<1> QED  BY <1>1, <1>2, <1>3, <1>4, <1>5, <1>6, <1>7, <1>8, <1>9 DEF Next

(* The driver follows the keys, one handled scan code at a time. *)
LEMMA HandleKeyModifiers ==
    ASSUME FlagsOK, NEW s \in [raw : Raw \cup {Prefix}, released : BOOLEAN],
           KeyboardIrqHandler(s)
    PROVE  /\ g_shift_state' \in BOOLEAN /\ g_ctrl_state' \in BOOLEAN
           /\ g_caps_lock' \in BOOLEAN /\ app' \in BOOLEAN
           /\ call' \in {call, "none"}
           /\ g_shift_state' => IF s.raw \in ShiftKey THEN ~s.released ELSE g_shift_state
           /\ g_ctrl_state' => IF s.raw \in CtrlKey THEN ~s.released ELSE g_ctrl_state
<1>1. CASE CtrlC(s)
  BY <1>1 DEF KeyboardIrqHandler, Kill, modifiers, FlagsOK, CtrlC
<1>2. CASE ~CtrlC(s)
  <2>1. SetModifiers(s) /\ UNCHANGED <<app, call>>
    BY <1>2 DEF KeyboardIrqHandler, HandleKey
  <2>2. s.released \in BOOLEAN
    OBVIOUS
  <2> QED  BY <2>1, <2>2 DEF SetModifiers, FlagsOK
<1> QED  BY <1>1, <1>2

(* A key that goes down or comes up: the flag of its modifier follows at once,
   or with the scan code after the prefix. *)
LEMMA SendInv ==
    ASSUME FlagsOK, ModifierInv,
           NEW key \in Key, NEW released \in BOOLEAN, Send(key, released)
    PROVE  FlagsOK' /\ ModifierInv'
<1> DEFINE first == IF key[2] THEN Scancode(Prefix, TRUE) ELSE Scancode(key[1], released)
<1>1. /\ first \in [raw : Raw \cup {Prefix}, released : BOOLEAN]
      /\ KeyboardIrqHandler(first)
      /\ line = Nothing
      /\ line' = IF key[2] THEN Scancode(key[1], released) ELSE Nothing
      /\ down' = IF released THEN down \ {key} ELSE down \cup ({key} \cap Modifier)
  BY ScancodeType DEF Send
<1>2. key \in Modifier <=> key[1] \in ShiftKey \cup CtrlKey
  BY DEF Modifier
<1>3. key[1] \in Raw /\ key[2] \in BOOLEAN /\ (key[2] => key[1] \in Extended)
  BY KeyAssumption DEF Key
<1>4. key = <<key[1], key[2]>>
  <2>1. key \in Raw \X {FALSE} => key = <<key[1], key[2]>>
    OBVIOUS
  <2>2. key \in Extended \X {TRUE} => key = <<key[1], key[2]>>
    OBVIOUS
  <2> QED  BY <2>1, <2>2 DEF Key
<1>5. FlagsOK'
  <2>1. line' \in [raw : Extended, released : BOOLEAN] \cup {Nothing}
    BY <1>1, <1>3 DEF Scancode
  <2>2. down' \subseteq Modifier
    BY <1>1 DEF FlagsOK
  <2>3. call' \in {"none", "getchar", "getkey"}
    BY <1>1, HandleKeyModifiers DEF FlagsOK
  <2> HIDE DEF first
  <2> QED  BY <1>1, <2>1, <2>2, <2>3, HandleKeyModifiers DEF FlagsOK
<1>6. first.raw = (IF key[2] THEN Prefix ELSE key[1])
      /\ first.released = (IF key[2] THEN TRUE ELSE released)
  BY DEF Scancode
<1>7. /\ g_shift_state' => IF first.raw \in ShiftKey THEN ~first.released ELSE g_shift_state
      /\ g_ctrl_state' => IF first.raw \in CtrlKey THEN ~first.released ELSE g_ctrl_state
  <2> HIDE DEF first
  <2> QED  BY <1>1, HandleKeyModifiers
<1> HIDE DEF first
<1>8. Prefix \notin ShiftKey /\ Prefix \notin CtrlKey
  BY KeyAssumption DEF Raw
<1>9. CASE key[2]
  <2>1. line' # Nothing /\ line'.raw = key[1] /\ line'.released = released
    BY <1>1, <1>9, ScancodeType DEF Scancode
  <2>2. (g_shift_state' => g_shift_state) /\ (g_ctrl_state' => g_ctrl_state)
    BY <1>6, <1>7, <1>8, <1>9
  <2>3. \A k \in down : k \in down' \/ (k = key /\ released)
    BY <1>1
  <2>4. HeldOrComing(g_shift_state, ShiftKey)' /\ HeldOrComing(g_ctrl_state, CtrlKey)'
    BY <1>1, <2>1, <2>2, <2>3 DEF ModifierInv, HeldOrComing
  <2>5. ~released /\ key[1] \in ShiftKey \cup CtrlKey => <<key[1], TRUE>> \in down'
    BY <1>1, <1>2, <1>3, <1>4, <1>9
  <2> QED  BY <1>5, <2>1, <2>4, <2>5 DEF ModifierInv
<1>10. CASE ~key[2]
  <2>1. line' = Nothing
    BY <1>1, <1>10
  <2>2. \A k \in down : k \in down' \/ (k = key /\ released)
    BY <1>1
  <2>3. ~released /\ key[1] \in ShiftKey \cup CtrlKey => key \in down'
    BY <1>1, <1>2
  <2>4. HeldOrComing(g_shift_state, ShiftKey)'
    BY <1>1, <1>6, <1>7, <1>10, <2>2, <2>3 DEF ModifierInv, HeldOrComing
  <2>5. HeldOrComing(g_ctrl_state, CtrlKey)'
    BY <1>1, <1>6, <1>7, <1>10, <2>2, <2>3 DEF ModifierInv, HeldOrComing
  <2> QED  BY <1>5, <2>1, <2>4, <2>5 DEF ModifierInv
<1> QED  BY <1>3, <1>5, <1>9, <1>10

LEMMA SendRestInv ==
    ASSUME FlagsOK, ModifierInv, SendRest
    PROVE  FlagsOK' /\ ModifierInv'
<1>1. /\ line \in [raw : Raw \cup {Prefix}, released : BOOLEAN]
      /\ line # Nothing /\ KeyboardIrqHandler(line)
      /\ line' = Nothing /\ down' = down
  BY KeyAssumption DEF FlagsOK, SendRest
<1>2. FlagsOK'
  BY <1>1, HandleKeyModifiers DEF FlagsOK
<1>3. /\ g_shift_state' => IF line.raw \in ShiftKey THEN ~line.released ELSE g_shift_state
      /\ g_ctrl_state' => IF line.raw \in CtrlKey THEN ~line.released ELSE g_ctrl_state
  BY <1>1, HandleKeyModifiers
<1>4. ~line.released /\ line.raw \in ShiftKey \cup CtrlKey => <<line.raw, TRUE>> \in down
  BY <1>1 DEF ModifierInv
<1>5. \A k \in down : k[1] \in ShiftKey \/ k[1] \in CtrlKey
  BY DEF FlagsOK, Modifier
<1>6. HeldOrComing(g_shift_state, ShiftKey)'
  BY <1>1, <1>3, <1>4 DEF ModifierInv, HeldOrComing
<1>7. HeldOrComing(g_ctrl_state, CtrlKey)'
  BY <1>1, <1>3, <1>4 DEF ModifierInv, HeldOrComing
<1> QED  BY <1>1, <1>2, <1>6, <1>7 DEF ModifierInv

(* GETCHAR has seen a character, and only its own last step takes one out. *)
LEMMA GetCharInv ==
    ASSUME RingInv, FlagsOK, GetCharNeverHalts, [Next]_vars
    PROVE  GetCharNeverHalts'
<1>1. CharRing!IInv /\ Chars!TypeOK
  BY DEF RingInv, CharRing!IInv, Chars!TypeOK, CharRing!TypeOK, Chars!CopyIsOldest,
         CharRing!CopyIsOldest, Chars!Waiting, CharRing!Waiting, Chars!Contents,
         CharRing!Contents, Chars!SlotAt, CharRing!SlotAt, Chars!Slot, CharRing!Slot
<1>2. c # Nothing => ~Chars!IsEmpty
  BY <1>1, Sizes, CharRing!EmptyContents
     DEF CharRing!IInv, CharRing!CopyIsOldest, CharRing!IsEmpty, Chars!IsEmpty, RingInv,
         Chars!CopyIsOldest, Chars!Waiting, CharRing!Waiting, CharRing!TypeOK
<1>3. SUFFICES ASSUME call' = "getchar", c' = Nothing
               PROVE  ~Chars!IsEmpty'
  BY DEF GetCharNeverHalts
<1>4. ASSUME NEW x, Chars!Put(x), ~Chars!IsEmpty PROVE ~Chars!IsEmpty'
  BY <1>4 DEF Chars!Put, Chars!IsEmpty
<1>5. ASSUME NEW s, KeyboardIrqHandler(s) PROVE ~Chars!IsEmpty'
  <2>1. CASE CtrlC(s)
    BY <1>3, <1>5, <2>1 DEF KeyboardIrqHandler, Kill
  <2>2. CASE ~CtrlC(s)
    <3>1. HandleKey(s) /\ call = "getchar"
      BY <1>3, <1>5, <2>2 DEF KeyboardIrqHandler, HandleKey
    <3>2. ~Chars!IsEmpty
      BY <1>2, <3>1 DEF GetCharNeverHalts
    <3> QED  BY <1>4, <3>1, <3>2 DEF HandleKey, charVars, Chars!IsEmpty
  <2> QED  BY <2>1, <2>2
<1>6. CASE \E key \in Key, released \in BOOLEAN : Send(key, released)
  BY <1>5, <1>6 DEF Send
<1>7. CASE SendRest
  BY <1>5, <1>7 DEF SendRest
<1>8. CASE GetCharEnter
  BY <1>3, <1>8 DEF GetCharEnter, charVars, Chars!IsEmpty
<1>9. CASE GetCharCopy
  BY <1>9 DEF GetCharCopy, Chars!GetCopy, Chars!IsEmpty
<1>10. CASE GetCharAdvance
  BY <1>3, <1>10 DEF GetCharAdvance
<1>11. CASE GetKeyCopy \/ GetKeyAdvance
  BY <1>3, <1>11 DEF GetKeyCopy, GetKeyAdvance
<1>12. CASE Switch \/ UNCHANGED vars
  BY <1>2, <1>3, <1>12 DEF Switch, vars, charVars, Chars!IsEmpty, GetCharNeverHalts
<1> QED  BY <1>6, <1>7, <1>8, <1>9, <1>10, <1>11, <1>12 DEF Next

LEMMA InitIInv == Init => IInv
<1> SUFFICES ASSUME Init PROVE IInv
  OBVIOUS
<1>1. CharRing!Init /\ EventRing!Init
  BY DEF Init, Chars!Init, CharRing!Init, Events!Init, EventRing!Init, Chars!Slot,
         CharRing!Slot, Events!Slot, EventRing!Slot
<1>2. CharRing!IInv /\ EventRing!IInv
  BY <1>1, Sizes, CharRing!InitMaps, EventRing!InitMaps
<1>3. Chars!TypeOK /\ Chars!CopyIsOldest
  BY <1>2
     DEF CharRing!IInv, Chars!TypeOK, CharRing!TypeOK, Chars!CopyIsOldest,
         CharRing!CopyIsOldest, Chars!Waiting, CharRing!Waiting, Chars!Contents,
         CharRing!Contents, Chars!SlotAt, CharRing!SlotAt, Chars!Slot, CharRing!Slot
<1>4. Events!TypeOK /\ Events!CopyIsOldest
  BY <1>2
     DEF EventRing!IInv, Events!TypeOK, EventRing!TypeOK, Events!CopyIsOldest,
         EventRing!CopyIsOldest, Events!Waiting, EventRing!Waiting, Events!Contents,
         EventRing!Contents, Events!SlotAt, EventRing!SlotAt, Events!Slot, EventRing!Slot
<1>5. FlagsOK /\ ModifierInv /\ GetCharNeverHalts
  BY DEF Init, FlagsOK, ModifierInv, HeldOrComing, GetCharNeverHalts
<1> QED  BY <1>3, <1>4, <1>5 DEF IInv, RingInv

LEMMA NextIInv == IInv /\ [Next]_vars => IInv'
<1> SUFFICES ASSUME IInv, [Next]_vars PROVE IInv'
  OBVIOUS
<1> USE DEF IInv
<1>1. RingInv'
  BY StepRings, CharStep, EventStep DEF RingInv
<1>2. GetCharNeverHalts'
  BY GetCharInv
<1>3. FlagsOK' /\ ModifierInv'
  <2>1. CASE \E key \in Key, released \in BOOLEAN : Send(key, released)
    BY <2>1, SendInv
  <2>2. CASE SendRest
    BY <2>2, SendRestInv
  <2>3. ASSUME UNCHANGED <<modifiers, down, line>>, app' \in BOOLEAN,
               call' \in {"none", "getchar", "getkey"}
        PROVE  FlagsOK' /\ ModifierInv'
    BY <2>3 DEF FlagsOK, ModifierInv, HeldOrComing, modifiers
  <2>4. CASE GetCharEnter \/ GetCharCopy \/ GetCharAdvance
    BY <2>3, <2>4 DEF FlagsOK, GetCharEnter, GetCharCopy, GetCharAdvance
  <2>5. CASE GetKeyCopy \/ GetKeyAdvance \/ Switch
    BY <2>3, <2>5 DEF FlagsOK, GetKeyCopy, GetKeyAdvance, Switch
  <2>6. CASE UNCHANGED vars
    BY <2>3, <2>6 DEF FlagsOK, vars
  <2> QED  BY <2>1, <2>2, <2>4, <2>5, <2>6 DEF Next
<1> QED  BY <1>1, <1>2, <1>3

LEMMA IInvSafe ==
    IInv => TypeOK /\ OldestFirst /\ GetCharNeverHalts /\ ModifiersAreDown
BY DEF IInv, RingInv, FlagsOK, TypeOK, OldestFirst, ModifierInv, HeldOrComing, ModifiersAreDown

(* Every variable of keyboard.c and of the calls keeps its type. *)
THEOREM KeyboardTypeCorrect == Spec => []TypeOK
BY InitIInv, NextIInv, IInvSafe, PTL DEF Spec

(* What GETCHAR or GETKEY has copied is the oldest key when it returns
   (BufferGet, KeyboardGetKeyEvent). *)
THEOREM KeysInOrder == Spec => []OldestFirst
BY InitIInv, NextIInv, IInvSafe, PTL DEF Spec

(* KeyboardGetChar, called by GETCHAR, never waits in its halt loop. *)
THEOREM GetCharReturns == Spec => []GetCharNeverHalts
BY InitIInv, NextIInv, IInvSafe, PTL DEF Spec

(* KeyboardIrqHandler never leaves a modifier on without a key held. *)
THEOREM ModifiersFollowKeys == Spec => []ModifiersAreDown
BY InitIInv, NextIInv, IInvSafe, PTL DEF Spec

(* The character ring is a bounded queue for whoever types and reads
   (BufferPut, BufferGet), for every size. *)
THEOREM CharsAreQueued == Spec => CharQueue
<1>1. Init => Chars!Queue!Init
  <2> SUFFICES ASSUME Init PROVE Chars!Queue!Init
    OBVIOUS
  <2>1. CharRing!Init
    BY DEF Init, Chars!Init, CharRing!Init, Chars!Slot, CharRing!Slot
  <2>2. CharRing!Queue!Init
    BY <2>1, Sizes, CharRing!InitMaps
  <2> QED
    BY <2>2 DEF Chars!Queue!Init, CharRing!Queue!Init, Chars!Contents, CharRing!Contents,
           Chars!Waiting, CharRing!Waiting, Chars!SlotAt, CharRing!SlotAt
<1>2. IInv /\ [Next]_vars => [Chars!Queue!Next]_Chars!Contents
  BY StepRings, CharStep DEF IInv
<1> QED  BY <1>1, <1>2, InitIInv, NextIInv, PTL DEF Spec, CharQueue, Chars!QueueSpec, Chars!Queue!Spec

(* So is the ring of key events (EventBufferPut, KeyboardGetKeyEvent). *)
THEOREM EventsAreQueued == Spec => EventQueue
<1>1. Init => Events!Queue!Init
  <2> SUFFICES ASSUME Init PROVE Events!Queue!Init
    OBVIOUS
  <2>1. EventRing!Init
    BY DEF Init, Events!Init, EventRing!Init, Events!Slot, EventRing!Slot
  <2>2. EventRing!Queue!Init
    BY <2>1, Sizes, EventRing!InitMaps
  <2> QED
    BY <2>2 DEF Events!Queue!Init, EventRing!Queue!Init, Events!Contents, EventRing!Contents,
           Events!Waiting, EventRing!Waiting, Events!SlotAt, EventRing!SlotAt
<1>2. IInv /\ [Next]_vars => [Events!Queue!Next]_Events!Contents
  BY StepRings, EventStep DEF IInv
<1> QED  BY <1>1, <1>2, InitIInv, NextIInv, PTL DEF Spec, EventQueue, Events!QueueSpec, Events!Queue!Spec

=============================================================================
