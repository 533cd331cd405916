------------------------------ MODULE Keyboard ------------------------------
(***************************************************************************)
(* The keyboard driver, keyboard.c: two rings, one of characters and one   *)
(* of key events, the modifier keys, and the calls GETCHAR and GETKEY with *)
(* the interrupt between any two of their steps.  Ctrl+C kills the program *)
(* that runs.  The keyboard itself is external.                            *)
(***************************************************************************)
EXTENDS Naturals, Sequences, FiniteSets

CONSTANTS
    KBD_BUFFER_SIZE, KBD_EVENT_BUFFER_SIZE,
    ShiftKey, CtrlKey,  \* raw codes of the modifier keys
    CapsKey,            \* the caps lock key
    KeyC,               \* the letter C
    Letter, Symbol,     \* raw codes with a character; Ctrl changes letters
    Silent,             \* raw codes without one
    Extended,           \* the raw codes of keys that exist twice
    Prefix,             \* what is left of 0xE0, sent before an extended key
    Nothing

Raw == ShiftKey \cup CtrlKey \cup CapsKey \cup Letter \cup Symbol \cup Silent

ASSUME KeyAssumption == /\ KeyC \in Letter /\ Prefix \notin Raw
                        /\ Extended \subseteq Raw
                        /\ Nothing \notin [raw : Raw, released : BOOLEAN]

Char == (Letter \X {"lower", "upper", "control"}) \cup (Symbol \X {"lower", "upper"})

KeyEvent == [scancode : Raw \cup {Prefix}, pressed : BOOLEAN]

VARIABLES
    g_kbd_buffer, g_kbd_read_pos, g_kbd_write_pos,
    g_kbd_events, g_kbd_event_read, g_kbd_event_write,
    g_shift_state, g_ctrl_state, g_caps_lock,
    app,    \* the current process is not the shell: its pid is above 1
    call,   \* the call it is in
    c, ev,  \* that call's copy of a character, of an event
    down,   \* the modifier keys held down, <<raw code, extended>>
    line    \* the scan code that follows a prefix, to be sent next

charVars == <<g_kbd_buffer, g_kbd_read_pos, g_kbd_write_pos, c>>
eventVars == <<g_kbd_events, g_kbd_event_read, g_kbd_event_write, ev>>
modifiers == <<g_shift_state, g_ctrl_state, g_caps_lock>>
vars == <<charVars, eventVars, modifiers, app, call, down, line>>

Chars == INSTANCE KeyRing
             WITH Size <- KBD_BUFFER_SIZE, Item <- Char, NoItem <- Nothing,
                  buffer <- g_kbd_buffer, read_pos <- g_kbd_read_pos,
                  write_pos <- g_kbd_write_pos, item <- c

Events == INSTANCE KeyRing
              WITH Size <- KBD_EVENT_BUFFER_SIZE, Item <- KeyEvent, NoItem <- Nothing,
                   buffer <- g_kbd_events, read_pos <- g_kbd_event_read,
                   write_pos <- g_kbd_event_write, item <- ev

ASSUME RingAssumption == Chars!SizeAssumption /\ Events!SizeAssumption

(* KeInitKeyboard; the events are reset by the loading of the kernel. *)
Init == /\ Chars!Init /\ Events!Init
        /\ g_shift_state = FALSE /\ g_ctrl_state = FALSE /\ g_caps_lock = FALSE
        /\ app = FALSE /\ call = "none"
        /\ down = {} /\ line = Nothing

-----------------------------------------------------------------------------
(* KeyboardIrqHandler.  0xE0 is not seen as the prefix it is: its top bit is
   cut off before the test, so it is handled as the release of a key. *)

CtrlC(s) == g_ctrl_state /\ ~s.released /\ s.raw = KeyC /\ app

(* SyscallKillCurrentProcess: the call is abandoned, another process runs. *)
Kill == /\ app' \in BOOLEAN /\ call' = "none"
        /\ Chars!Abandon /\ Events!Abandon
        /\ UNCHANGED modifiers

SetModifiers_StickyCtrl(s) ==
    /\ g_shift_state' = IF s.raw \in ShiftKey THEN ~s.released ELSE g_shift_state
    /\ g_ctrl_state' = (g_ctrl_state \/ (s.raw \in CtrlKey /\ ~s.released))
    /\ g_caps_lock' = IF s.raw \in CapsKey /\ ~s.released THEN ~g_caps_lock ELSE g_caps_lock
SetModifiers(s) ==
    /\ g_shift_state' = IF s.raw \in ShiftKey THEN ~s.released ELSE g_shift_state
    /\ g_ctrl_state' = IF s.raw \in CtrlKey THEN ~s.released ELSE g_ctrl_state
    /\ g_caps_lock' = IF s.raw \in CapsKey /\ ~s.released THEN ~g_caps_lock ELSE g_caps_lock

CharOf(raw) == <<raw, IF g_ctrl_state /\ raw \in Letter THEN "control"
                      ELSE IF g_shift_state # g_caps_lock THEN "upper" ELSE "lower">>

HandleKey(s) ==
    /\ SetModifiers(s)
    /\ Events!Put([scancode |-> s.raw, pressed |-> ~s.released])
    /\ IF ~s.released /\ s.raw \in Letter \cup Symbol
       THEN Chars!Put(CharOf(s.raw))
       ELSE UNCHANGED charVars
    /\ UNCHANGED <<app, call>>

KeyboardIrqHandler(s) == IF CtrlC(s) THEN Kill ELSE HandleKey(s)

(* The keyboard: a key goes down (again and again while it is held) or comes
   up.  A key that exists twice sends a prefix first. *)
Key == (Raw \X {FALSE}) \cup (Extended \X {TRUE})

Scancode(raw, released) == [raw |-> raw, released |-> released]

Modifier == {key \in Key : key[1] \in ShiftKey \cup CtrlKey}

Send(key, released) ==
    /\ line = Nothing
    /\ released /\ key \in Modifier => key \in down
    /\ down' = IF released THEN down \ {key} ELSE down \cup ({key} \cap Modifier)
    /\ IF key[2]
       THEN /\ line' = Scancode(key[1], released)
            /\ KeyboardIrqHandler(Scancode(Prefix, TRUE))
       ELSE /\ line' = Nothing
            /\ KeyboardIrqHandler(Scancode(key[1], released))

SendRest == /\ line # Nothing
            /\ KeyboardIrqHandler(line)
            /\ line' = Nothing /\ UNCHANGED down

-----------------------------------------------------------------------------
(* The calls, with interrupts on. *)

(* SYS_GETCHAR: KeyboardHasChar, then KeyboardGetChar, which would halt
   until a key comes if the ring were empty by then. *)
GetCharEnter_NoLook == /\ call = "none" /\ call' = "getchar"
                       /\ UNCHANGED <<charVars, eventVars, modifiers, app, down, line>>
GetCharEnter == /\ call = "none"
                /\ call' = IF Chars!IsEmpty THEN "none" ELSE "getchar"
                /\ UNCHANGED <<charVars, eventVars, modifiers, app, down, line>>

GetCharCopy == /\ call = "getchar" /\ Chars!GetCopy
               /\ UNCHANGED <<eventVars, modifiers, app, call, down, line>>

GetCharAdvance == /\ call = "getchar" /\ Chars!GetAdvance
                  /\ call' = "none"
                  /\ UNCHANGED <<eventVars, modifiers, app, down, line>>

(* SYS_GETKEY: KeyboardGetKeyEvent. *)
GetKeyCopy == /\ call = "none" /\ Events!GetCopy
              /\ call' = "getkey"
              /\ UNCHANGED <<charVars, modifiers, app, down, line>>

GetKeyAdvance == /\ call = "getkey" /\ Events!GetAdvance
                 /\ call' = "none"
                 /\ UNCHANGED <<charVars, modifiers, app, down, line>>

(* EXEC, EXIT and faults: another process is the current one. *)
Switch == /\ call = "none" /\ app' = ~app
          /\ UNCHANGED <<charVars, eventVars, modifiers, call, down, line>>

Next == \/ \E key \in Key, released \in BOOLEAN : Send(key, released)
        \/ SendRest
        \/ GetCharEnter \/ GetCharCopy \/ GetCharAdvance
        \/ GetKeyCopy \/ GetKeyAdvance
        \/ Switch

Spec == Init /\ [][Next]_vars

-----------------------------------------------------------------------------

TypeOK == /\ Chars!TypeOK /\ Events!TypeOK
          /\ <<g_shift_state, g_ctrl_state, g_caps_lock, app>> \in BOOLEAN \X BOOLEAN \X BOOLEAN \X BOOLEAN
          /\ call \in {"none", "getchar", "getkey"}
          /\ down \subseteq Modifier
          /\ line \in [raw : Extended, released : BOOLEAN] \cup {Nothing}

(* Characters come out in the order typed, the newest is dropped when the
   ring is full, a kill in the middle of GETCHAR takes nothing out of it and
   leaves it whole for the next process. *)
CharQueue == Chars!QueueSpec

(* The same of the key events and GETKEY. *)
EventQueue == Events!QueueSpec

(* What GETCHAR or GETKEY is about to return is the oldest key, although the
   interrupt may have put others, or found the ring full, since it was copied. *)
OldestFirst == Chars!CopyIsOldest /\ Events!CopyIsOldest

(* KeyboardGetChar never comes to its halt loop: GETCHAR has looked before,
   and nobody else takes the character in between. *)
GetCharNeverHalts == call = "getchar" /\ c = Nothing => ~Chars!IsEmpty

(* Once the keyboard has sent all it has to, a modifier is on only while one of
   its keys is held, whatever was killed in between and although the driver
   cannot tell the two keys of one modifier apart. *)
ModifiersAreDown ==
    line = Nothing =>
        /\ g_shift_state => \E key \in down : key[1] \in ShiftKey
        /\ g_ctrl_state => \E key \in down : key[1] \in CtrlKey
=============================================================================
