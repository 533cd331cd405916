SPECIFICATION Spec
CONSTANTS
    KBD_BUFFER_SIZE = 3
    KBD_EVENT_BUFFER_SIZE = 2
    ShiftKey = {}
    CtrlKey = {ctrl}
    CapsKey = {}
    KeyC = letterC
    Letter = {letterC}
    Symbol = {}
    Silent = {}
    Extended = {ctrl}
    Prefix = e0
    Nothing = Nothing
INVARIANTS TypeOK OldestFirst GetCharNeverHalts ModifiersAreDown
PROPERTIES CharQueue EventQueue
