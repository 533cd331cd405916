-------------------------------- MODULE Heap --------------------------------
(***************************************************************************)
(* The kernel heap of mm/heap.c: a list of blocks that KmAlloc splits and   *)
(* KmFree joins, and that grows by pages when no block is large enough.     *)
(* CHDIR and WAITPID's clean-up call it with interrupts on, and Ctrl+C may  *)
(* abandon it; EXEC and most calls of the file system with interrupts off.  *)
(***************************************************************************)
EXTENDS Integers

CONSTANTS Header,     \* sizeof(HeapBlock)
          HEAP_MIN_BLOCK,
          PAGE_SIZE,
          InitPages,  \* the pages of HeapInit
          MaxAddr,    \* bound: the heap lies below it
          Sizes       \* the sizes asked for, rounded up to HEAP_ALIGN

HeapAssumption == /\ Header \in Nat \ {0} /\ HEAP_MIN_BLOCK \in Nat \ {0}
                  /\ PAGE_SIZE \in Nat \ {0} /\ InitPages \in Nat
                  /\ InitPages * PAGE_SIZE > Header
                  /\ MaxAddr \in Nat /\ Sizes \subseteq Nat \ {0}

ASSUME HeapAssumption

Null == 0

VARIABLES
    block,      \* the headers in the list: a function on their addresses
    g_heap_head,
    area,       \* the bytes of the pages the heap has been given
    pc, size, at, last, grown, irq,  \* the call under way, with its local variables
    given,      \* what KmAlloc returned and nobody has freed: addresses and sizes
    torn        \* Ctrl+C has struck between two writes of one change of the list

call == <<pc, size, at, last, grown, irq>>
vars == <<block, g_heap_head, area, call, given, torn>>

List == DOMAIN block
End(b) == b + Header + block[b].size
Bytes(b, n) == b .. b + n - 1

Idle == pc' = "idle" /\ size' = 0 /\ at' = Null /\ last' = Null /\ grown' = FALSE /\ irq' = FALSE
Goto(p) == pc' = p /\ UNCHANGED <<size, at, last, grown, irq>>

(* Pages that are free and in a row, wherever they are. *)
Pages(n) == {p \in 1 .. MaxAddr : /\ p % PAGE_SIZE = 0 /\ p + n * PAGE_SIZE <= MaxAddr
                                  /\ Bytes(p, n * PAGE_SIZE) \cap area = {}}

Alone(n, behind) == [size |-> n * PAGE_SIZE - Header, free |-> TRUE, next |-> Null,
                     prev |-> behind]

(* HeapInit, with interrupts off. *)
Init == /\ area \in {Bytes(p, InitPages * PAGE_SIZE) : p \in {p \in 1 .. MaxAddr :
                        p % PAGE_SIZE = 0 /\ p + InitPages * PAGE_SIZE <= MaxAddr}}
        /\ g_heap_head \in area /\ \A a \in area : g_heap_head <= a
        /\ block = [b \in {g_heap_head} |-> Alone(InitPages, Null)]
        /\ pc = "idle" /\ size = 0 /\ at = Null /\ last = Null /\ grown = FALSE /\ irq = FALSE
        /\ given = {} /\ torn = FALSE

-----------------------------------------------------------------------------
(* KmAlloc. *)

Begin(n) == /\ pc = "idle" /\ ~torn
            /\ pc' = "walk" /\ size' = n /\ at' = g_heap_head /\ last' = Null /\ grown' = FALSE
            /\ irq' \in BOOLEAN
            /\ UNCHANGED <<block, g_heap_head, area, given, torn>>

Fits(b) == block[b].free /\ block[b].size >= size

Walk == /\ pc = "walk" /\ at # Null
        /\ IF Fits(at) THEN Goto("split")
           ELSE at' = block[at].next /\ last' = at /\ UNCHANGED <<pc, size, grown, irq>>
        /\ UNCHANGED <<block, g_heap_head, area, given, torn>>

NeededPages_NoHeader == (size + PAGE_SIZE - 1) \div PAGE_SIZE
NeededPages == (size + Header + PAGE_SIZE - 1) \div PAGE_SIZE

(* HeapExpand at the end of the list, then KmAlloc once more. *)
HeapExpand ==
    /\ pc = "walk" /\ at = Null
    /\ \E b \in Pages(NeededPages) :
          /\ area' = area \cup Bytes(b, NeededPages * PAGE_SIZE)
          /\ block' = [c \in List \cup {b} |->
                          IF c = b THEN Alone(NeededPages, last)
                          ELSE IF c = last THEN [block[c] EXCEPT !.next = b] ELSE block[c]]
    /\ at' = g_heap_head /\ last' = Null /\ grown' = TRUE
    /\ UNCHANGED <<g_heap_head, pc, size, irq, given, torn>>

(* KdPanic: there are no such pages. *)
Panic == /\ pc = "walk" /\ at = Null
         /\ Goto("panic")
         /\ UNCHANGED <<block, g_heap_head, area, given, torn>>

Splits == block[at].size >= size + Header + HEAP_MIN_BLOCK

HeapSplitBlock_NoHeader ==
    LET new == at + Header + size
    IN  block' = [c \in List \cup {new} |->
                     IF c = new THEN [size |-> block[at].size - size, free |-> TRUE,
                                      next |-> block[at].next, prev |-> at]
                     ELSE IF c = at THEN [block[c] EXCEPT !.size = size, !.next = new]
                     ELSE IF c = block[at].next THEN [block[c] EXCEPT !.prev = new] ELSE block[c]]

HeapSplitBlock ==
    LET new == at + Header + size
    IN  block' = [c \in List \cup {new} |->
                     IF c = new THEN [size |-> block[at].size - size - Header, free |-> TRUE,
                                      next |-> block[at].next, prev |-> at]
                     ELSE IF c = at THEN [block[c] EXCEPT !.size = size, !.next = new]
                     ELSE IF c = block[at].next THEN [block[c] EXCEPT !.prev = new] ELSE block[c]]

Split == /\ pc = "split" /\ Goto("take")
         /\ IF Splits THEN HeapSplitBlock ELSE UNCHANGED block
         /\ UNCHANGED <<g_heap_head, area, given, torn>>

Take == /\ pc = "take" /\ Idle
        /\ block' = [block EXCEPT ![at].free = FALSE]
        /\ given' = given \cup {[at |-> at, size |-> size]}
        /\ UNCHANGED <<g_heap_head, area, torn>>

-----------------------------------------------------------------------------
(* KmFree, and HeapCoalesce with the block behind and the one in front. *)

Free(g) == /\ pc = "idle" /\ ~torn
           /\ IF block[g.at].free THEN pc' = "panic" /\ UNCHANGED block
              ELSE pc' = "next" /\ block' = [block EXCEPT ![g.at].free = TRUE]
           /\ at' = g.at /\ size' = 0 /\ last' = Null /\ grown' = FALSE
           /\ irq' \in BOOLEAN
           /\ given' = given \ {g}
           /\ UNCHANGED <<g_heap_head, area, torn>>

(* Block b, which follows a in the list, becomes a part of it. *)
Join_KeepsPrev(a, b) ==
    block' = [c \in List \ {b} |->
                 IF c = a THEN [block[a] EXCEPT !.size = @ + Header + block[b].size,
                                                !.next = block[b].next]
                 ELSE block[c]]
Join(a, b) ==
    block' = [c \in List \ {b} |->
                 IF c = a THEN [block[a] EXCEPT !.size = @ + Header + block[b].size,
                                                !.next = block[b].next]
                 ELSE IF c = block[b].next THEN [block[c] EXCEPT !.prev = a] ELSE block[c]]

JoinsNext == LET b == block[at].next IN b # Null /\ block[b].free /\ End(at) = b
JoinsPrev == LET b == block[at].prev IN b # Null /\ block[b].free /\ End(b) = at

CoalesceNext == /\ pc = "next" /\ Goto("prev")
                /\ IF JoinsNext THEN Join(at, block[at].next) ELSE UNCHANGED block
                /\ UNCHANGED <<g_heap_head, area, given, torn>>

CoalescePrev == /\ pc = "prev" /\ Idle
                /\ IF JoinsPrev THEN Join(block[at].prev, at) ELSE UNCHANGED block
                /\ UNCHANGED <<g_heap_head, area, given, torn>>

-----------------------------------------------------------------------------
(* A split and a joining are three writes, here one step; Ctrl+C between two of them
   leaves only the first, or the first two, done.  Such a list is not followed any
   further: KmAlloc may give the same memory twice, panic, or go round for ever, since
   a block split at the same place again is its own successor. *)
Torn(a, b) == \* the joining
    \/ block' = [block EXCEPT ![a].size = @ + Header + block[b].size]
    \/ block' = [block EXCEPT ![a].size = @ + Header + block[b].size, ![a].next = block[b].next]

TornSplit ==
    LET new == at + Header + size
        f == [c \in List \cup {new} |->
                 IF c = new THEN [size |-> block[at].size - size - Header, free |-> TRUE,
                                  next |-> block[at].next, prev |-> at]
                 ELSE IF c = block[at].next THEN [block[c] EXCEPT !.prev = new] ELSE block[c]]
    IN  block' = f \/ block' = [f EXCEPT ![at].next = new]

CtrlC == /\ irq /\ pc \notin {"idle", "panic"} /\ Idle
         /\ \/ UNCHANGED <<block, torn>>
            \/ /\ torn' = TRUE
               /\ \/ pc = "split" /\ Splits /\ TornSplit
                  \/ pc = "next" /\ JoinsNext /\ Torn(at, block[at].next)
                  \/ pc = "prev" /\ JoinsPrev /\ Torn(block[at].prev, at)
         /\ UNCHANGED <<g_heap_head, area, given>>

Next == \/ \E n \in Sizes : Begin(n)
        \/ Walk \/ HeapExpand \/ Panic \/ Split \/ Take
        \/ \E g \in given : Free(g)
        \/ CoalesceNext \/ CoalescePrev
        \/ CtrlC

Spec == Init /\ [][Next]_vars

-----------------------------------------------------------------------------
(* What KmAlloc has handed out lies in the heap, apart from everything else it has
   handed out and from every header of the list, after any number of splits and
   joinings, and wherever calls were abandoned but between two writes of one change. *)
Memory(g) == Bytes(g.at + Header, g.size)
MemoryGivenOnce ==
    ~torn => \A g \in given :
                /\ Memory(g) \subseteq area
                /\ \A b \in List : Bytes(b, Header) \cap Memory(g) = {}
                /\ \A h \in given : g # h => Memory(g) \cap Memory(h) = {}

(* The blocks cover all the heap has been given and no byte twice; the list can be
   followed in both directions and ends once; a block that is not free has a user, so
   that a killed call loses memory only after KmAlloc has returned to it. *)
BlocksTile ==
    ~torn =>
      /\ \A u \in area : \E b \in List : b <= u /\ u < End(b)
      /\ \A b, c \in List : b < c => End(b) <= c
      /\ \A b \in List : /\ block[b].next # Null => block[b].next \in List
                                                    /\ block[block[b].next].prev = b
                         /\ block[b].prev # Null => block[b].prev \in List
                                                    /\ block[block[b].prev].next = b
      /\ \A b \in List : block[b].free \/ \E g \in given : g.at = b

(* KmAlloc calls itself after the heap has grown: it then finds a block, and does not
   go on growing until memory has run out. *)
GrowsOnce == grown /\ pc = "walk" => at # Null
============================================================================
