------------------------------- MODULE Memory -------------------------------
(***************************************************************************)
(* Who owns which page of physical memory: the page allocator mm/pmm.c,    *)
(* the page tables of mm/vmm.c, the program loader that fills an address   *)
(* space (loader/pe_loader.c, proc/process.c), the system calls that add   *)
(* to it (MMAP, FB_MAP of arch/syscall.c), the page a disk driver borrows  *)
(* for a transfer (fs/nvme.c) and the clean-up of ended processes.         *)
(*                                                                         *)
(* Which process runs is the subject of Scheduler; here it is the newest   *)
(* live one, which is what SchedulerProofs!ImplementsJobStack gives.       *)
(*                                                                         *)
(* A step allocates or frees at most one page or one block of pages.  The  *)
(* loader runs with interrupts off, so nothing comes between its steps;    *)
(* MMAP, FB_MAP, a transfer and WAITPID's clean-up run with interrupts on, *)
(* and Ctrl+C may abandon them after any step.                             *)
(***************************************************************************)
EXTENDS Integers, FiniteSets

CONSTANTS
  Highest,     \* g_pmm_highest_page: pages below it are tracked
  Boot,        \* pages in use when the shell is loaded, page 0 among them
  Pinned,      \* those of them marked in g_pmm_pinned
  Identity,    \* virtual pages VmmCreateAddressSpace maps to themselves
  Image,       \* virtual pages of a program
  NoExec,      \* those its headers and sections make VMM_NX
  Stack,       \* virtual pages of a user stack
  StackPages,  \* how many they are
  Heap,        \* bound: virtual pages the heap may reach
  HeapBase,    \* heap_base, the page after the image
  Index,       \* Index[l][v]: the entry of level l that translates page v
  KStackPages, \* pages of a kernel stack, 16
  GrowPages,   \* pages the kernel heap grows by
  FbBase,      \* first page of the framebuffer
  FbPages,     \* its pages
  DmaMin,      \* the page at 1 MB
  DmaTries,    \* attempts of NvmeAllocDmaPage, 128
  MaxAsk,      \* bound: pages asked of one MMAP
  MaxKernel,   \* bound: pages the kernel may come to keep
  MaxPid       \* bound: process ids are 1..MaxPid; the shell is 1

Absent     == -1
Run(b, n)  == b..(b + n - 1)
Tracked    == 0..(Highest - 1)
Fb         == Run(FbBase, FbPages)
UserPages  == Image \cup Stack \cup Heap
Virt       == Identity \cup UserPages
Pid        == 1..MaxPid
Shell      == 1

\* Entries of a process's page tables.  At level 0 an entry is the PTE of one
\* page and names the page mapped; at levels 1, 2 and 3 it names a PT, a PD
\* and a PDPT, and at level 4 it is page_table itself, the PML4.
At(l, v) == <<l, Index[l][v]>>
Slot == {At(l, v) : l \in 0..4, v \in Virt}
Pml4 == <<4, 0>>
Phys == Tracked \cup Identity \cup Fb

\* User memory does not reach into the identity mappings, a program not into its
\* stack, and the framebuffer lies above the memory the allocator tracks.
MemoryAssumption ==
  /\ Highest \in Nat /\ FbBase \in Nat /\ Highest <= FbBase
  /\ KStackPages \in Nat \ {0} /\ StackPages \in Nat \ {0}
  /\ GrowPages \in Nat \ {0} /\ FbPages \in Nat
  /\ MaxPid \in Nat \ {0} /\ MaxAsk \in Nat
  /\ 0 \in Boot /\ Boot \subseteq Tracked /\ Pinned \subseteq Boot
  /\ Identity # {} /\ Identity \subseteq Nat /\ UserPages \subseteq Nat
  /\ Identity \cap UserPages = {} /\ Image \cap Stack = {}
  /\ NoExec \subseteq Image
  /\ IsFiniteSet(Stack) /\ Cardinality(Stack) = StackPages
  /\ HeapBase \in Nat /\ DmaMin \in Nat /\ DmaTries \in Nat
  /\ \A v \in Virt : Index[0][v] = v /\ Index[4][v] = 0

ASSUME MemoryAssumption

VARIABLES
  used,      \* g_pmm_bitmap
  kernel,    \* pages the kernel took for good: Boot and the kernel heap
  entry,     \* the page tables of each process
  nx,        \* the pages mapped with VMM_NX, bit 63 of the PTE
  kstk,      \* first page of each process's kernel stack
  brk,       \* heap_brk
  live,      \* listed processes that have not ended
  dead,      \* listed processes in state TERMINATED
  nextPid,   \* g_next_pid
  mode,      \* how far the kernel has got, "user" outside it
  irq,       \* interrupts are on
  pid,       \* the process being loaded, extended or freed
  todo,      \* virtual pages its loop has still to map
  ask,       \* the pages the loop maps in all
  hold       \* pages only a local variable of the kernel knows

vars == <<used, kernel, entry, nx, kstk, brk, live, dead, nextPid, mode, irq,
          pid, todo, ask, hold>>

procs == <<live, dead, nextPid>>

\* file .. kstack: PeLoadProgram, in the order of its allocations
\* mmap, mmapmap, fbmap:     MMAP, FB_MAP
\* dma .. io:                a disk transfer
\* clean, unlinked, walk:    PsCleanupTerminated
MapModes  == {"identity", "imagemap", "stackmap", "mmapmap", "fbmap"}
LoadModes == {"file", "process", "pml4", "identity", "image", "imagemap",
              "thread", "stack", "stackmap", "kstack"}
FreeModes == {"unlinked", "walk"}
Modes == {"user", "mmap", "dma", "dmalow", "dmaany", "io", "clean", "stopped"}
           \cup MapModes \cup LoadModes \cup FreeModes

TypeOK ==
  /\ used \subseteq Tracked /\ kernel \subseteq Tracked /\ hold \subseteq Tracked
  /\ entry \in [Pid -> [Slot -> Phys \cup {Absent}]]
  /\ nx \in [Pid -> SUBSET (Stack \cup NoExec)]
  /\ kstk \in [Pid -> Tracked \cup {Absent}]
  /\ brk \in [Pid -> Nat]
  /\ live \subseteq Pid /\ dead \subseteq Pid
  /\ nextPid \in 1..(MaxPid + 1) /\ pid \in Pid
  /\ mode \in Modes /\ irq \in BOOLEAN
  /\ todo \subseteq Virt /\ ask \in Nat

KStack(p) == IF kstk[p] = Absent THEN {} ELSE Run(kstk[p], KStackPages)

NoEntries == [s \in Slot |-> Absent]

\* KeLaunchShell loads the first program.
Init ==
  /\ used = Boot /\ kernel = Boot
  /\ entry = [p \in Pid |-> NoEntries] /\ nx = [p \in Pid |-> {}]
  /\ kstk = [p \in Pid |-> Absent]
  /\ brk = [p \in Pid |-> HeapBase]
  /\ live = {} /\ dead = {}
  /\ nextPid = Shell + 1
  /\ mode = "file" /\ irq = FALSE
  /\ pid = Shell /\ todo = {} /\ ask = 0 /\ hold = {}

-----------------------------------------------------------------------------
(* The page allocator.                                                     *)

Free == Tracked \ used

Least(S) == {x \in S : \A y \in S : x <= y}   \* empty, or one element

\* PmmAllocPages(n) returns b: the first n free pages in a row.
AllocPages(n, b) ==
  /\ b \in Free
  /\ Run(b, n) \subseteq Free
  /\ \A c \in Free : c < b => ~(Run(c, n) \subseteq Free)
  /\ used' = used \cup Run(b, n)

\* It returns 0 and changes nothing.
AllocFails(n) ==
  /\ \A b \in Free : ~(Run(b, n) \subseteq Free)
  /\ UNCHANGED used

AllocPage(b) == AllocPages(1, b)

\* PmmFreePage of each page of S: page 0, pinned pages and free pages are let be.
FreePages(S) == used' = used \ (S \ (Pinned \cup {0}))

\* The process that runs: the newest.
Current == {p \in live : \A q \in live : q <= p}

-----------------------------------------------------------------------------
(* VmmMapPage, for the least page of todo.                                 *)

\* The tables on the way to v that are missing.
Missing(v) == {l \in 1..3 : entry[pid][At(l, v)] = Absent}

\* The page v is to be mapped to.
PageFor_OffByOne(v) ==
  CASE mode = "identity" -> {v}
    [] mode = "fbmap"    -> {FbBase + (v - brk[pid]) + 1}
    [] OTHER             -> Least(hold)
PageFor(v) ==
  CASE mode = "identity" -> {v}
    [] mode = "fbmap"    -> {FbBase + (v - brk[pid])}
    [] OTHER             -> Least(hold)

\* Where the loop around VmmMapPage goes on.
AfterMap ==
  CASE mode = "imagemap" -> "image"
    [] mode = "mmapmap"  -> "mmap"
    [] OTHER             -> mode

SetEntry(s, page) == entry' = [entry EXCEPT ![pid][s] = page]

\* GetNextLevel allocates the topmost missing table.
NextLevel(v) ==
  \E l \in Missing(v) : \E b \in Free :
    /\ \A m \in Missing(v) : m <= l
    /\ AllocPage(b)
    /\ SetEntry(At(l, v), b)
    /\ UNCHANGED <<nx, todo, hold, mode>>

\* The pages of the process with VMM_NX, once v is mapped: the flags are the
\* caller's, and only PsCreateThread's have it among the pages of users.
NxWith(v) == CASE mode = "identity" -> nx[pid]
               [] mode = "stackmap" -> nx[pid] \cup {v}
               [] OTHER             -> nx[pid] \ {v}

SetNx(S) == nx' = [nx EXCEPT ![pid] = S]

\* VmmMapPage writes the PTE, whatever it held before, or, when a table was
\* needed and there was no memory for it, returns without a word.
PutPage(v, page) ==
  /\ IF Missing(v) = {} THEN SetEntry(<<0, v>>, page) /\ SetNx(NxWith(v))
                        ELSE Free = {} /\ UNCHANGED <<entry, nx>>
  /\ todo' = todo \ {v}
  /\ hold' = hold \ {page}
  /\ mode' = AfterMap
  /\ UNCHANGED used

VmmMapPage ==
  /\ mode \in MapModes
  /\ \E v \in Least(todo) :
       NextLevel(v) \/ \E page \in PageFor(v) : PutPage(v, page)
  /\ UNCHANGED <<kernel, kstk, brk, procs, irq, pid, ask>>

-----------------------------------------------------------------------------
(* EXEC: PeLoadProgram, PsCreateProcess, VmmCreateAddressSpace and          *)
(* PsCreateThread.                                                         *)

Exec ==
  /\ mode = "user" /\ nextPid <= MaxPid
  /\ pid' = nextPid
  /\ nextPid' = nextPid + 1
  /\ mode' = "file" /\ irq' = FALSE
  /\ UNCHANGED <<used, kernel, entry, nx, kstk, brk, live, dead, todo, ask, hold>>

\* KmAlloc: from the kernel heap, which may first have to grow and panics
\* when it cannot.
KmAlloc(from, to) ==
  /\ mode = from
  /\ \/ mode' = to /\ UNCHANGED <<used, kernel>>
     \/ \E b \in Free : /\ Cardinality(kernel) + GrowPages <= MaxKernel
                        /\ AllocPages(GrowPages, b)
                        /\ kernel' = kernel \cup Run(b, GrowPages)
                        /\ mode' = to
     \/ AllocFails(GrowPages) /\ mode' = "stopped" /\ UNCHANGED kernel
  /\ UNCHANGED <<entry, nx, kstk, brk, procs, irq, pid, todo, ask, hold>>

\* The error return of EXEC.  PsDestroyProcess hands PmmFreePage addresses of
\* the higher half and skips the part of the tables that is in use, so nothing
\* is freed.  Without its shell the machine halts.
LoadFails ==
  /\ entry' = [entry EXCEPT ![pid] = NoEntries] /\ SetNx({})
  /\ todo' = {} /\ hold' = {}
  /\ mode' = IF live = {} THEN "stopped" ELSE "user"
  /\ irq' = TRUE
  /\ UNCHANGED <<kernel, kstk, brk, procs, pid, ask>>

LoadPml4 ==
  /\ mode = "pml4"
  /\ \/ \E b \in Free :
          /\ AllocPage(b)
          /\ SetEntry(Pml4, b)
          /\ mode' = "identity" /\ todo' = Identity
          /\ UNCHANGED <<kernel, nx, kstk, brk, procs, irq, pid, ask, hold>>
     \/ AllocFails(1) /\ LoadFails

\* The loop over the identity mappings is done.
LoadIdentity ==
  /\ mode = "identity" /\ todo = {}
  /\ mode' = "image" /\ todo' = Image
  /\ UNCHANGED <<used, kernel, entry, nx, kstk, brk, procs, irq, pid, ask, hold>>

LoadImage ==
  /\ mode = "image" /\ todo # {}
  /\ \/ \E b \in Free :
          /\ AllocPage(b)
          /\ hold' = {b} /\ mode' = "imagemap"
          /\ UNCHANGED <<kernel, entry, nx, kstk, brk, procs, irq, pid, todo,
                         ask>>
     \/ AllocFails(1) /\ LoadFails

\* The image is in memory, and the loader maps its headers and sections once
\* more, with their own flags.
LoadThread ==
  /\ mode = "image" /\ todo = {}
  /\ SetNx({v \in NoExec : entry[pid][<<0, v>>] # Absent})
  /\ mode' = "thread"
  /\ UNCHANGED <<used, kernel, entry, kstk, brk, procs, irq, pid, todo, ask,
                 hold>>

LoadStack ==
  /\ mode = "stack"
  /\ \/ \E b \in Free :
          /\ AllocPages(StackPages, b)
          /\ hold' = Run(b, StackPages)
          /\ mode' = "stackmap" /\ todo' = Stack
          /\ UNCHANGED <<kernel, entry, nx, kstk, brk, procs, irq, pid, ask>>
     \/ AllocFails(StackPages) /\ LoadFails

LoadStackDone ==
  /\ mode = "stackmap" /\ todo = {}
  /\ mode' = "kstack"
  /\ UNCHANGED <<used, kernel, entry, nx, kstk, brk, procs, irq, pid, todo, ask,
                 hold>>

\* The kernel stack comes last, and the new process runs.
LoadKStack_Unchecked ==
  /\ mode = "kstack"
  /\ \/ \E b \in Free :
          /\ AllocPages(KStackPages, b)
          /\ kstk' = [kstk EXCEPT ![pid] = b]
          /\ brk' = [brk EXCEPT ![pid] = HeapBase]
          /\ live' = live \cup {pid}
          /\ mode' = "user" /\ irq' = TRUE
          /\ UNCHANGED <<kernel, entry, nx, dead, nextPid, pid, todo, ask, hold>>
     \/ /\ AllocFails(KStackPages)
        /\ kstk' = [kstk EXCEPT ![pid] = 0]
        /\ brk' = [brk EXCEPT ![pid] = HeapBase]
        /\ live' = live \cup {pid}
        /\ mode' = "user" /\ irq' = TRUE
        /\ UNCHANGED <<kernel, entry, nx, dead, nextPid, pid, todo, ask, hold>>

LoadKStack ==
  /\ mode = "kstack"
  /\ \/ \E b \in Free :
          /\ AllocPages(KStackPages, b)
          /\ kstk' = [kstk EXCEPT ![pid] = b]
          /\ brk' = [brk EXCEPT ![pid] = HeapBase]
          /\ live' = live \cup {pid}
          /\ mode' = "user" /\ irq' = TRUE
          /\ UNCHANGED <<kernel, entry, nx, dead, nextPid, pid, todo, ask, hold>>
     \/ AllocFails(KStackPages) /\ LoadFails

Load ==
  \/ KmAlloc("file", "process") \/ KmAlloc("process", "pml4")
  \/ LoadPml4 \/ LoadIdentity \/ LoadImage \/ LoadThread
  \/ KmAlloc("thread", "stack")
  \/ LoadStack \/ LoadStackDone \/ LoadKStack

-----------------------------------------------------------------------------
(* MMAP, FB_MAP and a disk transfer, with interrupts on.                   *)

\* The heap is to grow by n pages, mapped one by one.
Grow(n, m) ==
  /\ mode = "user"
  /\ \E p \in Current :
       /\ Run(brk[p], n) \subseteq Heap
       /\ pid' = p
       /\ todo' = Run(brk[p], n)
  /\ ask' = n
  /\ mode' = m
  /\ UNCHANGED <<used, kernel, entry, nx, kstk, brk, procs, irq, hold>>

Mmap == \E n \in 1..MaxAsk : Grow(n, "mmap")

FbMap == Grow(FbPages, "fbmap")

\* One turn of MMAP's loop, which ends early when memory has run out.
MmapAlloc ==
  /\ mode = "mmap" /\ todo # {}
  /\ \/ \E b \in Free : AllocPage(b) /\ hold' = {b} /\ mode' = "mmapmap"
                        /\ UNCHANGED todo
     \/ AllocFails(1) /\ todo' = {} /\ UNCHANGED <<hold, mode>>
  /\ UNCHANGED <<kernel, entry, nx, kstk, brk, procs, irq, pid, ask>>

\* Both calls move heap_brk, however their loop ended.
GrowReturn ==
  /\ mode \in {"mmap", "fbmap"} /\ todo = {}
  /\ brk' = [brk EXCEPT ![pid] = brk[pid] + ask]
  /\ mode' = "user" /\ ask' = 0
  /\ UNCHANGED <<used, kernel, entry, nx, kstk, procs, irq, pid, todo, hold>>

\* A driver takes a page for one transfer, in a call that reads the disk with
\* interrupts on (CHDIR, DISKFREE).  NvmeAllocDmaPage allocates until it gets
\* a page that is not below 1 MB, frees the low ones, and takes any page when
\* it has found none.
TransferBegin ==
  /\ mode = "user"
  /\ mode' = "dma"
  /\ UNCHANGED <<used, kernel, entry, nx, kstk, brk, procs, irq, pid, todo, ask,
                 hold>>

DmaAlloc ==
  /\ mode = "dma"
  /\ \/ \E b \in Free : /\ Cardinality(hold) < DmaTries
                        /\ AllocPage(b)
                        /\ hold' = hold \cup {b}
                        /\ mode' = IF b < DmaMin THEN "dma" ELSE "dmalow"
     \/ /\ Cardinality(hold) = DmaTries \/ Free = {}
        /\ mode' = "dmalow" /\ UNCHANGED <<used, hold>>
  /\ UNCHANGED <<kernel, entry, nx, kstk, brk, procs, irq, pid, todo, ask>>

LowPages == {b \in hold : b < DmaMin}

DmaFreeLow ==
  /\ mode = "dmalow"
  /\ FreePages(LowPages)
  /\ hold' = hold \ LowPages
  /\ mode' = IF hold = LowPages THEN "dmaany" ELSE "io"
  /\ UNCHANGED <<kernel, entry, nx, kstk, brk, procs, irq, pid, todo, ask>>

DmaAny ==
  /\ mode = "dmaany"
  /\ \/ \E b \in Free : AllocPage(b) /\ hold' = {b} /\ mode' = "io"
     \/ AllocFails(1) /\ mode' = "user" /\ UNCHANGED hold
  /\ UNCHANGED <<kernel, entry, nx, kstk, brk, procs, irq, pid, todo, ask>>

TransferEnd ==
  /\ mode = "io"
  /\ FreePages(hold)
  /\ hold' = {} /\ mode' = "user"
  /\ UNCHANGED <<kernel, entry, nx, kstk, brk, procs, irq, pid, todo, ask>>

-----------------------------------------------------------------------------
(* The end of a process.                                                   *)

Ended ==
  /\ Current # {}
  /\ live' = live \ Current
  /\ dead' = dead \cup Current
  /\ mode' = IF live = Current THEN "stopped" ELSE "user"
  /\ UNCHANGED <<used, kernel, brk, nextPid, irq, pid>>

\* EXIT, an exception or Ctrl+C in user mode.
End ==
  /\ mode = "user"
  /\ Ended
  /\ UNCHANGED <<entry, nx, kstk, todo, ask, hold>>

\* Ctrl+C inside a call that runs with interrupts on.  Its local variables are
\* gone, and with them what is left of a process it was freeing.
CtrlC ==
  /\ irq /\ mode \notin {"user", "stopped"} /\ Shell \notin Current
  /\ Ended
  /\ IF mode \in FreeModes
     THEN /\ entry' = [entry EXCEPT ![pid] = NoEntries] /\ SetNx({})
          /\ kstk' = [kstk EXCEPT ![pid] = Absent]
     ELSE UNCHANGED <<entry, nx, kstk>>
  /\ todo' = {} /\ ask' = 0 /\ hold' = {}

\* PsCleanupTerminated, by the timer with interrupts off or by WAITPID with
\* interrupts on, and in both cases from user mode.
Clean ==
  /\ mode = "user" /\ dead # {}
  /\ mode' = "clean"
  /\ irq' \in BOOLEAN
  /\ UNCHANGED <<used, kernel, entry, nx, kstk, brk, procs, pid, todo, ask, hold>>

CleanUnlink ==
  /\ mode = "clean"
  /\ \E p \in dead : /\ \A q \in dead : q <= p
                     /\ dead' = dead \ {p}
                     /\ pid' = p
  /\ mode' = "unlinked"
  /\ UNCHANGED <<used, kernel, entry, nx, kstk, brk, live, nextPid, irq, todo,
                 ask, hold>>

CleanKStack_NoFree ==
  /\ mode = "unlinked"
  /\ UNCHANGED used
  /\ kstk' = [kstk EXCEPT ![pid] = Absent]
  /\ mode' = "walk"
  /\ UNCHANGED <<kernel, entry, nx, brk, procs, irq, pid, todo, ask, hold>>

CleanKStack ==
  /\ mode = "unlinked"
  /\ FreePages(KStack(pid))
  /\ kstk' = [kstk EXCEPT ![pid] = Absent]
  /\ mode' = "walk"
  /\ UNCHANGED <<kernel, entry, nx, brk, procs, irq, pid, todo, ask, hold>>

\* PsFreeAddressSpace goes through the tables in address order and frees a
\* table after what it points to.  An entry is dropped here as it is freed:
\* nobody reads the tables of an unlinked process again.
Present == {s \in Slot : entry[pid][s] # Absent}
Last(s) == CHOOSE v \in Virt : /\ At(s[1], v) = s
                               /\ \A w \in Virt : At(s[1], w) = s => w <= v
Before(s, t) == Last(s) < Last(t) \/ (Last(s) = Last(t) /\ s[1] < t[1])

\* A page is not freed when it is mapped at its own address or not tracked.
\* With VMM_NX it never is tracked: "pt[l] & ~0xFFFULL" takes bit 63 for a part
\* of the address.
Freeable_Mapped(s) == /\ entry[pid][s] \in Tracked
                      /\ s[1] = 0 => s[2] \notin nx[pid]
Freeable(s) == /\ entry[pid][s] \in Tracked
               /\ s[1] = 0 => s[2] # entry[pid][s] /\ s[2] \notin nx[pid]

FreeSlot(s) ==
  /\ IF Freeable(s) THEN FreePages({entry[pid][s]}) ELSE UNCHANGED used
  /\ SetEntry(s, Absent)

PsFreeAddressSpace ==
  /\ mode = "walk"
  /\ \E s \in Present : (\A t \in Present : s = t \/ Before(s, t)) /\ FreeSlot(s)
  /\ UNCHANGED <<kernel, nx, kstk, brk, procs, mode, irq, pid, todo, ask, hold>>

CleanNext ==
  /\ mode = "walk" /\ Present = {}
  /\ mode' = "clean" /\ SetNx({})
  /\ UNCHANGED <<used, kernel, entry, kstk, brk, procs, irq, pid, todo, ask,
                 hold>>

CleanDone ==
  /\ mode = "clean" /\ dead = {}
  /\ mode' = "user" /\ irq' = TRUE
  /\ UNCHANGED <<used, kernel, entry, nx, kstk, brk, procs, pid, todo, ask, hold>>

-----------------------------------------------------------------------------
Next ==
  \/ VmmMapPage
  \/ Exec \/ Load
  \/ Mmap \/ FbMap \/ MmapAlloc \/ GrowReturn
  \/ TransferBegin \/ DmaAlloc \/ DmaFreeLow \/ DmaAny \/ TransferEnd
  \/ End \/ CtrlC
  \/ Clean \/ CleanUnlink \/ CleanKStack \/ PsFreeAddressSpace \/ CleanNext
  \/ CleanDone

Spec == Init /\ [][Next]_vars

-----------------------------------------------------------------------------
(* Properties.                                                             *)

\* The entries of p that name a page of its own.
OwnSlots(p) ==
  {s \in Slot : entry[p][s] \in Tracked /\ (s[1] = 0 => s[2] \notin Identity)}

\* No page has two uses: a page the kernel keeps, one a local variable holds,
\* one of a kernel stack, a page table and a page of user memory are marked
\* used in the bitmap and are all different, within a process and between
\* processes.  Freeing a page too early, or one that is only mapped, breaks it
\* at the next allocation.
PagesHaveOneOwner ==
  /\ kernel \subseteq used /\ hold \subseteq used \ kernel
  /\ \A p \in Pid : KStack(p) \subseteq used \ (kernel \cup hold)
  /\ \A p \in Pid : \A s \in OwnSlots(p) :
       entry[p][s] \in used \ (kernel \cup hold)
  /\ \A p, q \in Pid : p # q => KStack(p) \cap KStack(q) = {}
  /\ \A p, q \in Pid : \A s \in OwnSlots(p) : entry[p][s] \notin KStack(q)
  /\ \A p, q \in Pid : \A s \in OwnSlots(p) : \A t \in OwnSlots(q) :
       entry[p][s] = entry[q][t] => p = q /\ s = t

\* A process that runs has all of its address space, though most failures to
\* map a page go unnoticed: the identity mappings the interrupt handlers
\* need ("remain reachable when this process's CR3 is active"), its image, its
\* stack and a kernel stack.  It holds because memory that has run out stays
\* out until the last allocation of the loader, whose failure is noticed.
RunnableIsWhole ==
  \A p \in live :
    /\ kstk[p] # Absent
    /\ \A v \in Identity : entry[p][<<0, v>>] = v
    /\ \A v \in Image \cup Stack : entry[p][<<0, v>>] # Absent

KStacks == UNION {KStack(p) : p \in Pid}
OwnPages == UNION {{entry[p][s] : s \in OwnSlots(p)} : p \in Pid}
Owned == kernel \cup hold \cup KStacks \cup OwnPages

\* Pages are lost (in use, and owned by nobody) only when Ctrl+C abandons a
\* call, when EXEC fails, when a page could not be mapped for want of a table,
\* when MMAP has grown over a page that was mapped, and when a process is
\* cleaned up, whose stack, headers and data nothing frees, nor a page that
\* happens to be mapped at its own address.  Its kernel stack, its page tables,
\* its code and its heap do come back.
Lost == used \ Owned
MayLose ==
  \/ /\ mode \in LoadModes /\ mode' \in {"user", "stopped"}
  \/ /\ mode # "user" /\ ~(live \subseteq live')
  \/ /\ mode \in MapModes /\ Free = {}
  \/ /\ mode \in {"mmapmap", "fbmap"}
     /\ \E v \in Least(todo) : entry[pid][<<0, v>>] # Absent
  \/ /\ mode = "walk"
     /\ \E v \in UserPages :
          /\ Lost' \ Lost \subseteq {entry[pid][<<0, v>>]}
          /\ v \in Stack \cup NoExec \/ entry[pid][<<0, v>>] = v

LossIsKnown == [][Lost' \subseteq Lost \/ MayLose]_vars

\* What malloc takes the return value for ("if (!ptr) return NULL"): when MMAP
\* returns an address, the memory is there.
MmapDelivers ==
  [][mode = "mmap" /\ mode' = "user" /\ brk' # brk =>
       \A v \in brk[pid]..(brk'[pid] - 1) : entry[pid][<<0, v>>] # Absent]_vars
=============================================================================
