# The MicroNT kernel in TLA+

MicroNT is a small x86-64 operating system in C: a UEFI loader (`src/Boot`), a
kernel (`src/Kernel`) and user programs (`src/UserApps`), with a port of Doom.
The repository has no tests. These modules say what its kernel promises, check
it on small instances with TLC, and prove most of it for every size with TLAPS.

## Components

| Component | State | Operations | Interacts with |
|---|---|---|---|
| Processes (`proc/process.c`) | `g_process_list`, thread states, `g_current_thread`, `g_next_pid` | create, destroy, pick the next thread, clean up the dead | every system call that blocks, the timer, the kill path |
| Timer (`arch/pit.c`) | `g_tick_count` | every 10 ms: poll network and audio, wake sleepers and waiters, clean up, reschedule | processes, network, audio |
| System calls (`arch/syscall.c`) | current directory, directory and file cursors, 16 file descriptors, all global | about 50 calls; interrupts on, except EXEC and most file system calls | all others |
| Interrupts (`arch/idt.c`, `pic.c`, `gdt.c`, `isr.asm`) | nesting flags | exceptions kill a user process or panic; IRQs go to one handler each | timer, keyboard |
| Program loader (`loader/pe_loader.c`) | none | build a process from a PE file | processes, FAT32, memory |
| Physical memory (`mm/pmm.c`) | bitmap, pinned bitmap, counters | allocate and free pages, pin | virtual memory, heap, drivers |
| Virtual memory (`mm/vmm.c`) | page tables | map, unmap, create an address space | physical memory, processes |
| Kernel heap (`mm/heap.c`) | block list | allocate, free, split, coalesce | loader, FAT32, processes |
| Keyboard (`keyboard.c`) | two rings, modifier keys | interrupt puts, calls get; Ctrl+C kills | kill path |
| Storage (`fs/ata.c`, `ahci.c`, `nvme.c`, `pci.c`) | command queues | read and write sectors, by polling | FAT32 |
| FAT32 (`fs/fat32.c`) | mounted volume, open file and directory | open, read, write, delete, make directory | storage, system calls |
| TCP (`net/tcp.c`) | 8 sockets | connect, send, receive, close; packets and time-outs in the timer interrupt | IPv4 |
| UDP and DNS (`net/udp.c`) | one receive slot | send, receive, resolve | IPv4 |
| IPv4, ARP, Ethernet, e1000 (`net/`) | ARP cache, descriptor rings | send and receive frames | the timer polls them |
| Audio (`audio/hda.c`) | one stream | play, stop, poll | the timer polls it |
| Console (`framebuffer.c`) | cursor | print | everyone |
| Shell and programs (`UserApps`) | shell: current directory | EXEC then WAITPID for each command | system calls |
| Boot, main, hardware access, Doom port, vendored code | | start-up and glue | |

What is hard. There is one processor and there are no locks. System calls run
with interrupts enabled unless they say otherwise, so the timer interrupt (which
runs the network stack, wakes threads and frees dead processes) and the keyboard
interrupt (whose Ctrl+C kills the current process, wherever it is in the kernel)
come between any two instructions of a call. A call that has been killed is
abandoned where it stood. Drivers poll with time-outs and free their buffers
when they give up. The file system and the network keep their state in globals.
`PROJECT.json` lists these hazards line by line.

What makes each component correct:

* Processes: who runs, who waits for whom, nobody is lost; memory in use is never
  freed. *(modelled, proved but for liveness)*
* Physical and virtual memory: a page has one owner, a process that runs has all of
  its address space, and when it ends a known part of it comes back. *(modelled, proved)*
* Heap: blocks tile the heap, memory is handed out once, growing it helps.
  *(modelled, proved)*
* Keyboard: characters come out in order, the newest are dropped when the ring is full,
  the modifiers follow the keys. *(modelled, proved)*
* TCP: what is received is a prefix of what was sent; a socket is not freed under its
  user; the states mean what they say. *(modelled, proved)*
* FAT32: chains are disjoint, a file reads back as it was written, nothing leaks, a name
  is in a directory once, unless MKDIR cannot see the first. *(modelled, proved)*
* UDP/DNS, ARP, e1000: an answer belongs to its query, a query goes to its server, a
  frame accepted is sent. *(modelled, proved)*
* Disks: a command reported done has been done, a buffer is not freed while the
  device may write to it. *(modelled, proved)*
* Audio: a stream that runs is watched, a sound is not cut short. *(modelled, proved)*
* File descriptors: a slot is used by one open file and comes back. *(not modelled)*

Most of these hold with exceptions: an interrupt or a kill at one particular place
breaks them. An exception is a member of a history variable (`past` in most modules),
set where the code goes wrong and nowhere else; the property says "unless", so it also
says that there is no other way.

## Modules

| Module | What it is |
|---|---|
| `JobStack` | Abstract specification: jobs form a stack. EXEC pushes, the end of the newest job pops, control returns to the newest job left. |
| `Scheduler` | Processes, the timer, EXIT, EXEC, SLEEP, WAITPID, the kill path, exceptions, Ctrl+C. |
| `MCScheduler` | `Scheduler` for TLC. |
| `SchedulerProofs` | Theorems about `Scheduler`. |
| `Memory` | Physical pages and their owners: the page allocator, the address spaces, the loader, MMAP, FB_MAP, a driver's transfer, the clean-up of ended processes. |
| `MCMemory` | `Memory` for TLC: it adds a layout of the page tables. |
| `MemoryProofs` | Theorems about `Memory`. |
| `Heap`, `HeapProofs` | The kernel heap's list of blocks, and theorems about it. |
| `BoundedQueue` | Abstract specification: a queue that drops what it has no room for. |
| `KeyRing`, `KeyRingProofs` | One ring of the keyboard driver; it implements `BoundedQueue`. |
| `Keyboard`, `KeyboardProofs` | The driver: two rings, modifiers, GETCHAR and GETKEY, Ctrl+C. |
| `MCKeyboard` | `Keyboard` for TLC. |
| `Tcp`, `MCTcp` | A socket, its program, the timer interrupt, a peer beyond a network. |
| `TcpProofs` | Theorems about `Tcp`. |
| `Fat32`, `MCFat32` | The volume under WRITEFILE, DELETE and MKDIR, one sector write at a time. |
| `Fat32Proofs` | Theorems about `Fat32`. |
| `Hda` | The sound stream, the calls that play and stop it, the poll. |
| `Storage` | One sector read or written through NVMe, AHCI or the ATA ports. |
| `Net` | DNS_RESOLVE down to the transmit ring, with the frames that come in. |
| `MCDevices`, `DevicesProofs` | The three together: instances of `Hda`, `Storage` and `Net`; theorems about all. |

### `Scheduler`

A process has one thread in this system (`PeLoadProgram` creates it), and the two
TERMINATED states are written together, so one `tstate` per process id stands
for both. `procs` is `g_process_list`; new processes go to its head and ids only
grow, so list order is falling id and "the first that ..." is the greatest id.
`saved` is `has_saved_frame` together with which frame it is (`entry`, the one a
process is started with; `call`, one of a system call or of a preemption).
`wakeup` counts down instead of being compared with the tick count. `held` is the
set of processes whose kernel stack and page tables are allocated, `kstack`
whose kernel stack the processor is on.

`mode` is what the processor executes. EXEC and every interrupt handler run with
interrupts off and are one step. EXIT runs with interrupts on and is five steps:
mark itself dead, wake those who wait for it, choose the next thread and take
its saved frame, make it current, return to it. In between, `Tick` and `CtrlC`
are enabled. So are they inside SLEEP, WAITPID's halt loop and its clean-up
(unlink, then free, for each dead process), and inside every other call
(`SyscallEnter`, `SyscallReturn`), which leaves the scheduler's state alone.

| Action | Code |
|---|---|
| `Exec`, `ExecFails` | `SYS_EXEC`, `PeLoadProgram`, `PsCreateProcess`, `PsDestroyProcess` |
| `ExitMark` ... `ExitReturn` | `SYS_EXIT` |
| `SleepBlock`, `SleepReturn` | `SYS_SLEEP` |
| `WaitEnded`, `WaitBlock`, `WaitPoll` | `SYS_WAITPID` |
| `ReapUnlink`, `ReapFree`, `ReapDone` | `PsCleanupTerminated` called by WAITPID |
| `SyscallEnter`, `SyscallReturn` | any other call that runs with interrupts on |
| `Fault`, `CtrlC` | `IsrHandler` and `KeyboardIrqHandler` into `SyscallKillCurrentProcess` |
| `Tick` | `PitIrqHandler` |

Left out: what the other calls do to their own components, the network and audio
polls of the timer, exceptions in the kernel (the kernel panics), the REBOOT and
HALT commands, EXEC failing before a process id is taken (nothing changes), and
WAITPID on an id that is not in the list (it returns 0 and nothing changes).

### `Memory`

A step allocates or frees at most one page, or one block that `PmmAllocPages` hands
out. `used` is the bitmap of `pmm.c`. `entry[p]` holds the page tables of process
`p`, all four levels: the entry at level 0 of virtual page `v` names the page mapped
there, those of levels 1 to 3 name tables, and level 4 is the PML4 itself. `Index`
says which virtual pages share an entry. `nx` has the pages mapped with `VMM_NX`: the
stack, and of the image the headers and what is not code (`NoExec`). The clean-up masks an
entry with `~0xFFF` (`process.c:230`), which leaves bit 63 in the address, so it takes these pages
for untracked ones and never frees them: every process that ends loses its stack, headers and
data (`Freeable`). `kstk` is where a kernel stack starts,
`kernel` what the kernel keeps for good (what is in use at boot, and the pages its
heap grows by). `hold` are pages that only a local variable of the running call
knows: they are lost when Ctrl+C abandons the call.

`mode` is the place in the call, `todo` what its loop has still to map, `irq`
whether Ctrl+C can strike. The loader runs with interrupts off; MMAP, FB_MAP, a
transfer and the clean-up by WAITPID run with interrupts on; the clean-up by the timer
does not. The process that runs is the newest live one: this is what
`SchedulerProofs!ImplementsJobStack` gives, so `Memory` does not repeat the
scheduler.

| Action | Code |
|---|---|
| `VmmMapPage`: `NextLevel`, `PutPage` | `VmmMapPage`, `GetNextLevel`: one table, or the entry, or giving up without a word |
| `Exec`, `Load` | `SYS_EXEC`, `KeLaunchShell`; `PeLoadProgram`, `PsCreateProcess`, `VmmCreateAddressSpace`, `PsCreateThread` |
| `KmAlloc` | `KmAlloc`, `HeapExpand`: the heap may have to grow, and panics when it cannot |
| `LoadFails` | `PsDestroyProcess` after a failure |
| `Mmap`, `MmapAlloc`, `FbMap`, `GrowReturn` | `SYS_MMAP`, `SYS_FB_MAP` |
| `TransferBegin`, `Dma...`, `TransferEnd` | `NvmeReadSectors`, `NvmeAllocDmaPage` |
| `End`, `CtrlC` | the end of the running process, outside and inside a call |
| `Clean`, `CleanUnlink`, `CleanKStack`, `PsFreeAddressSpace`, `CleanNext`, `CleanDone` | `PsCleanupTerminated`, `PsFreeAddressSpace` |

Coarser than the code: a table's allocation and the entry that names it are one step,
and so is freeing a kernel stack, page by page in the code; a kill in between would
lose one page more, or up to sixteen. An entry is dropped as its page is freed: the code leaves it, and
nobody reads the tables of an unlinked process again. Only one kind of transfer is
modelled, and of the kernel heap only that it may grow during EXEC (`Heap` has the rest).

Left out: the tables of the kernel and of the higher half, which the walk over a
process's lower half does not reach; `VmmUnmapPage`, which nothing calls;
the protection bits of sections other than `VMM_NX`; the counters;
the start of the memory manager; a program file that is not a PE file. When the shell ends the
machine stops. `MemoryAssumption` says what the model takes for granted of the machine:
user addresses do not overlap the identity mappings, and the framebuffer lies above the
memory the allocator tracks (elsewhere the pages that FB_MAP maps would be freed with the process,
`syscall.c:779`), image and stack do not overlap, and a stack has
`StackPages` pages.

### `Heap`

`block` maps the address of each header in the list to its size, its flag and its
neighbours; `area` is what the heap has been given; `given` what KmAlloc has returned
and nobody has freed. KmAlloc is `Begin`, one `Walk` per block, `HeapExpand` (or
`Panic`), `Split` and `Take`; KmFree is `Free`, `CoalesceNext` and `CoalescePrev`. Units
are abstract: the header is `Header`, the smallest block split off `HEAP_MIN_BLOCK`.

EXEC and most calls of the file system use the heap with interrupts off, CHDIR and the
clean-up of WAITPID with interrupts on; `irq` says which. With interrupts on no other
process can come in between: the timer never switches (`TickNeverSwitches`), and its
own clean-up runs only when it has interrupted user mode. So only Ctrl+C disturbs a call. A
split and a joining are three writes each: `TornSplit` and `Torn` are what a kill leaves
between them. Such a list (`torn`) is not followed further. It is the one exception: a
block split a second time at the same place becomes its own successor, and the next walk never ends.

Left out: the counters of bytes, which nobody reads to decide anything; which pages the
heap is given (any that are free and in a row).

### `KeyRing`, `Keyboard`

The interrupt is one step: `KeyboardIrqHandler` sets the modifiers and puts into both
rings, or kills. GETCHAR is a look, a copy and an advance; GETKEY a copy and an advance.
A key that exists twice sends the prefix 0xE0 first. The handler cuts off the top bit
before it looks for the prefix, so it takes it for the release of key 0x60, its code for
extended keys (`keyboard.c` 115 to 136) is never reached, and the two Ctrl keys are one
to it. The model has exactly this: `Prefix` is what is left of 0xE0. `down`
are the keys really held.

`KeyboardGetKey` and `KeyboardHasKeyEvent` have no caller and are left out.

### `Tcp`

The calls are split where the interrupt makes a difference: `ConnectSet` and
`ConnectSyn`; `SendChunk`, which sends, and `SendCount`, which counts what was sent;
`RecvCopy`, `RecvShift` and `RecvTake`; `CloseFin` and `CloseCount`. `HandleSynAck`,
`HandleSegment` and `HandleLate` are `TcpHandlePacket`, `Retransmit` and `PollFree` are
`TcpPoll`. The peer sends the bytes 1, 2, 3, ... and a FIN in segments of any size at any time;
`out` is a set from which a segment may reach the peer at any time, often, or
never. Sequence numbers of this side wrap at `SeqSpace`, compared as the code compares them.
`past` names what goes wrong:

* `raced`: data appended between TcpRecv's shift and its subtraction are lost or doubled;
* `early`: a FIN is accepted whatever its sequence number;
* `stale`: a socket connected again still has the bytes of its last connection;
* `resent`: what is retransmitted are the zeros of `send_buf`;
* `rushed`: an answer is handled before TcpClose has counted its FIN.

Left out: checksums, ports and TcpFindSocket (one of eight sockets is modelled; they
share the next port only), plain acknowledgements to the peer.

### `Fat32`

`fat`, `data` and `dir` are the disk, a cluster is one sector. Each write of a sector is
a step with a parameter `bad`: the write fails, and the call goes on the way the
code does, which often means it does not notice. `PowerOff` may come between any two
writes. `Reads` is what OPENFILE and READ would find at that moment. File system calls
that write run with interrupts off, so one is under way at a time.

OPENFILE, READ and MKDIR, and WRITEFILE and DELETE for the directory they work in, go by
Fat32OpenPath, which looks at the first 64 entries of a directory only (`fat32.c:481`):
`MaxListed` in the model, counted as Fat32ReadDir counts them (`InReach`). The search of
WRITEFILE and DELETE for the entry itself has no limit. So a file behind the limit can be
written and deleted and is never found (`Behind`), a directory behind it takes no files
(`Opened` against `Parents`), and MKDIR of a name behind it makes a second entry (`twice`).

`past`: `freed` (a call ends after the old clusters of a file were freed and before its
entry was written), `torn` (half a directory entry), `lost` (a failed write to the FAT
nobody noticed), `hidden` (entries behind the end mark), `leaked`, `twice`.

Seen while modelling and outside the properties: OpenPath takes a file in the middle of a
path for a directory (`fat32.c:495`); MKDIR of a name that a file has reports success
(`fat32.c:1653`). `SetFat` is one write, of the one copy of the FAT the model has. In the code
FatSetFatEntry writes each copy in turn (`fat32.c:814`); when the second write fails, the first
copy is already changed, and FatAllocateCluster, which returns 0, has a cluster taken that
nobody will free: a leak the model does not have.

### `Hda`, `Storage`, `Net`, `MCDevices`

`Hda` counts time in slices of a tick; the stream plays one unit in each. Every write of
HdaPlayBuffer and HdaStop that HdaPoll can see is a step; HdaPoll runs whenever a tick
is complete. `orphan`: a call killed with the stream started and not yet marked;
`rushed`: the poll ran with the mark set and size, tick and duration not.

`Storage` has the three drivers behind `ata.c`, one of which is found at boot. A driver
issues a command, looks for its end, or gives up (`TimeOut`); the device goes on and may
complete a command given up, or killed, at any time. AHCI tests its time-out one step
too late, so that a command given up counts as a success (`untested`), and issues the next
command over it (`overlap`); after an error nobody starts the port again. NVMe compares
command ids, which holds even when the queue is overrun. A page is freed although the
device still has it (`late`); a killed call leaks its page.

`Net` has DnsResolve with its retry, ArpResolve in two steps, E1000SendFrame with the read of
its tail, the look at the descriptor and its four writes, Ctrl+C, which ends the process at any
of these steps (`Kill`; DNS_RESOLVE runs with interrupts on), and what NetPoll does with ARP replies, ARP requests (which it answers
at once: a second E1000SendFrame inside the first), and datagrams. The device sends what is
between its head and its tail. `reentered`: a frame sent during E1000SendFrame;
`abandoned`: a process killed there between clearing the descriptor and the doorbell, which
leaves the ring full for ever, or a frame in it that was never accepted and goes out with the next;
`filled`: the tail has met the head, which the device takes for an empty ring, and the
ring is full for ever; `evicted`, `late`, `replaced`: see the properties. Frames that TCP sends in
the timer interrupt do the ring what an ARP reply does.

The three share nothing but the timer that polls them, so `MCDevices` looks at one of them
in a behaviour.

## Runs

| Run | Checks | Result |
|---|---|---|
| `scheduler` | `MaxPid = 4`, `MaxSleep = 1`, `FairSpec` | holds |
| `halt_means_no_thread` | `HaltMeansNoThread` | violated, see below |
| `sleep_sleeps` | `SleepSleeps` | violated, see below |
| `memory` | 25 pages, 3 process ids, two image pages, one of them not code, one stack page, a heap of two | holds |
| `mmap_delivers` | `MmapDelivers` | violated, see below |
| `heap` | five usable pages of 4 units, headers of 2, requests of 1, 3 and 6 | holds |
| `keyboard` | rings of 3 and 2 slots, two Ctrl keys and the letter C | holds |
| `tcp` | buffer and segments of 2 bytes, the peer sends 3 and a FIN | holds |
| `tcp_retransmits` | `RetransmitsData` | violated, see below |
| `fat32` | 4 clusters of 3 entries, one fault, three names; or Fat32OpenPath looks at one entry, no fault | holds |
| `fat32_shares` | `NoFileShares`, no fault | violated, see below |
| `devices` | see the bounds | holds |

`scheduler` checks:

* `TypeOK`.
* `LinearChain`: the live processes form one chain; each is suspended by EXEC on the
  next, with its own frame saved and no timer set, and only the last can run.
* `NoUseAfterFree`: no clean-up frees a listed process or the kernel stack in use.
* `TickNeverSwitches`: the timer never takes the processor away. The code for
  preemption is there and is never reached.
* `HaltLeavesNobody`: the machine halts only when no process is left, except for the
  kill described below.
* `ExecReturns`: when a program ends, the one that started it runs again, unless it
  is killed itself or the machine halts.
* `JobStackSpec`: refinement of `JobStack`.

`memory` checks:

* `TypeOK`.
* `PagesHaveOneOwner`: a page the kernel keeps, one a local variable holds, one of a
  kernel stack, a page table and a page of user memory are in use in the bitmap and
  all different, within a process and between processes.
* `RunnableIsWhole`: a process that runs has its identity mappings, image, stack and
  kernel stack. `VmmMapPage` reports no failure, so this is not obvious: it holds
  because memory that has run out stays out until the last allocation of the
  loader, whose failure is noticed.
* `LossIsKnown`: pages in use that nobody owns come about only in the ways that `MayLose`
  lists, all of which happen: Ctrl+C inside a call, EXEC that fails (nothing is freed), a page with no table to
  go into, MMAP over pages an abandoned MMAP had mapped, and in the clean-up the pages of the
  stack, the headers and the data, which are mapped with `VMM_NX`, and user memory that happens to
  lie at its own address. So the clean-up returns the rest: kernel stack, page tables, code and heap.

`heap` checks:

* `MemoryGivenOnce`: what is handed out is apart from everything else handed out and from
  every header.
* `BlocksTile`: the blocks cover the heap, the list reads both ways, a block in use has
  a user.
* `GrowsOnce`: KmAlloc, which calls itself after the heap has grown, then finds a block.

`keyboard` checks `TypeOK` and:

* `CharQueue`, `EventQueue`: both rings implement `BoundedQueue`, also when a kill ends a
  call between copy and advance.
* `OldestFirst`: what a call is about to return is the oldest key.
* `GetCharNeverHalts`: GETCHAR never comes to the halt loop of KeyboardGetChar.
* `ModifiersAreDown`: a modifier is on only while one of its keys is held.

`tcp` checks `TypeOK` and:

* `ReceivedIsPrefix`, `EndOfStream`: the program receives the peer's bytes in order, each once,
  and the end of the stream after all of them; unless `raced`, `early` or `stale`.
* `PeerGetsBytesOrZeros`: the peer has the program's bytes in order, or zeros in their place.
* `AckedIsTaken`: an acknowledgement is never ahead of what is counted as sent.
* `NotFreedInUse`: TcpPoll does not free the socket under TcpSend or TcpClose.
* `FinWait2MeansFinTaken`: the peer has our FIN, unless `rushed` or the numbers wrapped.
* `CloseWaitsOut`: TcpClose always waits for its whole time-out; what it waits for
  does not come.

`fat32` checks `TypeOK` and `NoClusterShared`, `ReadsBack` (what is found under a name is
what was last written there, whole), `NoLeak` and `NamesUnique`, each with the
exceptions its comment names. Half of the behaviours, chosen
at the start by `MCFat32`, are `crowded`: directories have more entries than Fat32OpenPath looks
at, and calls go on after MKDIR has made a second entry of a name.

`devices` checks `RunIsWatched` and `PlaysToTheEnd` of the sound stream, `SuccessIsDone`
(a success means that this command was executed) and `PagesAreOwn` (a device uses no page that is
free or another call's) of the disks, `FramesGoOut` (frames are sent in order, and the
ring does not lose a descriptor, unless `reentered`, `abandoned` or `filled`), `QueryGoesToServer` and `AnswerIsOwn` of the network.

Bounds of the memory runs. 25 pages are enough for two programs and their tables but not
for a third, so every allocation of the loader, of MMAP and of a transfer fails in some
behaviour. The image and the first heap page share a table with
an identity mapping, the stack and the second heap page have another one, so tables are found,
are missing, and are shared between loops. Virtual
pages 17 to 20 are also page numbers of memory, so user memory does get mapped at its own
address. `Heap` overlaps `Stack` by one page: the code does not keep `heap_brk` away from
the stack either. `DmaTries = 2`: tries run out with low pages in hand. `MaxKernel` allows the heap to
grow once. The proofs need none of these bounds.

Bounds of the scheduler's run. Process ids are never reused, so `MaxPid = 4` bounds the number of EXECs of
a behaviour: a chain of four, or a chain of three with one reaped and replaced,
which is every way in which a waiter, the process it waits for, an older waiter
and a dead process still listed can meet. `MaxSleep = 1`: a due and a stale
wake-up tick both occur. The proofs need neither bound.

Fairness. `FairSpec` asks weak fairness of the steps of EXIT only: inside a call the
processor goes on executing, interrupt handlers end, and nothing else can take it
away. Nothing is asked of user programs, of the keyboard or of the timer. No run
checks for deadlock, since the kill path really stops the machine; in `Memory` so do a
heap that cannot grow and the end of the shell. The other modules state no fairness, for
their waits end by time-outs that count: nothing in them must happen. Of the other runs
only `keyboard` checks for deadlock; the others stop at a bound on calls, faults, packets
or time, or in the heap's panic.

Other bounds.

* `heap`: of the six pages up to `MaxAddr` the heap may have five, the first two and a growth of
  two and one of one, or three of one; the
  sizes asked for leave remainders that are split off and some that are too small for it.
* `keyboard`: a ring of n slots holds n - 1 keys, so both are full, empty and wrap. Shift and
  caps lock are left to the proof, which has them all.
* `tcp`: the stream is longer than the buffer, so a segment is taken in part; `Iss = {13}` with 16
  numbers, so they wrap after two bytes; a window of 1 makes TcpSend wait;
  `MaxRetrans = 1` has data and SYN sent again, and an end to that.
* `fat32`: three entries per directory cluster, of which a long name takes two, so a directory
  has to grow; the root leaves three clusters, so two files of two do not fit. With one fault,
  every write of every call fails, or is the last before the power goes off, in some
  behaviour; a fault that did no damage (no member of `past`) is followed by further
  calls. After damage no further call begins (`Tolerated = {}`): the run says how a volume
  gets damaged, not what becomes of it; `fat32_shares` tolerates `freed` to go on from there.
  `MaxListed` is 64 in the code and 3 here: a directory has two entries for "." and "..", so its
  second file is behind the limit. In a `crowded` behaviour it is 1 for the calls, which makes the
  second entry of the root invisible to MKDIR, and a second directory to all calls; files are
  empty there, to leave clusters for a third entry. `ReadsBack` is always checked with 3.
* `devices`: sounds of 2 and 5 slices and ticks of 3, the first shorter than a tick, the second
  not a whole number of them: one tick less in `Duration` would cut it. Queues of 2 and 3
  entries for 3 commands wrap and are overrun. Two hosts share one entry of the ARP
  cache; the ring of 3 descriptors takes 2 frames. Ctrl+C strikes at every step.

The properties of `heap`, `keyboard`, `tcp`, `fat32` and `devices` are proved for all sizes.

Findings.

* `HaltMeansNoThread`. EXIT takes the saved frame of the thread it hands over to one
  statement before it makes that thread current, with interrupts on. A Ctrl+C in
  between kills the exiting process again; the scheduler does not find the thread
  whose frame is gone, and the machine halts with the shell alive and READY. The
  log line says "No thread after kill, halting".
* `SleepSleeps`. Because of `LinearChain` a sleeper is always the only thread that
  could run, and SLEEP then makes it READY and returns at once: `sleep 5000` prints
  "sleep done" immediately.
* `MmapDelivers`. MMAP that runs out of memory leaves its loop with `ret = 0; break;`,
  then moves `heap_brk` and returns the address all the same. `malloc` tests for 0
  (`if (!ptr) return NULL;`) and never sees it.
* `RetransmitsData`. "retransmit unacknowledged data" (`tcp.c:459`) takes it from `send_buf`,
  which nothing fills (`tcp.c:463`): after a lost segment the peer gets zeros, with a good checksum.
* `NoFileShares`. Fat32WriteFile frees the old clusters first so that the allocator "never
  returns a cluster that still holds" old data (`fat32.c:1460`). When the new
  file does not fit it returns with the entry still naming them (`fat32.c:1478`), and the
  next file is given them.

## Proofs

`SchedulerProofs` proves for every `MaxPid` and `MaxSleep` (`BoundsAssumption`: both
are positive) that `Spec` implies `TypeOK`, `NoUseAfterFree`, `LinearChain`,
`TickNeverSwitches`, `HaltLeavesNobody` and the refinement `JobStackSpec`.

None of the invariants is inductive as it stands. `IInv` adds to them:

* in `MemInv`, that process ids in use are below `nextPid`, that the owner of the
  kernel stack in use is still listed, and that what WAITPID is about to free is
  not;
* `Control`: outside an EXIT the current process is live, has the greatest id, and
  every other one is suspended; `HandOver`: during an EXIT there is at most one
  heir, newer than the other jobs;
* `Linked`: a suspended process waits for its *successor*, and every live process but
  the shell is waited for. This is what makes the heir unique: the kill path wakes
  whoever waits for the process, and must wake exactly one.

The proof has one lemma per
action. `KillIInv` carries most of the argument, for a kill can strike in every
mode; it reduces to `KillHalts` (nobody to switch to) and `KillSwitches` (the heir
takes over). `WaitPollStutters` shows that WAITPID's halt loop never finds anything to
do: the process waited for is an ancestor or the caller itself, so only a kill
ends the wait.

`ExecReturns` is a liveness property under fairness and is model-checked only.

`MemoryProofs` proves for every size of memory, layout of an address space and number of
processes that satisfy `MemoryAssumption` that `Spec` implies `TypeOK`,
`PagesHaveOneOwner` and `RunnableIsWhole`. Its `IInv` adds:

* `LoopInv`: each loop maps pages of its own region, so FB_MAP never leaves the
  framebuffer and nothing but the loop over the identity mappings writes their entries;
* `IdentityInv`: an identity mapping maps a page to itself or not at all. This is what
  makes the test "virtual address = physical address" of the clean-up safe;
* `ListInv`: a process that is being loaded or freed is not in the list, so neither
  the clean-up nor a failed EXEC touches a process that runs;
* `LoadInv`: while memory has not run out, all that the loader has passed is mapped.
  The step that makes a process runnable allocates its kernel stack, so memory had not run out
  before it. `RunnableIsWhole` follows from this and not from any check in the loops.

`PagesHaveOneOwner` is kept by lemmas about what a step does to the pages
(`OwnersShrink`, `OwnersTake`, `OwnersTable`, `OwnersKStack`, `OwnersMap`,
`OwnersMapShared`, `OwnersDrop`), and each action cites the one that fits.

`LossesKnown` proves the action property `LossIsKnown`: a page in use that had an owner
still has one after the step, unless the step is one that `MayLose` names. It rests on
`IInv` and on `LossInv`: what is in use at boot belongs to the kernel; `hold` has pages only
between their allocation and their use (`HoldInv`); and while a process is loaded, what is
still to be mapped is not mapped (`FreshInv`), so the loader overwrites no entry. For the
clean-up `MayLose` says which page it is: one of the stack or of `NoExec`, or one mapped at its own
address. That any other page is returned is the proof's case of a page that is `Freeable`.

`HeapProofs` proves the three properties of `Heap` from `Sound`, which says of a list that
is not torn: headers have types (`ListType`); blocks are apart, lie inside the heap
and cover it; the links agree in both directions; there is one end. A rank on the
blocks (`Order`) excludes cycles: without it the list could be right locally
and have a ring on the side. Splitting and joining are one lemma each for the tiling and for the links.

`KeyRingProofs` proves the refinement of `BoundedQueue` for one ring of every size: the queue
is the slots from `read_pos` to `write_pos`. `KeyboardProofs` instantiates it twice and adds what the two
rings do not know: which call is under way, and the modifiers.

`DevicesProofs` proves an inductive invariant for each of the three instances in
`MCDevices`, so that the theorems are about the specification that the run checks.
For `PlaysToTheEnd` it says that a stream which has not reported its end started at
`time - pos`, so that `start_tick` is not before that tick (`SoundStream`, `SoundMark`);
`DurationIsEnough` is the arithmetic: the two ticks added cover what rounding down loses at
both ends. `DiskAnswers` says of each disk driver what an answer it can still see means,
`DiskPlaces` that a command is in one place only (queue, in flight, completed), also when the
submission queue was overrun, `DiskPages` which pages these commands have. For `Net` it is
`CacheInv` (an entry's address belongs to its host, and the entry a process has found is the
server's until it is `evicted`), `AnswerInv` (a datagram that UdpRecv accepts answers the
question under way) and `RingInv`: as long as
the ring is `Whole`, the frames not yet sent are those in the descriptors from the head on, in
order, and only these and the one being filled are not done; a kill leaves the ring `Whole` but
where it is `abandoned`. `Behind(i)` is the distance of a
descriptor from the head; filling a descriptor adds one at the end of that order, `Transmit`
shifts it by one.

`TcpProofs` proves all properties of `Tcp`, for buffers, windows and streams of any length and
any number of losses and repetitions. Of the sequence numbers it assumes that there are
more of them than bytes in a buffer (`SeqSpace > TCP_BUF_SIZE`; in the code 2^32 and 4096),
besides what the model needs in any case. Its `IInv`:

* `CallInv`: which locals a call has at which step, and which states of the socket it can meet
  there. `NotFreedInUse` and `CloseWaitsOut` come from it;
* `CountInv`: `snd_nxt` and `snd_una` are `Iss` and what has been sent and acknowledged, modulo
  `SeqSpace`. `AckBetween` shows that the code's comparisons, although they are plain ones on
  numbers that wrap, accept nothing that was not sent: a wrapped number is refused or
  is a true one;
* `OutInv`, `PeerInv`: what the segments in `out` can carry, and what the peer has of it;
* `PlaceInv`, `NextInv`: where in the peer's stream each byte of `recv_buf` is, through
  the copy, the shift and the subtraction of TcpRecv, and that `rcv_nxt` is the first one not
  taken. `ReceivedIsPrefix` follows, and with `FinInv` (the FIN is behind all bytes) `EndOfStream`;
* `RoomInv`: what is taken from a segment fits in the buffer at every step of TcpRecv.

`Fat32Proofs` proves the five properties of `Fat32` for volumes, directories, files and names
of any size, and any number of failed writes and power failures. `TInv` makes `TypeOK` inductive, and holds also on a volume that is damaged already
(any `Tolerated`): no link leads to the root, a long entry is never the last of
its cluster (so DELETE erases in one cluster), `k` counts clusters that are not free
(so it is bounded). The walk along the FAT (`Walk`) is a recursive function, and that it exists
is proved by a least counterexample (`WalkExists`); `ChainStays` is an induction along it: a
chain does not leave a set of clusters that no link leaves.

For `NoClusterShared`, reachability would have to be followed through each write to the FAT.
Instead `OwnInv` says that there is an assignment of owners to clusters (the root directory,
the new chain of the call, the chain that is being freed, or the place of a directory entry)
such that single links do not leave an owner (`Linked`), every chain begins in its owner's
clusters (`Named`), no link leads to where a chain begins (`Led`), and what has an owner is not
free (`Used`). Each write changes a few owners: the entry found loses its clusters when they
begin to be freed and gets them back when the power goes off before the first of
them is; the new chain becomes the entry's with the write of the entry. `HitInv` ties the entry a
call found to what the call has remembered of it. TLC checked `OwnInv` with the owners computed
from the chains.

The other three need the chains themselves. A chain is the only sequence that begins with its
cluster and follows the FAT (`ChainUnique`), so a write to the FAT leaves every chain alone that
does not come by the cluster written (`ChainFrame`), and a link behind the last cluster of a chain
that ends appends to it (`ChainAppended`, with `NoRepeats`: a chain that ends comes by no cluster
twice). `Rooted(c)` says that the root directory or an entry leads to `c`, `Directory(d)` that `d` is
the root or an entry of it says so, `Holds(d, p)` that the entry at place `p` lies in a cluster of `d`.
On top of `IInv`, while nothing has gone wrong but leaks:

* `Shape`: chains that are reached end; end marks fill their cluster, and that is the last of its
  chain; a cluster that is free or a file's holds no entries; the call's directory and entry are
  still there, and so is the room it found (`CallPlace`, `RoomPlace`). Hence an entry is listed
  if and only if it is held (`ListedHeld`, `HeldListed`), each place once. Most steps are
  `Undisturbed`: what is reached afterwards was reached before and is what it was;
* `Named83`, for `NamesUnique`: a long name is followed by the entry whose 8.3 form it has, but for
  the one being written; the entry a call found has its name, and if it found none there is
  none. That the three lookups of `fat32.c`, which compare different things, find the same
  entry, if Fat32OpenPath gets to it, is `OpenFindsIt` and `WriteFindsIt`; MKDIR when it does not
  is no step of this kind, for `past` has `twice` then (`StartsOnce`). `GoneInv` is about a directory that is being deleted: its
  first cluster stays free, so it lists nothing;
* `ReadInv`, for `ReadsBack`: what `stored` has for a name is what its entry and its chain hold
  (`HeldInv`), or nothing if there is no entry (`AbsentInv`); `Filled` says how much of the new
  file is on the disk at each step of WRITEFILE. Every step is `Quiet` (the listings and the files
  stay), begins a call, or writes one entry (`NextKind`), so these proofs have three cases;
* `LeakInv`, for `NoLeak`, while `past` is empty: a cluster that is not free is kept by the root
  directory or by an entry some directory holds, or the call leads to it by its new chain, by the
  rest of the chain it frees or by the one cluster not linked yet (`Reached`). A directory that
  is freed holds nothing, unless `full` says so and the call will end with `leaked`.

Only model-checked: `ExecReturns`, a liveness property under fairness. What the recursive
functions of `Fat32` compute (`Walk`, and with it `Chain`) is used through facts about one step of
them; nothing is claimed by induction over data.

## Not modelled

* The file descriptor table and the directory cursor of `syscall.c`: 16 slots for all
  processes, never closed when a process ends. Programs killed with open files use it
  up (`syscall.c:815`); this is visible in the code, and a model would be a table with a counter.
* FAT12 and FAT16 with their fixed root directory, the second copy of the FAT, deep paths,
  offsets inside a cluster, failing reads, mounting.
* The receive ring of the e1000, IP and UDP checksums, the gateway, the encoding and the
  parsing of DNS messages.
* A program file read short: the loader takes it for a success without a process
  (`pe_loader.c:121`). In the models EXEC fails or succeeds.
* Finding and starting devices: PCI, IDENTIFY, the codec of the sound controller, the
  network card. Sequences of register accesses whose meaning is the hardware's.
* `PmmInit`, `PmmPinPage` at run time, the kernel's own tables, `VmmUnmapPage`.
* Descriptor tables, interrupt controller, boot loader, console: port I/O, tables and pixels.
* The shell and the user programs with their `malloc`: clients of the system calls.
  `src/gnu-efi` and `src/doomgeneric` are vendored. They are most of the lines of the
  repository, so the share of lines that `map` covers is small; of the files of the
  kernel that keep state it covers most.

## Plan

1. `Scheduler` with its abstract specification and its proofs. *(done)*
2. `Memory`: the owners of pages, with EXEC, MMAP, FB_MAP, transfers and the clean-up
   as operations, and its proofs. *(done)*
3. `Keyboard`: the rings as implementations of a bounded queue that drops; proof. *(done)*
4. `Tcp` over a network that loses, repeats and reorders, with the timer's poll
   between any two steps of a call; then `Net`; proofs. *(done)*
5. `Fat32`: chains and directory entries, with full disks and failing sectors, and its proofs.
   *(done)*
6. `Storage`, `Hda` and the heap's block list. *(done)* The file descriptor table. *(open)*
