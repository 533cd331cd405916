---------------------------- MODULE MemoryProofs ----------------------------
(***************************************************************************)
(* Proofs about Memory for every size of memory and every layout of an     *)
(* address space: type correctness, that a page has one owner, that a      *)
(* process that runs has all of its address space, and where pages are     *)
(* lost.                                                                   *)
(***************************************************************************)
EXTENDS Memory, FiniteSetTheorems, TLAPS

\* There are finitely many pages for the frame allocator to hand out.
LEMMA TrackedFinite == IsFiniteSet(Tracked)
<1>1. Highest \in Nat
  BY MemoryAssumption DEF MemoryAssumption
<1>2. 0 \in Int /\ Highest - 1 \in Int
  BY <1>1
<1>3. IsFiniteSet(0..(Highest - 1))
  BY <1>2, FS_Interval
<1> QED
  BY <1>3 DEF Tracked

\* The loops map what they are meant to map, and MMAP and FB_MAP extend a
\* live process.
LoopInv ==
  /\ mode = "identity" => todo \subseteq Identity
  /\ mode \in {"image", "imagemap"} => todo \subseteq Image
  /\ mode = "stackmap" => todo \subseteq Stack
  /\ mode \in {"mmap", "mmapmap", "fbmap"} =>
       /\ todo \subseteq Heap
       /\ todo \subseteq Run(brk[pid], ask)
       /\ pid \in live
  /\ mode = "fbmap" => ask = FbPages

\* An identity page is mapped to itself or not at all.
IdentityInv ==
  \A p \in Pid : \A v \in Identity : entry[p][<<0, v>>] \in {Absent, v}

\* A process that is being loaded or freed is not listed.
ListInv ==
  /\ \A p \in live \cup dead : p < nextPid
  /\ live \cap dead = {}
  /\ mode \in LoadModes => pid \notin live \cup dead /\ pid < nextPid
  /\ mode \in FreeModes => pid \notin live \cup dead

\* What the loader has passed is mapped, or memory has run out.
LoadInv ==
  Free # {} =>
    /\ mode = "identity" => \A v \in Identity \ todo : entry[pid][<<0, v>>] = v
    /\ mode \in {"image", "imagemap", "thread", "stack", "stackmap", "kstack"} =>
         \A v \in Identity : entry[pid][<<0, v>>] = v
    /\ mode \in {"image", "imagemap"} =>
         \A v \in Image \ todo : entry[pid][<<0, v>>] # Absent
    /\ mode \in {"thread", "stack", "stackmap", "kstack"} =>
         \A v \in Image : entry[pid][<<0, v>>] # Absent
    /\ mode = "stackmap" => \A v \in Stack \ todo : entry[pid][<<0, v>>] # Absent
    /\ mode = "kstack" => \A v \in Stack : entry[pid][<<0, v>>] # Absent

WholeInv == ListInv /\ LoadInv /\ RunnableIsWhole

IInv == TypeOK /\ LoopInv /\ IdentityInv /\ PagesHaveOneOwner /\ WholeInv

-----------------------------------------------------------------------------
(* The entries of the page tables.                                         *)

LEMMA SlotFacts ==
  /\ \A l \in 0..4, v \in Virt : At(l, v) \in Slot
  /\ \A v \in Virt : <<0, v>> \in Slot
  /\ Pml4 \in Slot
<1>1. \A l \in 0..4, v \in Virt : At(l, v) \in Slot
  BY DEF Slot
<1>2. \A v \in Virt : At(0, v) = <<0, v>> /\ At(4, v) = Pml4
  BY MemoryAssumption DEF MemoryAssumption, At, Pml4
<1>3. PICK v \in Virt : TRUE
  BY MemoryAssumption DEF MemoryAssumption, Virt
<1>4. At(4, v) \in Slot
  BY <1>1, <1>3
<1>5. Pml4 \in Slot
  BY <1>2, <1>3, <1>4
<1>6. \A w \in Virt : At(0, w) \in Slot
  BY <1>1
<1> QED
  BY <1>1, <1>2, <1>5, <1>6

LEMMA SetEntryEffect ==
  ASSUME TypeOK, NEW s \in Slot, NEW page \in Phys \cup {Absent},
         SetEntry(s, page)
  PROVE  /\ entry' \in [Pid -> [Slot -> Phys \cup {Absent}]]
         /\ entry'[pid][s] = page
         /\ \A p \in Pid, t \in Slot :
              p # pid \/ t # s => entry'[p][t] = entry[p][t]
BY DEF TypeOK, SetEntry

LEMMA SetNxEffect ==
  ASSUME TypeOK, NEW S \in SUBSET (Stack \cup NoExec), SetNx(S)
  PROVE  nx' \in [Pid -> SUBSET (Stack \cup NoExec)]
BY DEF TypeOK, SetNx

LEMMA ClearEffect ==
  ASSUME TypeOK, entry' = [entry EXCEPT ![pid] = NoEntries]
  PROVE  /\ entry' \in [Pid -> [Slot -> Phys \cup {Absent}]]
         /\ \A t \in Slot : entry'[pid][t] = Absent
         /\ \A p \in Pid, t \in Slot : p # pid => entry'[p][t] = entry[p][t]
BY DEF TypeOK, NoEntries

-----------------------------------------------------------------------------
(* PagesHaveOneOwner, by what a step does to the pages.                    *)

LEMMA AllocEffect ==
  ASSUME TypeOK, NEW n \in Nat \ {0}, NEW b \in Free, AllocPages(n, b)
  PROVE  /\ b \in Run(b, n) /\ b \in Tracked
         /\ Run(b, n) \subseteq Tracked
         /\ Run(b, n) \cap used = {}
         /\ used' = used \cup Run(b, n)
         /\ used' \subseteq Tracked
<1>1. /\ Run(b, n) \subseteq Free /\ used' = used \cup Run(b, n)
      /\ b \in Tracked /\ used \subseteq Tracked
  BY DEF TypeOK, AllocPages, Free
<1>2. Highest \in Nat
  BY MemoryAssumption DEF MemoryAssumption
<1>3. b \in Run(b, n)
  BY <1>1, <1>2 DEF Run, Tracked
<1> QED
  BY <1>1, <1>3 DEF Free

LEMMA AllocPageEffect ==
  ASSUME TypeOK, NEW b \in Free, AllocPage(b)
  PROVE  /\ b \in Tracked /\ b \in Phys /\ b \notin used
         /\ used' = used \cup {b}
         /\ used' \subseteq Tracked
<1>1. Run(b, 1) = {b}
  BY MemoryAssumption DEF MemoryAssumption, Free, Run, Tracked
<1> QED
  BY <1>1 DEF TypeOK, AllocPage, AllocPages, Free, Phys

\* Owners only let go of pages, and what is freed nobody owns any longer.
LEMMA OwnersShrink ==
  ASSUME PagesHaveOneOwner,
         kernel' = kernel, hold' \subseteq hold,
         \A p \in Pid : KStack(p)' \subseteq KStack(p),
         \A p \in Pid : OwnSlots(p)' \subseteq OwnSlots(p),
         \A p \in Pid : \A s \in OwnSlots(p)' : entry'[p][s] = entry[p][s],
         kernel \subseteq used', hold' \subseteq used',
         \A p \in Pid : KStack(p)' \subseteq used',
         \A p \in Pid : \A s \in OwnSlots(p)' : entry[p][s] \in used'
  PROVE  PagesHaveOneOwner'
<1> USE DEF PagesHaveOneOwner
<1>1. (kernel \subseteq used /\ hold \subseteq used \ kernel)'
  OBVIOUS
<1>2. (\A p \in Pid : KStack(p) \subseteq used \ (kernel \cup hold))'
  OBVIOUS
<1>3. (\A p \in Pid : \A s \in OwnSlots(p) :
         entry[p][s] \in used \ (kernel \cup hold))'
  OBVIOUS
<1>4. (\A p, q \in Pid : p # q => KStack(p) \cap KStack(q) = {})'
  OBVIOUS
<1>5. (\A p, q \in Pid : \A s \in OwnSlots(p) : entry[p][s] \notin KStack(q))'
  OBVIOUS
<1>6. (\A p, q \in Pid : \A s \in OwnSlots(p) : \A t \in OwnSlots(q) :
         entry[p][s] = entry[q][t] => p = q /\ s = t)'
  OBVIOUS
<1> QED
  BY <1>1, <1>2, <1>3, <1>4, <1>5, <1>6

LEMMA OwnersSame ==
  ASSUME PagesHaveOneOwner, used' = used, kernel' = kernel, entry' = entry,
         kstk' = kstk, hold' \subseteq hold
  PROVE  PagesHaveOneOwner'
<1>1. \A p \in Pid : OwnSlots(p)' = OwnSlots(p) /\ KStack(p)' = KStack(p)
  BY DEF OwnSlots, KStack
<1>2. /\ kernel \subseteq used /\ hold \subseteq used
      /\ \A p \in Pid : KStack(p) \subseteq used
      /\ \A p \in Pid : \A s \in OwnSlots(p) : entry[p][s] \in used
  BY DEF PagesHaveOneOwner
<1> QED
  BY <1>1, <1>2, OwnersShrink

\* Pages that were free go to the kernel or to a local variable.
LEMMA OwnersTake ==
  ASSUME PagesHaveOneOwner, NEW R, R \cap used = {}, used' = used \cup R,
         entry' = entry, kstk' = kstk,
         \/ kernel' = kernel \cup R /\ hold' = hold
         \/ kernel' = kernel /\ hold' \subseteq hold \cup R
  PROVE  PagesHaveOneOwner'
<1>1. \A p \in Pid : OwnSlots(p)' = OwnSlots(p) /\ KStack(p)' = KStack(p)
  BY DEF OwnSlots, KStack
<1> USE DEF PagesHaveOneOwner
<1>2. (kernel \subseteq used /\ hold \subseteq used \ kernel)'
  OBVIOUS
<1>3. (\A p \in Pid : KStack(p) \subseteq used \ (kernel \cup hold))'
  BY <1>1
<1>4. (\A p \in Pid : \A s \in OwnSlots(p) :
         entry[p][s] \in used \ (kernel \cup hold))'
  BY <1>1
<1> QED
  BY <1>1, <1>2, <1>3, <1>4

\* A free page becomes a page table.
LEMMA OwnersTable ==
  ASSUME TypeOK, PagesHaveOneOwner, NEW b \in Tracked, b \notin used,
         used' = used \cup {b}, NEW s \in Slot, s[1] # 0, SetEntry(s, b),
         kernel' = kernel, hold' = hold, kstk' = kstk
  PROVE  PagesHaveOneOwner'
<1>1. /\ entry'[pid][s] = b
      /\ \A p \in Pid, t \in Slot :
           p # pid \/ t # s => entry'[p][t] = entry[p][t]
  BY SetEntryEffect DEF Phys
<1>2. \A p \in Pid : KStack(p)' = KStack(p)
  BY DEF KStack
<1>3. \A p \in Pid : \A t \in OwnSlots(p)' :
         \/ p = pid /\ t = s /\ entry'[p][t] = b
         \/ t \in OwnSlots(p) /\ entry'[p][t] = entry[p][t]
  BY <1>1 DEF OwnSlots
<1>4. \A p \in Pid : \A t \in OwnSlots(p) : entry[p][t] # b
  BY DEF PagesHaveOneOwner
<1>5. \A p \in Pid : b \notin KStack(p)
  BY DEF PagesHaveOneOwner
<1> USE DEF PagesHaveOneOwner
<1>6. (kernel \subseteq used /\ hold \subseteq used \ kernel)'
  OBVIOUS
<1>7. (\A p \in Pid : KStack(p) \subseteq used \ (kernel \cup hold))'
  BY <1>2
<1>8. (\A p \in Pid : \A t \in OwnSlots(p) :
         entry[p][t] \in used \ (kernel \cup hold))'
  BY <1>3
<1>9. (\A p, q \in Pid : \A t \in OwnSlots(p) : entry[p][t] \notin KStack(q))'
  BY <1>2, <1>3, <1>5
<1>10. (\A p, q \in Pid : \A t \in OwnSlots(p) : \A u \in OwnSlots(q) :
         entry[p][t] = entry[q][u] => p = q /\ t = u)'
  BY <1>3, <1>4
<1> QED
  BY <1>2, <1>6, <1>7, <1>8, <1>9, <1>10

\* Free pages become a kernel stack.
LEMMA OwnersKStack ==
  ASSUME TypeOK, PagesHaveOneOwner, NEW b \in Tracked,
         Run(b, KStackPages) \cap used = {},
         used' = used \cup Run(b, KStackPages),
         kstk' = [kstk EXCEPT ![pid] = b],
         kernel' = kernel, hold' = hold, entry' = entry
  PROVE  PagesHaveOneOwner'
<1>1. \A p \in Pid : OwnSlots(p)' = OwnSlots(p)
  BY DEF OwnSlots
<1>2. \A p \in Pid : KStack(p)' = IF p = pid THEN Run(b, KStackPages) ELSE KStack(p)
  BY MemoryAssumption DEF MemoryAssumption, TypeOK, KStack, Tracked, Absent
<1> DEFINE R == Run(b, KStackPages)
<1>3. R \cap used = {} /\ used' = used \cup R
  OBVIOUS
<1>4. \A p \in Pid : KStack(p)' = IF p = pid THEN R ELSE KStack(p)
  BY <1>2
<1> HIDE DEF R
<1> USE DEF PagesHaveOneOwner
<1>5. (kernel \subseteq used /\ hold \subseteq used \ kernel)'
  BY <1>3
<1>6. (\A p \in Pid : KStack(p) \subseteq used \ (kernel \cup hold))'
  BY <1>3, <1>4
<1>7. (\A p \in Pid : \A t \in OwnSlots(p) :
         entry[p][t] \in used \ (kernel \cup hold))'
  BY <1>1, <1>3
<1>8. (\A p, q \in Pid : p # q => KStack(p) \cap KStack(q) = {})'
  BY <1>3, <1>4
<1>9. (\A p, q \in Pid : \A t \in OwnSlots(p) : entry[p][t] \notin KStack(q))'
  BY <1>1, <1>3, <1>4
<1>10. (\A p, q \in Pid : \A t \in OwnSlots(p) : \A u \in OwnSlots(q) :
         entry[p][t] = entry[q][u] => p = q /\ t = u)'
  BY <1>1
<1> QED
  BY <1>5, <1>6, <1>7, <1>8, <1>9, <1>10

\* A page a local variable held is mapped.
LEMMA OwnersMap ==
  ASSUME TypeOK, PagesHaveOneOwner, NEW b \in hold, NEW s \in Slot,
         SetEntry(s, b), hold' = hold \ {b},
         used' = used, kernel' = kernel, kstk' = kstk
  PROVE  PagesHaveOneOwner'
<1>0. b \in Tracked /\ b \in Phys /\ b \in used /\ b \notin kernel
  BY DEF TypeOK, PagesHaveOneOwner, Phys
<1>1. /\ entry'[pid][s] = b
      /\ \A p \in Pid, t \in Slot :
           p # pid \/ t # s => entry'[p][t] = entry[p][t]
  BY <1>0, SetEntryEffect
<1>2. \A p \in Pid : KStack(p)' = KStack(p)
  BY DEF KStack
<1>3. \A p \in Pid : \A t \in OwnSlots(p)' :
         \/ p = pid /\ t = s /\ entry'[p][t] = b
         \/ t \in OwnSlots(p) /\ entry'[p][t] = entry[p][t]
  BY <1>1 DEF OwnSlots
<1>4. \A p \in Pid : \A t \in OwnSlots(p) : entry[p][t] # b
  BY DEF PagesHaveOneOwner
<1>5. \A p \in Pid : b \notin KStack(p)
  BY DEF PagesHaveOneOwner
<1> USE DEF PagesHaveOneOwner
<1>6. (kernel \subseteq used /\ hold \subseteq used \ kernel)'
  OBVIOUS
<1>7. (\A p \in Pid : KStack(p) \subseteq used \ (kernel \cup hold))'
  BY <1>2
<1>8. (\A p \in Pid : \A t \in OwnSlots(p) :
         entry[p][t] \in used \ (kernel \cup hold))'
  BY <1>0, <1>3
<1>9. (\A p, q \in Pid : \A t \in OwnSlots(p) : entry[p][t] \notin KStack(q))'
  BY <1>2, <1>3, <1>5
<1>10. (\A p, q \in Pid : \A t \in OwnSlots(p) : \A u \in OwnSlots(q) :
         entry[p][t] = entry[q][u] => p = q /\ t = u)'
  BY <1>3, <1>4
<1> QED
  BY <1>2, <1>6, <1>7, <1>8, <1>9, <1>10

\* An entry comes to name a page that is nobody's: of the framebuffer, or the
\* page at its own address.  Or it is cleared.
LEMMA OwnersMapShared ==
  ASSUME TypeOK, PagesHaveOneOwner, NEW s \in Slot, NEW b \in Phys \cup {Absent},
         b \notin Tracked \/ (s[1] = 0 /\ s[2] \in Identity),
         SetEntry(s, b), hold' \subseteq hold,
         used' = used, kernel' = kernel, kstk' = kstk
  PROVE  PagesHaveOneOwner'
<1>1. /\ entry'[pid][s] = b
      /\ \A p \in Pid, t \in Slot :
           p # pid \/ t # s => entry'[p][t] = entry[p][t]
  BY SetEntryEffect
<1>2. \A p \in Pid : KStack(p)' = KStack(p)
  BY DEF KStack
<1>3. \A p \in Pid : \A t \in OwnSlots(p)' :
         t \in OwnSlots(p) /\ entry'[p][t] = entry[p][t]
  BY <1>1 DEF OwnSlots
<1>4. /\ kernel \subseteq used /\ hold \subseteq used
      /\ \A p \in Pid : KStack(p) \subseteq used
      /\ \A p \in Pid : \A t \in OwnSlots(p) : entry[p][t] \in used
  BY DEF PagesHaveOneOwner
<1> QED
  BY <1>2, <1>3, <1>4, OwnersShrink

\* A process loses its page tables, and they are not freed.
LEMMA OwnersDrop ==
  ASSUME TypeOK, PagesHaveOneOwner,
         entry' = entry \/ entry' = [entry EXCEPT ![pid] = NoEntries],
         kstk' = kstk \/ kstk' = [kstk EXCEPT ![pid] = Absent],
         hold' \subseteq hold, used' = used, kernel' = kernel
  PROVE  PagesHaveOneOwner'
<1>1. \A p \in Pid : KStack(p)' \subseteq KStack(p)
  BY DEF TypeOK, KStack
<1>2. \A p \in Pid : \A t \in OwnSlots(p)' :
         t \in OwnSlots(p) /\ entry'[p][t] = entry[p][t]
  <2>1. CASE entry' = entry
    BY <2>1 DEF OwnSlots
  <2>2. CASE entry' = [entry EXCEPT ![pid] = NoEntries]
    <3>1. Absent \notin Tracked
      BY MemoryAssumption DEF MemoryAssumption, Absent, Tracked
    <3> QED
      BY <2>2, <3>1, ClearEffect DEF OwnSlots
  <2> QED
    BY <2>1, <2>2
<1>3. /\ kernel \subseteq used /\ hold \subseteq used
      /\ \A p \in Pid : KStack(p) \subseteq used
      /\ \A p \in Pid : \A t \in OwnSlots(p) : entry[p][t] \in used
  BY DEF PagesHaveOneOwner
<1> QED
  BY <1>1, <1>2, <1>3, OwnersShrink

-----------------------------------------------------------------------------
(* RunnableIsWhole and ListInv, where little changes.                      *)

LEMMA WholeKept ==
  ASSUME RunnableIsWhole, live' \subseteq live, live \subseteq Pid,
         \A p \in live' : kstk'[p] = kstk[p],
         \A p \in live' : \A v \in Virt : entry'[p][<<0, v>>] = entry[p][<<0, v>>]
  PROVE  RunnableIsWhole'
BY DEF RunnableIsWhole, Virt, UserPages

LEMMA InitIInv == Init => IInv
<1> SUFFICES ASSUME Init PROVE IInv
  OBVIOUS
<1> USE MemoryAssumption DEF MemoryAssumption
<1>1. TypeOK
  <2>1. Shell \in Pid /\ Shell + 1 \in 1..(MaxPid + 1)
    BY DEF Shell, Pid
  <2>2. "file" \in Modes
    BY DEF Modes, LoadModes
  <2>3. entry \in [Pid -> [Slot -> Phys \cup {Absent}]]
    BY DEF Init, NoEntries
  <2>4. kstk \in [Pid -> Tracked \cup {Absent}] /\ brk \in [Pid -> Nat]
    BY DEF Init
  <2> QED
    BY <2>1, <2>2, <2>3, <2>4 DEF Init, TypeOK
<1>2. LoopInv
  BY DEF Init, LoopInv
<1>3. IdentityInv
  BY SlotFacts DEF Init, IdentityInv, NoEntries, Virt
<1>4. \A p \in Pid : KStack(p) = {} /\ OwnSlots(p) = {}
  BY DEF Init, KStack, OwnSlots, NoEntries, Absent, Tracked
<1>5. PagesHaveOneOwner
  BY <1>4 DEF Init, PagesHaveOneOwner
<1>6. ListInv
  BY DEF Init, ListInv, Shell, FreeModes
<1>7. LoadInv
  BY DEF Init, LoadInv
<1>8. RunnableIsWhole
  BY DEF Init, RunnableIsWhole
<1> QED
  BY <1>1, <1>2, <1>3, <1>5, <1>6, <1>7, <1>8 DEF IInv, WholeInv

-----------------------------------------------------------------------------
(* VmmMapPage.                                                             *)

LEMMA NextLevelIInv ==
  ASSUME IInv, mode \in MapModes, NEW v \in todo, NextLevel(v),
         UNCHANGED <<kernel, kstk, brk, procs, irq, pid, ask>>
  PROVE  IInv'
<1> USE DEF IInv, procs
<1>1. PICK l \in Missing(v), b \in Free :
        /\ AllocPage(b) /\ SetEntry(At(l, v), b)
        /\ UNCHANGED <<nx, todo, hold, mode>>
  BY DEF NextLevel
<1> DEFINE s == At(l, v)
<1>2. v \in Virt /\ l \in 1..3
  BY DEF TypeOK, Missing
<1>3. s \in Slot /\ s[1] # 0
  BY <1>2, SlotFacts DEF At
<1>4. SetEntry(s, b)
  BY <1>1
<1>5. \A w : <<0, w>> # s
  BY <1>3
<1> HIDE DEF s
<1>6. /\ b \in Tracked /\ b \in Phys /\ b \notin used
      /\ used' = used \cup {b} /\ used' \subseteq Tracked
  BY <1>1, AllocPageEffect
<1>7. /\ entry' \in [Pid -> [Slot -> Phys \cup {Absent}]]
      /\ \A p \in Pid, t \in Slot :
           p # pid \/ t # s => entry'[p][t] = entry[p][t]
  BY <1>3, <1>4, <1>6, SetEntryEffect
<1>8. \A p \in Pid, w \in Virt : entry'[p][<<0, w>>] = entry[p][<<0, w>>]
  BY <1>5, <1>7, SlotFacts
<1>9. TypeOK'
  BY <1>1, <1>6, <1>7 DEF TypeOK
<1>10. LoopInv'
  BY <1>1 DEF LoopInv
<1>11. IdentityInv'
  BY <1>8 DEF IdentityInv, Virt
<1>12. PagesHaveOneOwner'
  BY <1>1, <1>3, <1>4, <1>6, OwnersTable
<1>13. ListInv'
  BY <1>1 DEF WholeInv, ListInv
<1>14. Free # {}
  BY <1>1
<1>15. LoadInv'
  <2>1. \A w \in Identity \cup Image \cup Stack :
          entry'[pid][<<0, w>>] = entry[pid][<<0, w>>]
    BY <1>8 DEF TypeOK, Virt, UserPages
  <2> QED
    BY <1>1, <1>14, <2>1 DEF WholeInv, LoadInv
<1>16. RunnableIsWhole'
  BY <1>8, WholeKept DEF WholeInv, TypeOK
<1> QED
  BY <1>9, <1>10, <1>11, <1>12, <1>13, <1>15, <1>16 DEF WholeInv

LEMMA PutPageIInv ==
  ASSUME IInv, mode \in MapModes, NEW v \in todo, NEW page \in PageFor(v),
         PutPage(v, page),
         UNCHANGED <<kernel, kstk, brk, procs, irq, pid, ask>>
  PROVE  IInv'
<1> USE DEF IInv, procs
<1>1. v \in Virt /\ <<0, v>> \in Slot
  BY SlotFacts DEF TypeOK
<1>2. /\ todo' = todo \ {v} /\ hold' = hold \ {page} /\ used' = used
      /\ mode' = AfterMap
      /\ Missing(v) = {} => SetEntry(<<0, v>>, page)
      /\ Missing(v) # {} => Free = {} /\ entry' = entry
  BY DEF PutPage
<1>3. mode' \in Modes
  BY <1>2 DEF AfterMap, MapModes, Modes, LoadModes
<1>4. /\ mode = "identity" => page = v /\ v \in Identity
      /\ mode = "fbmap" => page \in Fb
      /\ mode \notin {"identity", "fbmap"} => page \in hold
      /\ mode # "identity" => v \in UserPages /\ v \notin Identity
  <2>1. mode = "identity" => page = v /\ v \in Identity
    BY DEF PageFor, LoopInv
  <2>2. ASSUME mode = "fbmap" PROVE page \in Fb
    <3>1. page = FbBase + (v - brk[pid]) /\ v \in Run(brk[pid], FbPages)
      BY <2>2 DEF PageFor, LoopInv
    <3>2. brk[pid] \in Nat
      BY DEF TypeOK
    <3> QED
      BY <3>1, <3>2, MemoryAssumption DEF MemoryAssumption, Fb, Run
  <2>3. mode \notin {"identity", "fbmap"} => page \in hold
    BY DEF PageFor, Least
  <2>4. mode # "identity" => v \in UserPages
    BY DEF LoopInv, MapModes, UserPages
  <2> QED
    BY <2>1, <2>2, <2>3, <2>4, MemoryAssumption DEF MemoryAssumption
<1>5. page \in Phys
  BY <1>4 DEF TypeOK, Phys
<1>6. page # Absent
  BY <1>5, MemoryAssumption DEF MemoryAssumption, Phys, Tracked, Fb, Run, Absent
<1>7. Missing(v) = {} =>
        /\ entry' \in [Pid -> [Slot -> Phys \cup {Absent}]]
        /\ entry'[pid][<<0, v>>] = page
        /\ \A p \in Pid, t \in Slot :
             p # pid \/ t # <<0, v>> => entry'[p][t] = entry[p][t]
  BY <1>1, <1>2, <1>5, SetEntryEffect
<1>8. \A p \in Pid, w \in Virt :
        p # pid \/ w # v => entry'[p][<<0, w>>] = entry[p][<<0, w>>]
  BY <1>2, <1>7, SlotFacts
<1>9. entry'[pid][<<0, v>>] \in {entry[pid][<<0, v>>], page}
  BY <1>2, <1>7
<1>10. TypeOK'
  <2>1. Missing(v) = {} => SetNx(NxWith(v))
    BY DEF PutPage
  <2>2. Missing(v) # {} => nx' = nx
    BY DEF PutPage
  <2>3. nx[pid] \subseteq Stack \cup NoExec
    BY DEF TypeOK
  <2>4. mode = "stackmap" => v \in Stack
    BY DEF LoopInv
  <2>5. NxWith(v) \in SUBSET (Stack \cup NoExec)
    BY <2>3, <2>4 DEF NxWith
  <2>6. nx' \in [Pid -> SUBSET (Stack \cup NoExec)]
    BY <2>1, <2>2, <2>5, SetNxEffect DEF TypeOK
  <2> QED
    BY <1>2, <1>3, <1>7, <2>6 DEF TypeOK
<1>11. LoopInv'
  BY <1>2 DEF LoopInv, AfterMap, MapModes
<1>12. IdentityInv'
  <2> SUFFICES ASSUME NEW p \in Pid, NEW w \in Identity
               PROVE  entry'[p][<<0, w>>] \in {Absent, w}
    BY DEF IdentityInv
  <2>1. entry[p][<<0, w>>] \in {Absent, w}
    BY DEF IdentityInv
  <2>2. CASE p = pid /\ w = v
    <3>1. page = w
      BY <1>4, <2>2
    <3> QED
      BY <1>9, <2>1, <2>2, <3>1
  <2>3. CASE p # pid \/ w # v
    <3>1. w \in Virt
      BY DEF Virt
    <3> QED
      BY <1>8, <2>1, <2>3, <3>1
  <2> QED
    BY <2>2, <2>3
<1>13. PagesHaveOneOwner'
  <2>1. CASE Missing(v) # {}
    BY <1>2, <2>1, OwnersSame
  <2>2. CASE Missing(v) = {} /\ mode \notin {"identity", "fbmap"}
    BY <1>1, <1>2, <1>4, <2>2, OwnersMap
  <2>3. CASE Missing(v) = {} /\ mode \in {"identity", "fbmap"}
    <3>1. page \notin Tracked \/ v \in Identity
      BY <1>4, <2>3, MemoryAssumption DEF MemoryAssumption, Fb, Run, Tracked
    <3>2. <<0, v>>[1] = 0 /\ <<0, v>>[2] = v
      OBVIOUS
    <3> QED
      BY <1>1, <1>2, <1>5, <2>3, <3>1, <3>2, OwnersMapShared
  <2> QED
    BY <2>1, <2>2, <2>3
<1>14. ListInv'
  BY <1>2 DEF WholeInv, ListInv, AfterMap, MapModes, LoadModes, FreeModes
<1>15. LoadInv'
  <2> SUFFICES ASSUME Free' # {} PROVE LoadInv'
    BY DEF LoadInv
  <2>1. Free # {} /\ Missing(v) = {}
    BY <1>2 DEF Free
  <2>2. pid \in Pid
    BY DEF TypeOK
  <2>3. entry'[pid][<<0, v>>] = page /\ (mode = "identity" => page = v)
    BY <1>4, <1>7, <2>1
  <2>4. \A w \in Virt \ {v} : entry'[pid][<<0, w>>] = entry[pid][<<0, w>>]
    BY <1>8, <2>2
  <2>5. mode # "identity" => v \notin Identity
    BY <1>4
  <2> QED
    BY <1>2, <1>6, <2>1, <2>3, <2>4, <2>5
    DEF WholeInv, LoadInv, AfterMap, MapModes, Virt, UserPages
<1>16. RunnableIsWhole'
  <2> SUFFICES ASSUME NEW p \in live
               PROVE  /\ kstk[p] # Absent
                      /\ \A w \in Identity : entry'[p][<<0, w>>] = w
                      /\ \A w \in Image \cup Stack : entry'[p][<<0, w>>] # Absent
    BY DEF RunnableIsWhole
  <2>1. p \in Pid
    BY DEF TypeOK
  <2>2. v \in Identity => page = v
    BY <1>4
  <2> QED
    BY <1>6, <1>8, <1>9, <2>1, <2>2 DEF WholeInv, RunnableIsWhole, Virt, UserPages
<1> QED
  BY <1>10, <1>11, <1>12, <1>13, <1>14, <1>15, <1>16 DEF WholeInv

LEMMA VmmMapPageIInv == IInv /\ VmmMapPage => IInv'
BY NextLevelIInv, PutPageIInv DEF VmmMapPage, Least

-----------------------------------------------------------------------------
(* EXEC.                                                                   *)

LEMMA StillWhole ==
  ASSUME IInv, entry' = entry, kstk' = kstk, live' = live
  PROVE  IdentityInv' /\ RunnableIsWhole'
BY DEF IInv, WholeInv, IdentityInv, RunnableIsWhole

LEMMA ExecIInv == IInv /\ Exec => IInv'
<1> SUFFICES ASSUME IInv, Exec PROVE IInv'
  OBVIOUS
<1> USE DEF IInv
<1>1. TypeOK'
  <2>1. nextPid \in Pid /\ nextPid + 1 \in 1..(MaxPid + 1)
    BY MemoryAssumption DEF MemoryAssumption, Exec, TypeOK, Pid
  <2>2. "file" \in Modes
    BY DEF Modes, LoadModes
  <2> QED
    BY <2>1, <2>2 DEF TypeOK, Exec
<1>2. LoopInv'
  BY DEF Exec, LoopInv
<1>3. IdentityInv' /\ RunnableIsWhole'
  BY StillWhole DEF Exec
<1>4. PagesHaveOneOwner'
  BY OwnersSame DEF Exec
<1>5. ListInv'
  <2>1. nextPid \in Int /\ live \subseteq Int /\ dead \subseteq Int
    BY MemoryAssumption DEF MemoryAssumption, TypeOK, Pid
  <2>2. \A p \in live \cup dead : p < nextPid
    BY DEF WholeInv, ListInv
  <2> QED
    BY <2>1, <2>2 DEF WholeInv, ListInv, Exec, FreeModes
<1>6. LoadInv'
  BY DEF LoadInv, Exec
<1> QED
  BY <1>1, <1>2, <1>3, <1>4, <1>5, <1>6 DEF WholeInv

LEMMA KmAllocIInv ==
  ASSUME IInv, NEW from, NEW to,
         \/ from = "file" /\ to = "process"
         \/ from = "process" /\ to = "pml4"
         \/ from = "thread" /\ to = "stack",
         KmAlloc(from, to)
  PROVE  IInv'
<1> USE DEF IInv
<1>1. /\ mode = from /\ mode' \in {to, "stopped"}
      /\ UNCHANGED <<entry, nx, kstk, brk, live, dead, nextPid, irq, pid, todo, ask, hold>>
  BY DEF KmAlloc, procs
<1>2. /\ used' \subseteq Tracked /\ kernel' \subseteq Tracked
      /\ Free' \subseteq Free
      /\ PagesHaveOneOwner'
  <2>1. CASE used' = used /\ kernel' = kernel
    BY <1>1, <2>1, OwnersSame DEF TypeOK, Free
  <2>2. CASE \E b \in Free : /\ AllocPages(GrowPages, b)
                             /\ kernel' = kernel \cup Run(b, GrowPages)
    <3>1. PICK b \in Free : /\ AllocPages(GrowPages, b)
                            /\ kernel' = kernel \cup Run(b, GrowPages)
      BY <2>2
    <3>2. /\ Run(b, GrowPages) \subseteq Tracked
          /\ Run(b, GrowPages) \cap used = {}
          /\ used' = used \cup Run(b, GrowPages)
          /\ used' \subseteq Tracked
      BY <3>1, AllocEffect, MemoryAssumption DEF MemoryAssumption
    <3>3. PagesHaveOneOwner'
      BY <1>1, <3>1, <3>2, OwnersTake
    <3> QED
      BY <3>1, <3>2, <3>3 DEF TypeOK, Free
  <2> QED
    BY <2>1, <2>2 DEF KmAlloc, AllocFails
<1>3. TypeOK'
  <2>1. {"process", "pml4", "stack", "stopped"} \subseteq Modes
    BY DEF Modes, LoadModes
  <2> QED
    BY <1>1, <1>2, <2>1 DEF TypeOK
<1>4. LoopInv'
  BY <1>1 DEF LoopInv
<1>5. IdentityInv' /\ RunnableIsWhole'
  BY <1>1, StillWhole
<1>6. ListInv'
  <2>1. mode \in LoadModes /\ mode' \notin FreeModes
    BY <1>1 DEF LoadModes, FreeModes
  <2> QED
    BY <1>1, <2>1 DEF WholeInv, ListInv
<1>7. LoadInv'
  BY <1>1, <1>2 DEF WholeInv, LoadInv
<1> QED
  BY <1>2, <1>3, <1>4, <1>5, <1>6, <1>7 DEF WholeInv

LEMMA LoadFailsIInv ==
  ASSUME IInv, mode \in LoadModes, used' = used, LoadFails
  PROVE  IInv'
<1> USE DEF IInv
<1>1. /\ mode' \in {"user", "stopped"} /\ irq' = TRUE /\ todo' = {} /\ hold' = {}
      /\ UNCHANGED <<kernel, kstk, brk, live, dead, nextPid, pid, ask>>
      /\ entry' = [entry EXCEPT ![pid] = NoEntries] /\ SetNx({})
  BY DEF LoadFails, procs
<1>2. /\ entry' \in [Pid -> [Slot -> Phys \cup {Absent}]]
      /\ \A t \in Slot : entry'[pid][t] = Absent
      /\ \A p \in Pid, t \in Slot : p # pid => entry'[p][t] = entry[p][t]
      /\ nx' \in [Pid -> SUBSET (Stack \cup NoExec)]
  BY <1>1, ClearEffect, SetNxEffect
<1>3. TypeOK'
  BY <1>1, <1>2 DEF TypeOK, Modes
<1>4. LoopInv'
  BY <1>1 DEF LoopInv
<1>5. IdentityInv'
  <2>1. \A v \in Identity : <<0, v>> \in Slot
    BY SlotFacts DEF Virt
  <2>2. \A p \in Pid, v \in Identity :
          entry'[p][<<0, v>>] = Absent \/ entry'[p][<<0, v>>] = entry[p][<<0, v>>]
    BY <1>2, <2>1
  <2> QED
    BY <2>2 DEF IdentityInv
<1>6. PagesHaveOneOwner'
  BY <1>1, OwnersDrop
<1>7. ListInv'
  BY <1>1 DEF WholeInv, ListInv, LoadModes, FreeModes
<1>8. LoadInv'
  BY <1>1 DEF LoadInv
<1>9. RunnableIsWhole'
  <2>1. pid \notin live /\ live \subseteq Pid
    BY DEF WholeInv, ListInv, TypeOK
  <2> QED
    BY <1>1, <1>2, <2>1, SlotFacts, WholeKept DEF WholeInv
<1> QED
  BY <1>3, <1>4, <1>5, <1>6, <1>7, <1>8, <1>9 DEF WholeInv

LEMMA LoadPml4IInv == IInv /\ LoadPml4 => IInv'
<1> SUFFICES ASSUME IInv, LoadPml4 PROVE IInv'
  OBVIOUS
<1> USE DEF IInv
<1>1. mode = "pml4" /\ mode \in LoadModes
  BY DEF LoadPml4, LoadModes
<1>2. CASE AllocFails(1) /\ LoadFails
  BY <1>1, <1>2, LoadFailsIInv DEF AllocFails
<1>3. CASE \E b \in Free :
             /\ AllocPage(b)
             /\ SetEntry(Pml4, b)
             /\ mode' = "identity" /\ todo' = Identity
             /\ UNCHANGED <<kernel, nx, kstk, brk, procs, irq, pid, ask, hold>>
  <2>1. PICK b \in Free :
             /\ AllocPage(b)
             /\ SetEntry(Pml4, b)
             /\ mode' = "identity" /\ todo' = Identity
             /\ UNCHANGED <<kernel, nx, kstk, brk, live, dead, nextPid, irq, pid,
                            ask, hold>>
    BY <1>3 DEF procs
  <2>2. Pml4 \in Slot /\ Pml4[1] # 0 /\ \A w : <<0, w>> # Pml4
    BY SlotFacts DEF Pml4
  <2>3. /\ b \in Tracked /\ b \in Phys /\ b \notin used
        /\ used' = used \cup {b} /\ used' \subseteq Tracked
    BY <2>1, AllocPageEffect
  <2>4. /\ entry' \in [Pid -> [Slot -> Phys \cup {Absent}]]
        /\ \A p \in Pid, t \in Slot :
             p # pid \/ t # Pml4 => entry'[p][t] = entry[p][t]
    BY <2>1, <2>2, <2>3, SetEntryEffect
  <2>5. \A p \in Pid, w \in Virt : entry'[p][<<0, w>>] = entry[p][<<0, w>>]
    BY <2>2, <2>4, SlotFacts
  <2>6. TypeOK'
    <3>1. "identity" \in Modes /\ Identity \subseteq Virt
      BY DEF Modes, LoadModes, Virt
    <3> QED
      BY <2>1, <2>3, <2>4, <3>1 DEF TypeOK
  <2>7. LoopInv'
    BY <2>1 DEF LoopInv
  <2>8. IdentityInv'
    BY <2>5 DEF IdentityInv, Virt
  <2>9. PagesHaveOneOwner'
    BY <2>1, <2>2, <2>3, OwnersTable
  <2>10. ListInv'
    BY <1>1, <2>1 DEF WholeInv, ListInv, FreeModes
  <2>11. LoadInv'
    BY <2>1 DEF LoadInv
  <2>12. RunnableIsWhole'
    BY <2>1, <2>5, WholeKept DEF WholeInv, TypeOK
  <2> QED
    BY <2>6, <2>7, <2>8, <2>9, <2>10, <2>11, <2>12 DEF WholeInv
<1> QED
  BY <1>2, <1>3 DEF LoadPml4

\* Steps that only move the loader on.
LEMMA LoadMovesIInv ==
  IInv /\ (LoadIdentity \/ LoadThread \/ LoadStackDone) => IInv'
<1> SUFFICES ASSUME IInv, LoadIdentity \/ LoadThread \/ LoadStackDone
             PROVE  IInv'
  OBVIOUS
<1> USE DEF IInv
<1>1. /\ UNCHANGED <<used, kernel, entry, kstk, brk, live, dead, nextPid, irq,
                     pid, ask, hold>>
      /\ todo = {}
      /\ \/ mode = "identity" /\ mode' = "image" /\ todo' = Image
         \/ mode = "image" /\ mode' = "thread" /\ todo' = {}
         \/ mode = "stackmap" /\ mode' = "kstack" /\ todo' = {}
  BY DEF LoadIdentity, LoadThread, LoadStackDone, procs
<1>2. TypeOK'
  <2>1. {"image", "thread", "kstack"} \subseteq Modes
    BY DEF Modes, LoadModes
  <2>2. Image \subseteq Virt
    BY DEF Virt, UserPages
  <2>3. nx' \in [Pid -> SUBSET (Stack \cup NoExec)]
    BY SetNxEffect DEF LoadIdentity, LoadThread, LoadStackDone, TypeOK
  <2> QED
    BY <1>1, <2>1, <2>2, <2>3 DEF TypeOK
<1>3. LoopInv'
  BY <1>1 DEF LoopInv
<1>4. IdentityInv' /\ RunnableIsWhole'
  BY <1>1, StillWhole
<1>5. PagesHaveOneOwner'
  BY <1>1, OwnersSame
<1>6. ListInv'
  <2>1. (mode \in LoadModes \/ mode = "stackmap") /\ mode' \notin FreeModes
    BY <1>1 DEF LoadModes, FreeModes
  <2> QED
    BY <1>1, <2>1 DEF WholeInv, ListInv, LoadModes
<1>7. LoadInv'
  <2>1. Free' = Free
    BY <1>1 DEF Free
  <2> QED
    BY <1>1, <2>1 DEF WholeInv, LoadInv
<1> QED
  BY <1>2, <1>3, <1>4, <1>5, <1>6, <1>7 DEF WholeInv

\* Pages are taken for a local variable; what they are for is mapped next.
LEMMA TakeIInv ==
  ASSUME IInv, NEW R, R \subseteq Tracked, R \cap used = {},
         used' = used \cup R, hold' \subseteq hold \cup R,
         UNCHANGED <<kernel, entry, nx, kstk, brk, live, dead, nextPid, irq, pid, ask>>,
         \/ /\ mode \in {"image", "mmap"} /\ todo' = todo
            /\ mode' = IF mode = "image" THEN "imagemap" ELSE "mmapmap"
         \/ mode = "stack" /\ mode' = "stackmap" /\ todo' = Stack
         \/ /\ mode \in {"dma", "dmaany"} /\ mode' \in {"dma", "dmalow", "io"}
            /\ todo' = todo
  PROVE  IInv'
<1> USE DEF IInv
<1>1. TypeOK'
  <2>1. {"imagemap", "mmapmap", "stackmap", "dma", "dmalow", "io"} \subseteq Modes
    BY DEF Modes, MapModes
  <2>2. mode' \in Modes
    BY <2>1
  <2>3. Stack \subseteq Virt
    BY DEF Virt, UserPages
  <2> QED
    BY <2>2, <2>3 DEF TypeOK
<1>2. LoopInv'
  BY DEF LoopInv
<1>3. IdentityInv' /\ RunnableIsWhole'
  BY StillWhole
<1>4. PagesHaveOneOwner'
  BY OwnersTake
<1>5. ListInv'
  BY DEF WholeInv, ListInv, LoadModes, FreeModes
<1>6. LoadInv'
  <2>1. Free' \subseteq Free
    BY DEF Free
  <2> QED
    BY <2>1 DEF WholeInv, LoadInv
<1> QED
  BY <1>1, <1>2, <1>3, <1>4, <1>5, <1>6 DEF WholeInv

LEMMA LoadImageIInv == IInv /\ LoadImage => IInv'
<1> SUFFICES ASSUME IInv, LoadImage PROVE IInv'
  OBVIOUS
<1>1. CASE AllocFails(1) /\ LoadFails
  <2>1. mode \in LoadModes
    BY DEF LoadImage, LoadModes
  <2> QED
    BY <1>1, <2>1, LoadFailsIInv DEF AllocFails
<1>2. CASE \E b \in Free :
             /\ AllocPage(b)
             /\ hold' = {b} /\ mode' = "imagemap"
             /\ UNCHANGED <<kernel, entry, nx, kstk, brk, procs, irq, pid, todo, ask>>
  <2>1. PICK b \in Free :
             /\ AllocPage(b)
             /\ hold' = {b} /\ mode' = "imagemap"
             /\ UNCHANGED <<kernel, entry, nx, kstk, brk, live, dead, nextPid, irq,
                            pid, todo, ask>>
    BY <1>2 DEF procs
  <2>2. {b} \subseteq Tracked /\ {b} \cap used = {} /\ used' = used \cup {b}
    BY <2>1, AllocPageEffect DEF IInv
  <2>3. mode = "image"
    BY DEF LoadImage
  <2> QED
    BY <2>1, <2>2, <2>3, TakeIInv
<1> QED
  BY <1>1, <1>2 DEF LoadImage

LEMMA LoadStackIInv == IInv /\ LoadStack => IInv'
<1> SUFFICES ASSUME IInv, LoadStack PROVE IInv'
  OBVIOUS
<1>1. CASE AllocFails(StackPages) /\ LoadFails
  <2>1. mode \in LoadModes
    BY DEF LoadStack, LoadModes
  <2> QED
    BY <1>1, <2>1, LoadFailsIInv DEF AllocFails
<1>2. CASE \E b \in Free :
             /\ AllocPages(StackPages, b)
             /\ hold' = Run(b, StackPages)
             /\ mode' = "stackmap" /\ todo' = Stack
             /\ UNCHANGED <<kernel, entry, nx, kstk, brk, procs, irq, pid, ask>>
  <2>1. PICK b \in Free :
             /\ AllocPages(StackPages, b)
             /\ hold' = Run(b, StackPages)
             /\ mode' = "stackmap" /\ todo' = Stack
             /\ UNCHANGED <<kernel, entry, nx, kstk, brk, live, dead, nextPid, irq,
                            pid, ask>>
    BY <1>2 DEF procs
  <2> DEFINE R == Run(b, StackPages)
  <2>2. /\ R \subseteq Tracked /\ R \cap used = {} /\ used' = used \cup R
        /\ hold' = R
    BY <2>1, AllocEffect, MemoryAssumption DEF IInv, MemoryAssumption
  <2>3. mode = "stack"
    BY DEF LoadStack
  <2> HIDE DEF R
  <2> QED
    BY <2>1, <2>2, <2>3, TakeIInv
<1> QED
  BY <1>1, <1>2 DEF LoadStack

\* The new process is whole: memory had not run out before the last step.
LEMMA LoadKStackIInv == IInv /\ LoadKStack => IInv'
<1> SUFFICES ASSUME IInv, LoadKStack PROVE IInv'
  OBVIOUS
<1> USE DEF IInv
<1>1. mode = "kstack" /\ mode \in LoadModes
  BY DEF LoadKStack, LoadModes
<1>2. CASE AllocFails(KStackPages) /\ LoadFails
  BY <1>1, <1>2, LoadFailsIInv DEF AllocFails
<1>3. CASE \E b \in Free :
             /\ AllocPages(KStackPages, b)
             /\ kstk' = [kstk EXCEPT ![pid] = b]
             /\ brk' = [brk EXCEPT ![pid] = HeapBase]
             /\ live' = live \cup {pid}
             /\ mode' = "user" /\ irq' = TRUE
             /\ UNCHANGED <<kernel, entry, nx, dead, nextPid, pid, todo, ask, hold>>
  <2>1. PICK b \in Free :
             /\ AllocPages(KStackPages, b)
             /\ kstk' = [kstk EXCEPT ![pid] = b]
             /\ brk' = [brk EXCEPT ![pid] = HeapBase]
             /\ live' = live \cup {pid}
             /\ mode' = "user" /\ irq' = TRUE
             /\ UNCHANGED <<kernel, entry, nx, dead, nextPid, pid, todo, ask, hold>>
    BY <1>3
  <2>2. /\ b \in Tracked
        /\ Run(b, KStackPages) \cap used = {}
        /\ used' = used \cup Run(b, KStackPages)
        /\ used' \subseteq Tracked
    BY <2>1, AllocEffect, MemoryAssumption DEF MemoryAssumption
  <2>3. TypeOK'
    BY <2>1, <2>2, MemoryAssumption DEF MemoryAssumption, TypeOK, Modes
  <2>4. LoopInv'
    BY <2>1 DEF LoopInv
  <2>5. IdentityInv'
    BY <2>1 DEF IdentityInv
  <2>6. PagesHaveOneOwner'
    BY <2>1, <2>2, OwnersKStack
  <2>7. ListInv'
    BY <1>1, <2>1 DEF WholeInv, ListInv, LoadModes, FreeModes
  <2>8. LoadInv'
    BY <2>1 DEF LoadInv
  <2>9. RunnableIsWhole'
    <3> SUFFICES ASSUME NEW p \in live'
                 PROVE  /\ kstk'[p] # Absent
                        /\ \A v \in Identity : entry[p][<<0, v>>] = v
                        /\ \A v \in Image \cup Stack : entry[p][<<0, v>>] # Absent
      BY <2>1 DEF RunnableIsWhole
    <3>1. CASE p = pid
      <4>1. kstk'[p] = b /\ b # Absent
        BY <2>1, <2>2, <3>1, MemoryAssumption
        DEF MemoryAssumption, TypeOK, Tracked, Absent
      <4>2. Free # {}
        BY <2>1
      <4> QED
        BY <1>1, <3>1, <4>1, <4>2 DEF WholeInv, LoadInv
    <3>2. CASE p # pid
      <4>1. p \in live /\ p \in Pid /\ kstk'[p] = kstk[p]
        BY <2>1, <3>2 DEF TypeOK
      <4> QED
        BY <4>1 DEF WholeInv, RunnableIsWhole
    <3> QED
      BY <3>1, <3>2
  <2> QED
    BY <2>3, <2>4, <2>5, <2>6, <2>7, <2>8, <2>9 DEF WholeInv
<1> QED
  BY <1>2, <1>3 DEF LoadKStack

LEMMA LoadIInv == IInv /\ Load => IInv'
BY KmAllocIInv, LoadPml4IInv, LoadMovesIInv, LoadImageIInv, LoadStackIInv,
   LoadKStackIInv DEF Load

-----------------------------------------------------------------------------
(* MMAP, FB_MAP and a disk transfer.                                       *)

LEMMA GrowIInv ==
  ASSUME IInv, NEW n \in Nat, NEW m,
         m = "mmap" \/ (m = "fbmap" /\ n = FbPages),
         Grow(n, m)
  PROVE  IInv'
<1> USE DEF IInv
<1>1. PICK p \in Current :
        Run(brk[p], n) \subseteq Heap /\ pid' = p /\ todo' = Run(brk[p], n)
  BY DEF Grow
<1>2. /\ mode = "user" /\ mode' = m /\ ask' = n
      /\ UNCHANGED <<used, kernel, entry, nx, kstk, brk, live, dead, nextPid, irq, hold>>
  BY DEF Grow, procs
<1>3. p \in live /\ p \in Pid
  BY DEF Current, TypeOK
<1>4. TypeOK'
  <2>1. {"mmap", "fbmap"} \subseteq Modes
    BY DEF Modes, MapModes
  <2>2. Heap \subseteq Virt
    BY DEF Virt, UserPages
  <2> QED
    BY <1>1, <1>2, <1>3, <2>1, <2>2 DEF TypeOK
<1>5. LoopInv'
  BY <1>1, <1>2, <1>3 DEF LoopInv
<1>6. IdentityInv' /\ RunnableIsWhole'
  BY <1>2, StillWhole
<1>7. PagesHaveOneOwner'
  BY <1>2, OwnersSame
<1>8. ListInv'
  BY <1>2 DEF WholeInv, ListInv, LoadModes, FreeModes
<1>9. LoadInv'
  BY <1>2 DEF LoadInv
<1> QED
  BY <1>4, <1>5, <1>6, <1>7, <1>8, <1>9 DEF WholeInv

LEMMA MmapFbMapIInv == IInv /\ (Mmap \/ FbMap) => IInv'
<1>1. IInv /\ Mmap => IInv'
  BY GrowIInv, MemoryAssumption DEF MemoryAssumption, Mmap
<1>2. IInv /\ FbMap => IInv'
  BY GrowIInv, MemoryAssumption DEF MemoryAssumption, FbMap
<1> QED
  BY <1>1, <1>2

\* Steps outside the loader that leave the pages, their owners and the lists
\* alone, and end in a mode about which the invariant says nothing or in mode
\* "mmap" again.
LEMMA QuietIInv ==
  ASSUME IInv,
         UNCHANGED <<used, kernel, entry, kstk, live, dead, nextPid, pid, hold>>,
         nx' \in [Pid -> SUBSET (Stack \cup NoExec)],
         irq' \in BOOLEAN, brk' \in [Pid -> Nat], ask' \in Nat,
         todo' \subseteq todo,
         \/ mode' \in {"user", "dma", "dmalow", "clean"}
         \/ mode = "mmap" /\ mode' = "mmap" /\ brk' = brk /\ ask' = ask
  PROVE  IInv'
<1> USE DEF IInv
<1>1. TypeOK'
  <2>1. {"user", "dma", "dmalow", "clean"} \subseteq Modes
    BY DEF Modes
  <2>2. mode' \in Modes
    BY <2>1 DEF TypeOK
  <2> QED
    BY <2>2 DEF TypeOK
<1>2. LoopInv'
  BY DEF LoopInv
<1>3. IdentityInv' /\ RunnableIsWhole'
  BY StillWhole
<1>4. PagesHaveOneOwner'
  BY OwnersSame
<1>5. ListInv'
  BY DEF WholeInv, ListInv, LoadModes, FreeModes
<1>6. LoadInv'
  BY DEF LoadInv
<1> QED
  BY <1>1, <1>2, <1>3, <1>4, <1>5, <1>6 DEF WholeInv

LEMMA MmapAllocIInv == IInv /\ MmapAlloc => IInv'
<1> SUFFICES ASSUME IInv, MmapAlloc PROVE IInv'
  OBVIOUS
<1>1. /\ mode = "mmap"
      /\ UNCHANGED <<kernel, entry, nx, kstk, brk, live, dead, nextPid, irq, pid, ask>>
  BY DEF MmapAlloc, procs
<1>2. CASE \E b \in Free : /\ AllocPage(b) /\ hold' = {b} /\ mode' = "mmapmap"
                           /\ todo' = todo
  <2>1. PICK b \in Free : /\ AllocPage(b) /\ hold' = {b} /\ mode' = "mmapmap"
                          /\ todo' = todo
    BY <1>2
  <2>2. {b} \subseteq Tracked /\ {b} \cap used = {} /\ used' = used \cup {b}
    BY <2>1, AllocPageEffect DEF IInv
  <2> QED
    BY <1>1, <2>1, <2>2, TakeIInv
<1>3. CASE used' = used /\ todo' = {} /\ hold' = hold /\ mode' = mode
  BY <1>1, <1>3, QuietIInv DEF IInv, TypeOK
<1> QED
  BY <1>2, <1>3 DEF MmapAlloc, AllocFails

LEMMA GrowReturnIInv == IInv /\ GrowReturn => IInv'
<1> SUFFICES ASSUME IInv, GrowReturn PROVE IInv'
  OBVIOUS
<1>1. brk' \in [Pid -> Nat]
  BY DEF IInv, TypeOK, GrowReturn
<1> QED
  BY <1>1, QuietIInv DEF IInv, TypeOK, GrowReturn, procs

LEMMA TransferBeginIInv == IInv /\ TransferBegin => IInv'
BY QuietIInv DEF IInv, TypeOK, TransferBegin, procs

LEMMA DmaAllocIInv == IInv /\ DmaAlloc => IInv'
<1> SUFFICES ASSUME IInv, DmaAlloc PROVE IInv'
  OBVIOUS
<1>1. /\ mode = "dma"
      /\ UNCHANGED <<kernel, entry, nx, kstk, brk, live, dead, nextPid, irq, pid,
                     todo, ask>>
  BY DEF DmaAlloc, procs
<1>2. CASE \E b \in Free : /\ AllocPage(b) /\ hold' = hold \cup {b}
                           /\ mode' \in {"dma", "dmalow"}
  <2>1. PICK b \in Free : /\ AllocPage(b) /\ hold' = hold \cup {b}
                          /\ mode' \in {"dma", "dmalow"}
    BY <1>2
  <2>2. {b} \subseteq Tracked /\ {b} \cap used = {} /\ used' = used \cup {b}
    BY <2>1, AllocPageEffect DEF IInv
  <2> QED
    BY <1>1, <2>1, <2>2, TakeIInv
<1>3. CASE mode' = "dmalow" /\ used' = used /\ hold' = hold
  BY <1>1, <1>3, QuietIInv DEF IInv, TypeOK
<1> QED
  BY <1>2, <1>3 DEF DmaAlloc

LEMMA DmaAnyIInv == IInv /\ DmaAny => IInv'
<1> SUFFICES ASSUME IInv, DmaAny PROVE IInv'
  OBVIOUS
<1>1. /\ mode = "dmaany"
      /\ UNCHANGED <<kernel, entry, nx, kstk, brk, live, dead, nextPid, irq, pid,
                     todo, ask>>
  BY DEF DmaAny, procs
<1>2. CASE \E b \in Free : AllocPage(b) /\ hold' = {b} /\ mode' = "io"
  <2>1. PICK b \in Free : AllocPage(b) /\ hold' = {b} /\ mode' = "io"
    BY <1>2
  <2>2. {b} \subseteq Tracked /\ {b} \cap used = {} /\ used' = used \cup {b}
    BY <2>1, AllocPageEffect DEF IInv
  <2> QED
    BY <1>1, <2>1, <2>2, TakeIInv
<1>3. CASE mode' = "user" /\ used' = used /\ hold' = hold
  BY <1>1, <1>3, QuietIInv DEF IInv, TypeOK
<1> QED
  BY <1>2, <1>3 DEF DmaAny, AllocFails

\* A local variable's pages are freed.
LEMMA ReleaseIInv ==
  ASSUME IInv, NEW S, S \subseteq hold, FreePages(S), hold' = hold \ S,
         UNCHANGED <<kernel, entry, nx, kstk, brk, live, dead, nextPid, irq, pid,
                     todo, ask>>,
         mode' \in {"user", "dmaany", "io"}
  PROVE  IInv'
<1> USE DEF IInv
<1>1. used' \subseteq used /\ used \ S \subseteq used'
  BY DEF FreePages
<1>2. TypeOK'
  <2>1. {"user", "dmaany", "io"} \subseteq Modes
    BY DEF Modes
  <2> QED
    BY <1>1, <2>1 DEF TypeOK
<1>3. LoopInv'
  BY DEF LoopInv
<1>4. IdentityInv' /\ RunnableIsWhole'
  BY StillWhole
<1>5. PagesHaveOneOwner'
  <2>1. \A p \in Pid : OwnSlots(p)' = OwnSlots(p) /\ KStack(p)' = KStack(p)
    BY DEF OwnSlots, KStack
  <2>2. /\ kernel \subseteq used' /\ hold' \subseteq used'
        /\ \A p \in Pid : KStack(p) \subseteq used'
        /\ \A p \in Pid : \A s \in OwnSlots(p) : entry[p][s] \in used'
    BY <1>1 DEF PagesHaveOneOwner
  <2>3. hold' \subseteq hold
    OBVIOUS
  <2> QED
    BY <2>1, <2>2, <2>3, OwnersShrink
<1>6. ListInv'
  BY DEF WholeInv, ListInv, LoadModes, FreeModes
<1>7. LoadInv'
  BY DEF LoadInv
<1> QED
  BY <1>2, <1>3, <1>4, <1>5, <1>6, <1>7 DEF WholeInv

LEMMA DmaFreeIInv == IInv /\ (DmaFreeLow \/ TransferEnd) => IInv'
<1>1. ASSUME IInv, DmaFreeLow PROVE IInv'
  <2>1. LowPages \subseteq hold
    BY DEF LowPages
  <2> QED
    BY <1>1, <2>1, ReleaseIInv DEF DmaFreeLow, procs
<1>2. ASSUME IInv, TransferEnd PROVE IInv'
  <2>1. hold' = hold \ hold
    BY <1>2 DEF TransferEnd
  <2> QED
    BY <1>2, <2>1, ReleaseIInv DEF TransferEnd, procs
<1> QED
  BY <1>1, <1>2

-----------------------------------------------------------------------------
(* The end of a process.                                                   *)

\* Ended moves processes from live to dead.
LEMMA EndedLists ==
  ASSUME IInv, Ended
  PROVE  /\ ListInv' /\ LoadInv' /\ LoopInv'
         /\ live' \subseteq live /\ live' \subseteq Pid /\ dead' \subseteq Pid
         /\ mode' \in {"user", "stopped"}
         /\ UNCHANGED <<used, kernel, brk, nextPid, irq, pid>>
<1>1. /\ live' = live \ Current /\ dead' = dead \cup Current
      /\ mode' \in {"user", "stopped"}
      /\ UNCHANGED <<used, kernel, brk, nextPid, irq, pid>>
  BY DEF Ended
<1>2. Current \subseteq live
  BY DEF Current
<1>3. live \subseteq Pid /\ dead \subseteq Pid
  BY DEF IInv, TypeOK
<1>4. ListInv'
  BY <1>1, <1>2 DEF IInv, WholeInv, ListInv, LoadModes, FreeModes
<1>5. LoadInv' /\ LoopInv'
  BY <1>1 DEF LoadInv, LoopInv
<1> QED
  BY <1>1, <1>2, <1>3, <1>4, <1>5

LEMMA EndIInv == IInv /\ End => IInv'
<1> SUFFICES ASSUME IInv, End PROVE IInv'
  OBVIOUS
<1> USE DEF IInv
<1>1. Ended /\ UNCHANGED <<entry, nx, kstk, todo, ask, hold>>
  BY DEF End
<1>2. TypeOK'
  BY <1>1, EndedLists DEF TypeOK, Modes
<1>3. IdentityInv'
  BY <1>1 DEF IdentityInv
<1>4. PagesHaveOneOwner'
  BY <1>1, EndedLists, OwnersSame
<1>5. RunnableIsWhole'
  BY <1>1, EndedLists, WholeKept DEF WholeInv, TypeOK
<1> QED
  BY <1>1, <1>2, <1>3, <1>4, <1>5, EndedLists DEF WholeInv

LEMMA CtrlCIInv == IInv /\ CtrlC => IInv'
<1> SUFFICES ASSUME IInv, CtrlC PROVE IInv'
  OBVIOUS
<1> USE DEF IInv
<1>1. Ended /\ todo' = {} /\ ask' = 0 /\ hold' = {}
  BY DEF CtrlC
<1>2. CASE entry' = entry /\ nx' = nx /\ kstk' = kstk
  <2>1. TypeOK'
    BY <1>1, <1>2, EndedLists DEF TypeOK, Modes
  <2>2. IdentityInv'
    BY <1>2 DEF IdentityInv
  <2>3. PagesHaveOneOwner'
    BY <1>1, <1>2, EndedLists, OwnersSame
  <2>4. RunnableIsWhole'
    BY <1>2, <1>1, EndedLists, WholeKept DEF WholeInv, TypeOK
  <2> QED
    BY <1>1, <2>1, <2>2, <2>3, <2>4, EndedLists DEF WholeInv
<1>3. CASE /\ mode \in FreeModes
           /\ entry' = [entry EXCEPT ![pid] = NoEntries] /\ SetNx({})
           /\ kstk' = [kstk EXCEPT ![pid] = Absent]
  <2>1. pid \in Pid /\ pid \notin live
    BY <1>3 DEF TypeOK, WholeInv, ListInv
  <2>2. /\ entry' \in [Pid -> [Slot -> Phys \cup {Absent}]]
        /\ \A t \in Slot : entry'[pid][t] = Absent
        /\ \A p \in Pid, t \in Slot : p # pid => entry'[p][t] = entry[p][t]
    BY <1>3, ClearEffect
  <2>3. /\ kstk' \in [Pid -> Tracked \cup {Absent}]
        /\ \A p \in Pid : p # pid => kstk'[p] = kstk[p]
        /\ nx' \in [Pid -> SUBSET (Stack \cup NoExec)]
    BY <1>3, SetNxEffect DEF TypeOK
  <2>4. TypeOK'
    BY <1>1, <2>2, <2>3, EndedLists DEF TypeOK, Modes
  <2>5. IdentityInv'
    <3>1. \A v \in Identity : <<0, v>> \in Slot
      BY SlotFacts DEF Virt
    <3>2. \A p \in Pid, v \in Identity :
            entry'[p][<<0, v>>] = Absent \/ entry'[p][<<0, v>>] = entry[p][<<0, v>>]
      BY <2>2, <3>1
    <3> QED
      BY <3>2 DEF IdentityInv
  <2>6. PagesHaveOneOwner'
    BY <1>1, <1>3, EndedLists, OwnersDrop
  <2>7. RunnableIsWhole'
    <3>1. live' \subseteq live /\ live \subseteq Pid
      BY <1>1, EndedLists DEF TypeOK
    <3>2. \A p \in live' : p \in Pid /\ p # pid
      BY <2>1, <3>1
    <3> QED
      BY <2>2, <2>3, <3>1, <3>2, SlotFacts, WholeKept DEF WholeInv
  <2> QED
    BY <1>1, <2>4, <2>5, <2>6, <2>7, EndedLists DEF WholeInv
<1> QED
  BY <1>2, <1>3 DEF CtrlC

LEMMA CleanIInv == IInv /\ (Clean \/ CleanNext \/ CleanDone) => IInv'
<1> SUFFICES ASSUME IInv, Clean \/ CleanNext \/ CleanDone PROVE IInv'
  OBVIOUS
<1>1. /\ UNCHANGED <<used, kernel, entry, kstk, brk, live, dead, nextPid, pid,
                     todo, ask, hold>>
      /\ mode' \in {"user", "clean"} /\ irq' \in BOOLEAN
  BY DEF Clean, CleanNext, CleanDone, procs, IInv, TypeOK
<1>2. nx' \in [Pid -> SUBSET (Stack \cup NoExec)]
  BY SetNxEffect DEF Clean, CleanNext, CleanDone, IInv, TypeOK
<1> QED
  BY <1>1, <1>2, QuietIInv DEF IInv, TypeOK

LEMMA CleanUnlinkIInv == IInv /\ CleanUnlink => IInv'
<1> SUFFICES ASSUME IInv, CleanUnlink PROVE IInv'
  OBVIOUS
<1> USE DEF IInv
<1>1. PICK p \in dead : dead' = dead \ {p} /\ pid' = p
  BY DEF CleanUnlink
<1>2. /\ mode' = "unlinked"
      /\ UNCHANGED <<used, kernel, entry, nx, kstk, brk, live, nextPid, irq, todo,
                     ask, hold>>
  BY DEF CleanUnlink
<1>3. TypeOK'
  <2>1. "unlinked" \in Modes
    BY DEF Modes, FreeModes
  <2> QED
    BY <1>1, <1>2, <2>1 DEF TypeOK
<1>4. LoopInv' /\ LoadInv'
  BY <1>2 DEF LoopInv, LoadInv
<1>5. IdentityInv' /\ RunnableIsWhole'
  BY <1>2, StillWhole
<1>6. PagesHaveOneOwner'
  BY <1>2, OwnersSame
<1>7. ListInv'
  BY <1>1, <1>2 DEF WholeInv, ListInv, LoadModes
<1> QED
  BY <1>3, <1>4, <1>5, <1>6, <1>7 DEF WholeInv

LEMMA CleanKStackIInv == IInv /\ CleanKStack => IInv'
<1> SUFFICES ASSUME IInv, CleanKStack PROVE IInv'
  OBVIOUS
<1> USE DEF IInv
<1>1. /\ mode = "unlinked" /\ mode' = "walk"
      /\ FreePages(KStack(pid))
      /\ kstk' = [kstk EXCEPT ![pid] = Absent]
      /\ UNCHANGED <<kernel, entry, nx, brk, live, dead, nextPid, irq, pid, todo,
                     ask, hold>>
  BY DEF CleanKStack, procs
<1>2. used' \subseteq used /\ used \ KStack(pid) \subseteq used'
  BY <1>1 DEF FreePages
<1>3. pid \in Pid /\ pid \notin live /\ pid \notin dead
  BY <1>1 DEF TypeOK, WholeInv, ListInv, FreeModes
<1>4. /\ kstk' \in [Pid -> Tracked \cup {Absent}] /\ kstk'[pid] = Absent
      /\ \A p \in Pid : p # pid => kstk'[p] = kstk[p]
  BY <1>1 DEF TypeOK
<1>5. TypeOK'
  <2>1. "walk" \in Modes
    BY DEF Modes, FreeModes
  <2> QED
    BY <1>1, <1>2, <1>4, <2>1 DEF TypeOK
<1>6. LoopInv' /\ LoadInv'
  BY <1>1 DEF LoopInv, LoadInv
<1>7. IdentityInv'
  BY <1>1 DEF IdentityInv
<1>8. PagesHaveOneOwner'
  <2>1. \A p \in Pid : KStack(p)' = IF p = pid THEN {} ELSE KStack(p)
    BY <1>3, <1>4 DEF KStack
  <2>2. \A p \in Pid : OwnSlots(p)' = OwnSlots(p)
    BY <1>1 DEF OwnSlots
  <2>3. \A p \in Pid : KStack(p)' \subseteq KStack(p)
    BY <2>1
  <2>4. kernel \subseteq used' /\ hold' \subseteq used'
    BY <1>1, <1>2, <1>3 DEF PagesHaveOneOwner
  <2>5. \A p \in Pid : KStack(p)' \subseteq used'
    BY <1>2, <1>3, <2>1 DEF PagesHaveOneOwner
  <2>6. \A p \in Pid : \A s \in OwnSlots(p) : entry[p][s] \in used'
    BY <1>2, <1>3 DEF PagesHaveOneOwner
  <2> QED
    BY <1>1, <2>2, <2>3, <2>4, <2>5, <2>6, OwnersShrink
<1>9. ListInv'
  BY <1>1, <1>3 DEF WholeInv, ListInv, LoadModes
<1>10. RunnableIsWhole'
  <2>1. live \subseteq Pid
    BY DEF TypeOK
  <2> QED
    BY <1>1, <1>3, <1>4, <2>1, WholeKept DEF WholeInv
<1> QED
  BY <1>5, <1>6, <1>7, <1>8, <1>9, <1>10 DEF WholeInv

\* What the walk frees is the page of one of the process's own entries: a page
\* of an identity mapping is at its own address, and is passed over.
LEMMA PsFreeAddressSpaceIInv == IInv /\ PsFreeAddressSpace => IInv'
<1> SUFFICES ASSUME IInv, PsFreeAddressSpace PROVE IInv'
  OBVIOUS
<1> USE DEF IInv
<1>1. PICK s \in Present : FreeSlot(s)
  BY DEF PsFreeAddressSpace
<1>2. /\ mode = "walk" /\ mode' = mode
      /\ UNCHANGED <<kernel, nx, kstk, brk, live, dead, nextPid, irq, pid, todo,
                     ask, hold>>
  BY DEF PsFreeAddressSpace, procs
<1>3. s \in Slot /\ SetEntry(s, Absent)
  BY <1>1 DEF Present, FreeSlot
<1> DEFINE e == entry[pid][s]
<1>4. used' = used \/ (Freeable(s) /\ used' \subseteq used /\ used \ {e} \subseteq used')
  BY <1>1 DEF FreeSlot, FreePages
<1>5. pid \in Pid /\ pid \notin live /\ pid \notin dead
  BY <1>2 DEF TypeOK, WholeInv, ListInv, FreeModes
<1>6. /\ entry' \in [Pid -> [Slot -> Phys \cup {Absent}]]
      /\ entry'[pid][s] = Absent
      /\ \A p \in Pid, t \in Slot :
           p # pid \/ t # s => entry'[p][t] = entry[p][t]
  BY <1>3, SetEntryEffect
<1>7. Absent \notin Tracked
  BY MemoryAssumption DEF MemoryAssumption, Absent, Tracked
<1>8. Freeable(s) => s \in OwnSlots(pid)
  <2> SUFFICES ASSUME Freeable(s), s[1] = 0, s[2] \in Identity
               PROVE  FALSE
    BY <1>3 DEF Freeable, OwnSlots
  <2>1. PICK l \in 0..4, v \in Virt : s = At(l, v)
    BY <1>3 DEF Slot
  <2>2. s = <<0, v>> /\ s[2] = v
    BY <2>1, MemoryAssumption DEF MemoryAssumption, At
  <2>3. e \in {Absent, v}
    BY <1>5, <2>2 DEF IdentityInv
  <2> QED
    BY <1>7, <2>2, <2>3 DEF Freeable
<1>9. TypeOK'
  BY <1>2, <1>4, <1>6 DEF TypeOK
<1>10. LoopInv' /\ LoadInv'
  BY <1>2 DEF LoopInv, LoadInv
<1>11. IdentityInv'
  <2>1. \A v \in Identity : <<0, v>> \in Slot
    BY SlotFacts DEF Virt
  <2>2. \A p \in Pid, v \in Identity :
          entry'[p][<<0, v>>] = Absent \/ entry'[p][<<0, v>>] = entry[p][<<0, v>>]
    BY <1>6, <2>1
  <2> QED
    BY <2>2 DEF IdentityInv
<1>12. PagesHaveOneOwner'
  <2>1. \A p \in Pid : KStack(p)' = KStack(p)
    BY <1>2 DEF KStack
  <2>2. \A p \in Pid : \A t \in OwnSlots(p)' :
          /\ t \in OwnSlots(p) /\ entry'[p][t] = entry[p][t]
          /\ p # pid \/ t # s
    BY <1>6, <1>7 DEF OwnSlots
  <2>3. Freeable(s) =>
          /\ e \in used /\ e \notin kernel /\ e \notin hold
          /\ \A p \in Pid : e \notin KStack(p)
          /\ \A p \in Pid : \A t \in OwnSlots(p) :
               p # pid \/ t # s => entry[p][t] # e
    BY <1>5, <1>8 DEF PagesHaveOneOwner
  <2>4. /\ kernel \subseteq used /\ hold \subseteq used
        /\ \A p \in Pid : KStack(p) \subseteq used
        /\ \A p \in Pid : \A t \in OwnSlots(p) : entry[p][t] \in used
    BY DEF PagesHaveOneOwner
  <2> HIDE DEF e
  <2>5. /\ kernel \subseteq used' /\ hold \subseteq used'
        /\ \A p \in Pid : KStack(p) \subseteq used'
    BY <1>4, <2>3, <2>4
  <2>6. \A p \in Pid : \A t \in OwnSlots(p)' : entry[p][t] \in used'
    BY <1>4, <2>2, <2>3, <2>4
  <2> QED
    BY <1>2, <2>1, <2>2, <2>5, <2>6, OwnersShrink
<1>13. ListInv'
  BY <1>2 DEF WholeInv, ListInv
<1>14. RunnableIsWhole'
  <2>1. live \subseteq Pid
    BY DEF TypeOK
  <2> QED
    BY <1>2, <1>5, <1>6, <2>1, SlotFacts, WholeKept DEF WholeInv
<1> QED
  BY <1>9, <1>10, <1>11, <1>12, <1>13, <1>14 DEF WholeInv

-----------------------------------------------------------------------------
LEMMA NextIInv == IInv /\ [Next]_vars => IInv'
<1> SUFFICES ASSUME IInv, [Next]_vars PROVE IInv'
  OBVIOUS
<1>1. CASE UNCHANGED vars
  <2>1. /\ UNCHANGED <<used, kernel, entry, nx, kstk, brk, live, dead, nextPid,
                       mode, irq, pid, todo, ask, hold>>
    BY <1>1 DEF vars, procs
  <2> QED
    BY <2>1 DEF IInv, TypeOK, LoopInv, IdentityInv, PagesHaveOneOwner, WholeInv,
                ListInv, LoadInv, RunnableIsWhole, OwnSlots, KStack, Free
<1>2. CASE VmmMapPage \/ Exec \/ Load
  BY <1>2, VmmMapPageIInv, ExecIInv, LoadIInv
<1>3. CASE Mmap \/ FbMap \/ MmapAlloc \/ GrowReturn
  BY <1>3, MmapFbMapIInv, MmapAllocIInv, GrowReturnIInv
<1>4. CASE TransferBegin \/ DmaAlloc \/ DmaFreeLow \/ DmaAny \/ TransferEnd
  BY <1>4, TransferBeginIInv, DmaAllocIInv, DmaFreeIInv, DmaAnyIInv
<1>5. CASE End \/ CtrlC
  BY <1>5, EndIInv, CtrlCIInv
<1>6. CASE \/ Clean \/ CleanUnlink \/ CleanKStack \/ PsFreeAddressSpace
           \/ CleanNext \/ CleanDone
  BY <1>6, CleanIInv, CleanUnlinkIInv, CleanKStackIInv, PsFreeAddressSpaceIInv
<1> QED
  BY <1>1, <1>2, <1>3, <1>4, <1>5, <1>6 DEF Next

LEMMA IInvHolds == Spec => []IInv
BY InitIInv, NextIInv, PTL DEF Spec

\* Type correctness: in particular the walk over a process's page tables and
\* the loops of the loader stay within the address space they started with.
THEOREM MemoryTypeCorrect == Spec => []TypeOK
<1>1. IInv => TypeOK
  BY DEF IInv
<1> QED
  BY <1>1, IInvHolds, PTL

\* Whatever the size of memory, the layout of address spaces and the place
\* where Ctrl+C hits: a page the kernel keeps, a page a local variable holds,
\* a kernel stack, a page table and a page of user memory are never the same
\* page and never free, so clean-up frees no page twice and none that a
\* running process uses.
THEOREM OneOwner == Spec => []PagesHaveOneOwner
<1>1. IInv => PagesHaveOneOwner
  BY DEF IInv
<1> QED
  BY <1>1, IInvHolds, PTL

\* A listed process that has not ended has its identity mappings, image, stack
\* and kernel stack, although VmmMapPage reports no failure to the loader.
THEOREM RunnableWhole == Spec => []RunnableIsWhole
<1>1. IInv => RunnableIsWhole
  BY DEF IInv, WholeInv
<1> QED
  BY <1>1, IInvHolds, PTL

-----------------------------------------------------------------------------
(* Where pages are lost.  A step loses none if it takes no page from its owner but
   one it frees, and gives every page it allocates an owner. *)

\* A local variable holds pages only between their allocation and their use.
Loose == {"imagemap", "stackmap", "mmapmap", "dma", "dmalow", "io"}
HoldInv ==
  /\ mode \notin Loose => hold = {}
  /\ mode \in {"imagemap", "mmapmap"} => \E b \in Tracked : hold = {b}
  /\ mode = "stackmap" => Cardinality(hold) = Cardinality(todo)

\* What a process has yet to be given it does not have: nothing is mapped over.
Empty(S) == \A v \in S : entry[pid][<<0, v>>] = Absent
NoTables == \A s \in Slot : entry[pid][s] = Absent
Unborn(p) == kstk[p] = Absent /\ \A s \in Slot : entry[p][s] = Absent
FreshInv ==
  /\ \A p \in Pid : p >= nextPid => Unborn(p)
  /\ mode \in LoadModes => kstk[pid] = Absent
  /\ mode \in {"file", "process", "pml4"} => NoTables
  /\ mode = "identity" => Empty(Image \cup Stack)
  /\ mode \in {"image", "imagemap"} => Empty(todo \cup Stack)
  /\ mode \in {"thread", "stack"} => Empty(Stack)
  /\ mode = "stackmap" => Empty(todo)

LossInv == Boot \subseteq kernel /\ HoldInv /\ FreshInv

LEMMA LossInvInit == Init => LossInv
<1> SUFFICES ASSUME Init PROVE LossInv
  OBVIOUS
<1>1. \A p \in Pid : Unborn(p)
  BY DEF Init, NoEntries, Unborn
<1>2. pid \in Pid
  BY InitIInv DEF IInv, TypeOK
<1> QED
  BY <1>1, <1>2 DEF Init, LossInv, HoldInv, FreshInv, Loose, Unborn, NoTables

\* Who owns a page, and who comes to own it.
LEMMA OwnedFacts ==
  \A x \in Owned : \/ x \in kernel \/ x \in hold
                   \/ \E p \in Pid : x \in KStack(p)
                   \/ \E p \in Pid : \E s \in OwnSlots(p) : entry[p][s] = x
<1>1. \A x \in KStacks : \E p \in Pid : x \in KStack(p)
  BY DEF KStacks
<1>2. \A x \in OwnPages : \E p \in Pid : \E s \in OwnSlots(p) : entry[p][s] = x
  BY DEF OwnPages
<1> QED
  BY <1>1, <1>2 DEF Owned

LEMMA OwnedFactsNext ==
  /\ kernel' \subseteq Owned' /\ hold' \subseteq Owned'
  /\ \A p \in Pid : KStack(p)' \subseteq Owned'
  /\ \A p \in Pid : \A s \in OwnSlots(p)' : entry'[p][s] \in Owned'
<1>1. \A p \in Pid : KStack(p)' \subseteq KStacks'
  BY DEF KStacks
<1>2. \A p \in Pid : \A s \in OwnSlots(p)' : entry'[p][s] \in OwnPages'
  BY DEF OwnPages
<1> QED
  BY <1>1, <1>2 DEF Owned

\* The pages R are allocated and get an owner, and a page keeps its owner or is
\* freed.
LEMMA NoLoss ==
  ASSUME NEW R, used' \subseteq used \cup R, R \subseteq Owned',
         kernel \subseteq kernel',
         \A x \in hold \cap used' : x \in Owned',
         \A p \in Pid : \A x \in KStack(p) \cap used' : x \in Owned',
         \A p \in Pid : \A s \in OwnSlots(p) :
           entry[p][s] \in used' => entry[p][s] \in Owned'
  PROVE  Lost' \subseteq Lost
<1> SUFFICES ASSUME NEW x, x \in used', x \notin Owned' PROVE x \in Lost
  BY DEF Lost
<1>1. x \notin kernel /\ x \notin hold
  BY OwnedFactsNext
<1>2. \A p \in Pid : x \notin KStack(p)
  OBVIOUS
<1>3. \A p \in Pid : \A s \in OwnSlots(p) : entry[p][s] # x
  OBVIOUS
<1>4. x \notin Owned
  BY <1>1, <1>2, <1>3, OwnedFacts
<1> QED
  BY <1>4 DEF Lost

\* Nothing changes hands.
LEMMA NoLossQuiet ==
  ASSUME used' \subseteq used, entry' = entry, kstk' = kstk, hold \subseteq hold', kernel' = kernel
  PROVE  Lost' \subseteq Lost
<1>1. \A p \in Pid : OwnSlots(p)' = OwnSlots(p) /\ KStack(p)' = KStack(p)
  BY DEF OwnSlots, KStack
<1> QED
  BY <1>1, OwnedFactsNext, NoLoss

\* Pages are allocated for the kernel or a local variable.
LEMMA NoLossTake ==
  ASSUME NEW R, used' = used \cup R, entry' = entry, kstk' = kstk,
         kernel \subseteq kernel', hold \subseteq hold',
         R \subseteq kernel' \/ R \subseteq hold'
  PROVE  Lost' \subseteq Lost
<1>1. \A p \in Pid : OwnSlots(p)' = OwnSlots(p) /\ KStack(p)' = KStack(p)
  BY DEF OwnSlots, KStack
<1> QED
  BY <1>1, OwnedFactsNext, NoLoss

\* A page that was held or free comes into an entry that named none of its own.
LEMMA NoLossEntry ==
  ASSUME TypeOK, NEW s \in Slot, NEW b \in Phys \cup {Absent}, SetEntry(s, b),
         s \notin OwnSlots(pid),
         NEW R, R \subseteq {b}, used' = used \cup R,
         kernel' = kernel, kstk' = kstk, pid' = pid, hold \subseteq hold' \cup {b},
         b \in R \cup hold => b \in Tracked /\ (s[1] = 0 => s[2] \notin Identity)
  PROVE  Lost' \subseteq Lost
<1>1. /\ entry'[pid][s] = b
      /\ \A p \in Pid, t \in Slot :
           p # pid \/ t # s => entry'[p][t] = entry[p][t]
  BY SetEntryEffect
<1>2. pid \in Pid /\ \A p \in Pid : KStack(p)' = KStack(p)
  BY DEF KStack, TypeOK
<1>3. \A p \in Pid : \A t \in OwnSlots(p) :
        t \in OwnSlots(p)' /\ entry'[p][t] = entry[p][t]
  BY <1>1 DEF OwnSlots
<1>4. b \in R \cup hold => s \in OwnSlots(pid)'
  <2>1. entry'[pid][s] = b
    BY <1>1
  <2> QED
    BY <2>1 DEF OwnSlots
<1>5. b \in R \cup hold => b \in Owned'
  BY <1>1, <1>2, <1>4, OwnedFactsNext
<1>6. \A x \in hold : x \in Owned'
  BY <1>5, OwnedFactsNext
<1>7. \A p \in Pid : \A x \in KStack(p) : x \in Owned'
  BY <1>2, OwnedFactsNext
<1>8. \A p \in Pid : \A t \in OwnSlots(p) : entry[p][t] \in Owned'
  BY <1>3, OwnedFactsNext
<1>9. R \subseteq Owned'
  BY <1>5
<1> QED
  BY <1>6, <1>7, <1>8, <1>9, NoLoss

\* The kernel stack of a process that had none.
LEMMA NoLossKStack ==
  ASSUME TypeOK, NEW b \in Tracked, used' = used \cup Run(b, KStackPages),
         kstk[pid] = Absent, kstk' = [kstk EXCEPT ![pid] = b],
         kernel' = kernel, hold' = hold, entry' = entry, pid' = pid
  PROVE  Lost' \subseteq Lost
<1>1. \A p \in Pid : OwnSlots(p)' = OwnSlots(p)
  BY DEF OwnSlots
<1>2. pid \in Pid /\ b # Absent
  BY MemoryAssumption DEF TypeOK, MemoryAssumption, Absent, Tracked
<1>3. KStack(pid)' = Run(b, KStackPages) /\ KStack(pid) = {}
  <2>1. kstk'[pid] = b
    BY <1>2 DEF TypeOK
  <2> QED
    BY <1>2, <2>1 DEF KStack
<1>4. \A p \in Pid : p # pid => KStack(p)' = KStack(p)
  BY DEF KStack, TypeOK
<1>5. \A p \in Pid : KStack(p) \subseteq KStack(p)'
  BY <1>3, <1>4
<1> DEFINE R == Run(b, KStackPages)
<1>6. used' = used \cup R /\ R = KStack(pid)'
  BY <1>3
<1> HIDE DEF R
<1>7. R \subseteq Owned'
  BY <1>2, <1>6, OwnedFactsNext
<1>8. /\ \A x \in hold : x \in Owned'
      /\ \A p \in Pid : \A x \in KStack(p) : x \in Owned'
  BY <1>5, OwnedFactsNext
<1>9. \A p \in Pid : \A s \in OwnSlots(p) : entry[p][s] \in Owned'
  BY <1>1, OwnedFactsNext
<1> QED
  BY <1>6, <1>7, <1>8, <1>9, NoLoss

\* What an owner gives up is freed, or pinned, and then the kernel's.
LEMMA Freed ==
  ASSUME LossInv, NEW S, FreePages(S)
  PROVE  used' \subseteq used /\ \A x \in S \cap used' : x \in kernel
BY MemoryAssumption DEF MemoryAssumption, LossInv, FreePages

LEMMA NoLossRelease ==
  ASSUME LossInv, NEW S, FreePages(S), hold' = hold \ S,
         UNCHANGED <<kernel, entry, kstk>>
  PROVE  Lost' \subseteq Lost
<1>1. \A p \in Pid : OwnSlots(p)' = OwnSlots(p) /\ KStack(p)' = KStack(p)
  BY DEF OwnSlots, KStack
<1>2. used' \subseteq used /\ \A x \in hold \cap used' : x \in kernel' \cup hold'
  BY Freed
<1>3. used' \subseteq used \cup {} /\ {} \subseteq Owned'
  BY <1>2
<1> QED
  BY <1>1, <1>2, <1>3, OwnedFactsNext, NoLoss
-----------------------------------------------------------------------------
LossStep == LossInv' /\ (Lost' \subseteq Lost \/ MayLose)

\* A process the kernel works for has been born.
LEMMA PidIsBorn ==
  ASSUME IInv, mode \in LoadModes \cup MapModes
  PROVE  pid < nextPid
<1>1. CASE mode \in LoadModes
  BY <1>1 DEF IInv, WholeInv, ListInv
<1>2. CASE mode \in {"mmapmap", "fbmap"}
  BY <1>2 DEF IInv, WholeInv, ListInv, LoopInv
<1>3. MapModes \subseteq LoadModes \cup {"mmapmap", "fbmap"}
  BY DEF MapModes, LoadModes
<1> QED
  BY <1>1, <1>2, <1>3

LEMMA UnbornKept ==
  ASSUME FreshInv, nextPid' = nextPid,
         \A p \in Pid : p >= nextPid => p # pid,
         \A p \in Pid : p # pid => kstk'[p] = kstk[p],
         \A p \in Pid : p # pid => \A s \in Slot : entry'[p][s] = entry[p][s]
  PROVE  \A p \in Pid : p >= nextPid' => Unborn(p)'
BY DEF FreshInv, Unborn

LEMMA FreshKept ==
  ASSUME FreshInv, UNCHANGED <<entry, kstk, nextPid>>, mode' \notin LoadModes
  PROVE  FreshInv'
<1>1. \A p \in Pid : p >= nextPid' => Unborn(p)'
  BY DEF FreshInv, Unborn
<1>2. mode' \notin {"file", "process", "pml4", "identity", "image", "imagemap",
                    "thread", "stack", "stackmap"}
  BY DEF LoadModes
<1> QED
  BY <1>1, <1>2 DEF FreshInv

\* Steps outside the loader that change no owner.
LEMMA QuietLoss ==
  ASSUME IInv, LossInv, UNCHANGED <<used, kernel, entry, kstk, nextPid, hold>>,
         mode \notin Loose, mode' \notin LoadModes \cup {"mmapmap"}
  PROVE  LossStep
<1>1. hold = {}
  BY DEF LossInv, HoldInv
<1>2. FreshInv'
  BY FreshKept DEF LossInv
<1>3. HoldInv'
  BY <1>1 DEF HoldInv, LoadModes
<1> QED
  BY <1>2, <1>3, NoLossQuiet DEF LossStep, LossInv
-----------------------------------------------------------------------------
(* VmmMapPage.                                                             *)

LEMMA NextLevelLoss ==
  ASSUME IInv, LossInv, mode \in MapModes, NEW v \in todo, NextLevel(v),
         UNCHANGED <<kernel, kstk, brk, procs, irq, pid, ask>>
  PROVE  LossStep
<1>1. PICK l \in Missing(v), b \in Free :
        /\ AllocPage(b) /\ SetEntry(At(l, v), b)
        /\ UNCHANGED <<nx, todo, hold, mode>>
  BY DEF NextLevel
<1> DEFINE s == At(l, v)
<1>2. /\ v \in Virt /\ l \in 1..3 /\ pid \in Pid
      /\ entry[pid][s] = Absent
  BY DEF IInv, TypeOK, Missing
<1>3. s \in Slot /\ s[1] # 0
  BY <1>2, SlotFacts DEF At
<1>4. SetEntry(s, b)
  BY <1>1
<1> HIDE DEF s
<1>5. /\ b \in Tracked /\ b \in Phys /\ b \notin used /\ used' = used \cup {b}
  BY <1>1, AllocPageEffect DEF IInv
<1>6. \A p \in Pid, t \in Slot :
        p # pid \/ t # s => entry'[p][t] = entry[p][t]
  BY <1>3, <1>4, <1>5, SetEntryEffect DEF IInv
<1>7. Absent \notin Tracked
  BY MemoryAssumption DEF MemoryAssumption, Absent, Tracked
<1>8. s \notin OwnSlots(pid)
  BY <1>2, <1>7 DEF OwnSlots
<1>9. Lost' \subseteq Lost
  BY <1>1, <1>3, <1>4, <1>5, <1>8, NoLossEntry DEF IInv
<1>10. HoldInv'
  BY <1>1 DEF LossInv, HoldInv
<1>11. \A w \in Virt : entry'[pid][<<0, w>>] = entry[pid][<<0, w>>]
  <2>1. \A w : <<0, w>> # s
    BY <1>3
  <2> QED
    BY <1>2, <1>6, <2>1, SlotFacts
<1>12. \A S \in SUBSET Virt : Empty(S) => Empty(S)'
  BY <1>11 DEF Empty
<1>13. pid < nextPid
  BY PidIsBorn
<1>14. nextPid \in Nat /\ \A p \in Pid : p >= nextPid => p # pid
  BY <1>2, <1>13, MemoryAssumption DEF IInv, TypeOK, Pid, MemoryAssumption
<1>15. \A p \in Pid : p >= nextPid' => Unborn(p)'
  BY <1>6, <1>14, UnbornKept DEF LossInv, procs
<1>16. mode \notin {"file", "process", "pml4"}
  BY DEF MapModes
<1>17. todo \subseteq Virt /\ Image \subseteq Virt /\ Stack \subseteq Virt
  BY DEF IInv, TypeOK, Virt, UserPages
<1>18. FreshInv'
  BY <1>1, <1>12, <1>15, <1>16, <1>17 DEF LossInv, FreshInv
<1> QED
  BY <1>9, <1>10, <1>18 DEF LossStep, LossInv
\* A page that was held is mapped; a page is mapped over only as MayLose says.
LEMMA PutPageLost ==
  ASSUME IInv, LossInv, mode \in MapModes, NEW v \in Least(todo),
         NEW page \in PageFor(v), PutPage(v, page),
         UNCHANGED <<kernel, kstk, brk, procs, irq, pid, ask>>
  PROVE  Lost' \subseteq Lost \/ MayLose
<1>1. CASE Missing(v) # {}
  BY <1>1 DEF PutPage, MayLose
<1>2. CASE mode \in {"mmapmap", "fbmap"} /\ entry[pid][<<0, v>>] # Absent
  BY <1>2 DEF MayLose
<1>3. CASE /\ Missing(v) = {}
           /\ mode \notin {"mmapmap", "fbmap"} \/ entry[pid][<<0, v>>] = Absent
  <2>1. v \in todo /\ v \in Virt /\ <<0, v>> \in Slot /\ pid \in Pid
    BY SlotFacts DEF IInv, TypeOK, Least
  <2>2. hold' = hold \ {page} /\ used' = used /\ SetEntry(<<0, v>>, page)
    BY <1>3 DEF PutPage
  <2>3. /\ mode \in {"identity", "fbmap"} => hold = {}
        /\ mode \notin {"identity", "fbmap"} => page \in hold
        /\ mode = "identity" => v \in Identity
        /\ mode # "identity" => v \in UserPages
        /\ mode = "identity" => page = v
        /\ mode = "fbmap" => page = FbBase + (v - brk[pid])
    BY <2>1 DEF LossInv, HoldInv, Loose, PageFor, Least, IInv, LoopInv, MapModes, UserPages
  <2>4. mode # "identity" => v \notin Identity
    BY <2>3, MemoryAssumption DEF MemoryAssumption
  <2>5. page \in Phys
    <3>1. CASE mode = "identity"
      BY <2>3, <3>1 DEF Phys
    <3>2. CASE mode = "fbmap"
      <4>1. v \in Run(brk[pid], FbPages) /\ brk[pid] \in Nat
        BY <2>1, <3>2 DEF IInv, LoopInv, TypeOK
      <4> QED
        BY <2>3, <3>2, <4>1, MemoryAssumption DEF MemoryAssumption, Phys, Fb, Run
    <3>3. CASE mode \notin {"identity", "fbmap"}
      BY <2>3, <3>3 DEF Phys, IInv, TypeOK
    <3> QED
      BY <3>1, <3>2, <3>3
  <2>6. Absent \notin Tracked
    BY MemoryAssumption DEF MemoryAssumption, Absent, Tracked
  <2>7. mode \in {"imagemap", "stackmap"} => entry[pid][<<0, v>>] = Absent
    BY <2>1 DEF LossInv, FreshInv, Empty
  <2>8. <<0, v>>[1] = 0 /\ <<0, v>>[2] = v
    OBVIOUS
  <2>9. <<0, v>> \notin OwnSlots(pid)
    BY <1>3, <2>3, <2>6, <2>7, <2>8 DEF OwnSlots, MapModes
  <2>10. page \in hold => page \in Tracked /\ v \notin Identity
    BY <2>3, <2>4 DEF IInv, TypeOK
  <2> DEFINE s == <<0, v>>
             R == {}
  <2>11. /\ s \in Slot /\ SetEntry(s, page) /\ s \notin OwnSlots(pid)
         /\ R \subseteq {page} /\ used' = used \cup R
         /\ hold \subseteq hold' \cup {page}
         /\ page \in R \cup hold =>
              page \in Tracked /\ (s[1] = 0 => s[2] \notin Identity)
    BY <2>1, <2>2, <2>8, <2>9, <2>10
  <2> HIDE DEF s, R
  <2>12. TypeOK /\ page \in Phys \cup {Absent}
    BY <2>5 DEF IInv
  <2>13. Lost' \subseteq Lost
    BY <2>11, <2>12, NoLossEntry
  <2> QED
    BY <2>13
<1> QED
  BY <1>1, <1>2, <1>3

LEMMA PutPageHold ==
  ASSUME IInv, LossInv, mode \in MapModes, NEW v \in Least(todo),
         NEW page \in PageFor(v), PutPage(v, page),
         UNCHANGED <<kernel, kstk, brk, procs, irq, pid, ask>>
  PROVE  HoldInv'
<1>1. v \in todo /\ todo' = todo \ {v} /\ hold' = hold \ {page} /\ mode' = AfterMap
  BY DEF PutPage, Least
<1>2. CASE mode \in {"identity", "fbmap"}
  BY <1>1, <1>2 DEF LossInv, HoldInv, Loose, AfterMap
<1>3. CASE mode \in {"imagemap", "mmapmap"}
  BY <1>1, <1>3 DEF LossInv, HoldInv, Loose, AfterMap, PageFor, Least
<1>4. CASE mode = "stackmap"
  <2>1. page \in hold /\ hold \subseteq Tracked /\ todo \subseteq Stack
    BY <1>4 DEF PageFor, Least, IInv, TypeOK, LoopInv
  <2>2. IsFiniteSet(hold) /\ IsFiniteSet(todo)
    <3>1. IsFiniteSet(Tracked)
      BY TrackedFinite
    <3>2. IsFiniteSet(Stack)
      BY MemoryAssumption DEF MemoryAssumption
    <3> QED
      BY <2>1, <3>1, <3>2, FS_Subset
  <2>3. Cardinality(hold) = Cardinality(todo)
    BY <1>4 DEF LossInv, HoldInv
  <2>4. Cardinality(hold') = Cardinality(hold) - 1
    BY <1>1, <2>1, <2>2, FS_RemoveElement
  <2>5. Cardinality(todo') = Cardinality(todo) - 1
    BY <1>1, <2>2, FS_RemoveElement
  <2>6. mode' = "stackmap"
    BY <1>1, <1>4 DEF AfterMap
  <2> QED
    BY <2>3, <2>4, <2>5, <2>6 DEF HoldInv, Loose
<1> QED
  BY <1>2, <1>3, <1>4 DEF MapModes

LEMMA PutPageFresh ==
  ASSUME IInv, LossInv, mode \in MapModes, NEW v \in Least(todo),
         NEW page \in PageFor(v), PutPage(v, page),
         UNCHANGED <<kernel, kstk, brk, procs, irq, pid, ask>>
  PROVE  FreshInv'
<1>1. v \in todo /\ todo' = todo \ {v} /\ mode' = AfterMap /\ pid \in Pid
  BY DEF PutPage, Least, IInv, TypeOK
<1>2. \A p \in Pid, t \in Slot :
        p # pid \/ t # <<0, v>> => entry'[p][t] = entry[p][t]
  BY DEF PutPage, SetEntry, IInv, TypeOK
<1>3. \A w \in Virt \ {v} : entry'[pid][<<0, w>>] = entry[pid][<<0, w>>]
  BY <1>1, <1>2, SlotFacts
<1>4. \A S \in SUBSET (Virt \ {v}) : Empty(S) => Empty(S)'
  BY <1>3 DEF Empty
<1>5. pid < nextPid
  BY PidIsBorn
<1>6. nextPid \in Nat /\ \A p \in Pid : p >= nextPid => p # pid
  BY <1>1, <1>5, MemoryAssumption DEF IInv, TypeOK, Pid, MemoryAssumption
<1>7. \A p \in Pid : p >= nextPid' => Unborn(p)'
  BY <1>2, <1>6, UnbornKept DEF LossInv, procs
<1>8. todo \subseteq Virt /\ Image \cup Stack \subseteq Virt
  BY DEF IInv, TypeOK, Virt, UserPages
<1>9. CASE mode = "identity"
  <2>1. v \notin Image \cup Stack
    BY <1>1, <1>9, MemoryAssumption DEF IInv, LoopInv, MemoryAssumption, UserPages
  <2>2. Empty(Image \cup Stack)'
    BY <1>4, <1>8, <1>9, <2>1 DEF LossInv, FreshInv
  <2> QED
    BY <1>1, <1>7, <1>9, <2>2 DEF LossInv, FreshInv, AfterMap, LoadModes
<1>10. CASE mode = "imagemap"
  <2>1. v \notin Stack
    BY <1>1, <1>10, MemoryAssumption DEF IInv, LoopInv, MemoryAssumption
  <2>2. Empty(todo \cup Stack)
    BY <1>10 DEF LossInv, FreshInv
  <2>3. Empty(todo' \cup Stack)
    BY <1>1, <2>2 DEF Empty
  <2>4. Empty(todo \cup Stack)'
    BY <1>1, <1>3, <1>8, <2>1, <2>3 DEF Empty
  <2> QED
    BY <1>1, <1>7, <1>10, <2>4 DEF LossInv, FreshInv, AfterMap, LoadModes
<1>11. CASE mode = "stackmap"
  <2>1. Empty(todo)'
    BY <1>1, <1>3, <1>8, <1>11 DEF LossInv, FreshInv, Empty
  <2> QED
    BY <1>1, <1>7, <1>11, <2>1 DEF LossInv, FreshInv, AfterMap, LoadModes
<1>12. CASE mode \in {"mmapmap", "fbmap"}
  BY <1>1, <1>7, <1>12 DEF FreshInv, AfterMap, LoadModes
<1> QED
  BY <1>9, <1>10, <1>11, <1>12 DEF MapModes

LEMMA VmmMapPageLoss == IInv /\ LossInv /\ VmmMapPage => LossStep
<1> SUFFICES ASSUME IInv, LossInv, VmmMapPage PROVE LossStep
  OBVIOUS
<1>1. PICK v \in Least(todo) :
        NextLevel(v) \/ \E page \in PageFor(v) : PutPage(v, page)
  BY DEF VmmMapPage
<1>2. mode \in MapModes /\ v \in todo
      /\ UNCHANGED <<kernel, kstk, brk, procs, irq, pid, ask>>
  BY DEF VmmMapPage, Least
<1>3. CASE NextLevel(v)
  BY <1>2, <1>3, NextLevelLoss
<1>4. CASE \E page \in PageFor(v) : PutPage(v, page)
  BY <1>2, <1>4, PutPageLost, PutPageHold, PutPageFresh DEF LossStep, LossInv
<1> QED
  BY <1>1, <1>3, <1>4
-----------------------------------------------------------------------------
(* EXEC.                                                                   *)

\* The next process has no page table and no kernel stack yet.
LEMMA ExecLoss == IInv /\ LossInv /\ Exec => LossStep
<1> SUFFICES ASSUME IInv, LossInv, Exec PROVE LossStep
  OBVIOUS
<1>1. /\ mode = "user" /\ mode' = "file" /\ pid' = nextPid /\ nextPid' = nextPid + 1
      /\ nextPid <= MaxPid
      /\ UNCHANGED <<used, kernel, entry, kstk, hold>>
  BY DEF Exec
<1>2. nextPid \in Pid /\ nextPid \in Nat /\ Pid \subseteq Nat
  BY <1>1, MemoryAssumption DEF MemoryAssumption, IInv, TypeOK, Pid
<1>3. \A p \in Pid : p >= nextPid =>
        kstk[p] = Absent /\ \A s \in Slot : entry[p][s] = Absent
  BY DEF LossInv, FreshInv, Unborn
<1>4. \A p \in Pid : p >= nextPid =>
        kstk'[p] = Absent /\ \A s \in Slot : entry'[p][s] = Absent
  BY <1>1, <1>3
<1>5. FreshInv'
  <2>1. kstk'[pid'] = Absent /\ \A s \in Slot : entry'[pid'][s] = Absent
    BY <1>1, <1>2, <1>4
  <2>2. ASSUME NEW p \in Pid, p >= nextPid' PROVE Unborn(p)'
    <3>1. p >= nextPid
      BY <1>1, <1>2, <2>2
    <3> QED
      BY <1>4, <3>1 DEF Unborn
  <2> QED
    BY <1>1, <2>1, <2>2 DEF FreshInv, NoTables
<1>6. HoldInv'
  BY <1>1 DEF LossInv, HoldInv, Loose
<1> QED
  BY <1>1, <1>5, <1>6, NoLossQuiet DEF LossStep, LossInv

\* The error return of EXEC.
LEMMA LoadFailsLoss ==
  ASSUME IInv, LossInv, mode \in LoadModes, used' = used, LoadFails
  PROVE  LossStep
<1>1. /\ entry' = [entry EXCEPT ![pid] = NoEntries]
      /\ hold' = {} /\ mode' \in {"user", "stopped"}
      /\ UNCHANGED <<kernel, kstk, brk, live, dead, nextPid, pid, ask>>
  BY DEF LoadFails, procs
<1>2. MayLose
  BY <1>1 DEF MayLose
<1>3. \A t \in Slot : \A p \in Pid :
        entry'[p][t] = entry[p][t] \/ entry'[p][t] = Absent
  BY <1>1, ClearEffect DEF IInv
<1>4. FreshInv'
  BY <1>1, <1>3 DEF LossInv, FreshInv, Unborn, LoadModes
<1>5. HoldInv'
  BY <1>1 DEF HoldInv, Loose
<1> QED
  BY <1>1, <1>2, <1>4, <1>5 DEF LossStep, LossInv

LEMMA KmAllocLoss ==
  ASSUME IInv, LossInv, NEW from, NEW to,
         \/ from = "file" /\ to = "process"
         \/ from = "process" /\ to = "pml4"
         \/ from = "thread" /\ to = "stack",
         KmAlloc(from, to)
  PROVE  LossStep
<1>1. /\ mode = from /\ mode' \in {to, "stopped"}
      /\ UNCHANGED <<entry, kstk, nextPid, pid, todo, hold>>
  BY DEF KmAlloc, procs
<1>2. FreshInv'
  BY <1>1 DEF LossInv, FreshInv, LoadModes, NoTables, Empty, Unborn
<1>3. HoldInv'
  BY <1>1 DEF LossInv, HoldInv, Loose
<1>4. Boot \subseteq kernel' /\ Lost' \subseteq Lost
  <2>1. CASE used' = used /\ kernel' = kernel
    BY <1>1, <2>1, NoLossQuiet DEF LossInv
  <2>2. CASE \E b \in Free : /\ AllocPages(GrowPages, b)
                             /\ kernel' = kernel \cup Run(b, GrowPages)
    BY <1>1, <2>2, NoLossTake DEF LossInv, AllocPages
  <2> QED
    BY <2>1, <2>2 DEF KmAlloc, AllocFails
<1> QED
  BY <1>2, <1>3, <1>4 DEF LossStep, LossInv

LEMMA LoadPml4Loss == IInv /\ LossInv /\ LoadPml4 => LossStep
<1> SUFFICES ASSUME IInv, LossInv, LoadPml4 PROVE LossStep
  OBVIOUS
<1>1. mode = "pml4"
  BY DEF LoadPml4
<1>2. CASE AllocFails(1) /\ LoadFails
  BY <1>1, <1>2, LoadFailsLoss DEF LoadModes, AllocFails
<1>3. ASSUME NEW b \in Free, AllocPage(b), SetEntry(Pml4, b),
             mode' = "identity", todo' = Identity,
             UNCHANGED <<kernel, kstk, brk, procs, irq, pid, ask, hold>>
      PROVE  LossStep
  <2>1. b \in Tracked /\ b \in Phys /\ b \notin used /\ used' = used \cup {b}
    BY <1>3, AllocPageEffect DEF IInv
  <2>2. Pml4 \in Slot /\ Pml4[1] = 4 /\ pid \in Pid
    BY SlotFacts DEF Pml4, IInv, TypeOK
  <2>3. \A s \in Slot : entry[pid][s] = Absent
    BY <1>1 DEF LossInv, FreshInv, NoTables
  <2>4. Absent \notin Tracked
    BY MemoryAssumption DEF MemoryAssumption, Absent, Tracked
  <2>5. Pml4 \notin OwnSlots(pid)
    BY <2>2, <2>3, <2>4 DEF OwnSlots
  <2>6. Lost' \subseteq Lost
    <3> DEFINE s == Pml4
               R == {b}
    <3>1. /\ s \in Slot /\ SetEntry(s, b) /\ s \notin OwnSlots(pid) /\ s[1] # 0
          /\ R \subseteq {b} /\ used' = used \cup R
          /\ hold \subseteq hold' \cup {b}
      BY <1>3, <2>1, <2>2, <2>5
    <3> HIDE DEF s, R
    <3>2. TypeOK /\ b \in Phys \cup {Absent} /\ b \in Tracked
      BY <2>1 DEF IInv
    <3> QED
      BY <1>3, <3>1, <3>2, NoLossEntry
  <2>7. \A p \in Pid, t \in Slot :
          p # pid \/ t # Pml4 => entry'[p][t] = entry[p][t]
    BY <1>3, <2>1, <2>2, SetEntryEffect DEF IInv
  <2>8. \A w \in Virt : entry'[pid][<<0, w>>] = Absent
    <3>1. \A w : <<0, w>> # Pml4
      BY DEF Pml4
    <3> QED
      BY <2>2, <2>3, <2>7, <3>1, SlotFacts
  <2>9. \A p \in Pid : p >= nextPid => p # pid
    BY <1>1, <2>2, PidIsBorn, MemoryAssumption
    DEF MemoryAssumption, LoadModes, IInv, TypeOK, Pid
  <2>10. \A p \in Pid : p >= nextPid' => Unborn(p)'
    BY <1>3, <2>7, <2>9, UnbornKept DEF LossInv, procs
  <2>11. FreshInv'
    BY <1>1, <1>3, <2>8, <2>10
    DEF LossInv, FreshInv, Empty, LoadModes, Virt, UserPages
  <2>12. HoldInv'
    BY <1>1, <1>3 DEF LossInv, HoldInv, Loose
  <2> QED
    BY <1>3, <2>6, <2>11, <2>12 DEF LossStep, LossInv
<1> QED
  BY <1>2, <1>3 DEF LoadPml4

LEMMA LoadMovesLoss ==
  IInv /\ LossInv /\ (LoadIdentity \/ LoadThread \/ LoadStackDone) => LossStep
<1> SUFFICES ASSUME IInv, LossInv, LoadIdentity \/ LoadThread \/ LoadStackDone
             PROVE  LossStep
  OBVIOUS
<1>1. UNCHANGED <<used, kernel, entry, kstk, pid, nextPid, hold>>
  BY DEF LoadIdentity, LoadThread, LoadStackDone, procs
<1>2. \A p \in Pid : p >= nextPid' => Unborn(p)'
  BY <1>1 DEF LossInv, FreshInv, Unborn
<1>3. kstk'[pid'] = Absent
  BY <1>1 DEF LossInv, FreshInv, LoadIdentity, LoadThread, LoadStackDone, LoadModes
<1>4. CASE LoadIdentity
  BY <1>1, <1>2, <1>3, <1>4, NoLossQuiet
  DEF LoadIdentity, LossStep, LossInv, HoldInv, FreshInv, Loose, Empty
<1>5. CASE LoadThread
  BY <1>1, <1>2, <1>3, <1>5, NoLossQuiet
  DEF LoadThread, LossStep, LossInv, HoldInv, FreshInv, Loose, Empty
<1>6. CASE LoadStackDone
  <2>1. Cardinality(hold) = Cardinality({})
    BY <1>6 DEF LoadStackDone, LossInv, HoldInv
  <2>2. IsFiniteSet(hold)
    <3>1. IsFiniteSet(Tracked)
      BY TrackedFinite
    <3> QED
      BY <3>1, FS_Subset DEF IInv, TypeOK
  <2>3. hold = {}
    BY <2>1, <2>2, FS_EmptySet
  <2> QED
    BY <1>1, <1>2, <1>3, <1>6, <2>3, NoLossQuiet
    DEF LoadStackDone, LossStep, LossInv, HoldInv, FreshInv, Loose, Empty
<1> QED
  BY <1>4, <1>5, <1>6
LEMMA LoadImageLoss == IInv /\ LossInv /\ LoadImage => LossStep
<1> SUFFICES ASSUME IInv, LossInv, LoadImage PROVE LossStep
  OBVIOUS
<1>1. mode = "image" /\ hold = {}
  BY DEF LoadImage, LossInv, HoldInv, Loose
<1>2. CASE AllocFails(1) /\ LoadFails
  BY <1>1, <1>2, LoadFailsLoss DEF LoadModes, AllocFails
<1>3. ASSUME NEW b \in Free, AllocPage(b), hold' = {b}, mode' = "imagemap",
             UNCHANGED <<kernel, entry, kstk, brk, procs, irq, pid, todo, ask>>
      PROVE  LossStep
  <2>1. b \in Tracked /\ used' = used \cup {b}
    BY <1>3, AllocPageEffect DEF IInv
  <2>2. Lost' \subseteq Lost
    BY <1>1, <1>3, <2>1, NoLossTake
  <2>3. FreshInv'
    BY <1>1, <1>3 DEF LossInv, FreshInv, Unborn, Empty, LoadModes, procs
  <2>4. HoldInv'
    BY <1>3, <2>1 DEF HoldInv, Loose
  <2> QED
    BY <1>3, <2>2, <2>3, <2>4 DEF LossStep, LossInv
<1> QED
  BY <1>2, <1>3 DEF LoadImage

LEMMA LoadStackLoss == IInv /\ LossInv /\ LoadStack => LossStep
<1> SUFFICES ASSUME IInv, LossInv, LoadStack PROVE LossStep
  OBVIOUS
<1>1. mode = "stack" /\ hold = {}
  BY DEF LoadStack, LossInv, HoldInv, Loose
<1>2. CASE AllocFails(StackPages) /\ LoadFails
  BY <1>1, <1>2, LoadFailsLoss DEF LoadModes, AllocFails
<1>3. ASSUME NEW b \in Free, AllocPages(StackPages, b),
             hold' = Run(b, StackPages), mode' = "stackmap", todo' = Stack,
             UNCHANGED <<kernel, entry, kstk, brk, procs, irq, pid, ask>>
      PROVE  LossStep
  <2>1. used' = used \cup Run(b, StackPages)
    BY <1>3 DEF AllocPages
  <2>2. Lost' \subseteq Lost
    BY <1>1, <1>3, <2>1, NoLossTake
  <2>3. FreshInv'
    BY <1>1, <1>3 DEF LossInv, FreshInv, Unborn, Empty, LoadModes, procs
  <2>4. Cardinality(hold') = StackPages
    <3>1. b \in Int /\ StackPages \in Nat \ {0}
      BY MemoryAssumption DEF MemoryAssumption, Free, Tracked
    <3>2. Cardinality(b..(b + StackPages - 1)) = StackPages
      BY <3>1, FS_Interval
    <3> QED
      BY <1>3, <3>2 DEF Run
  <2>5. Cardinality(todo') = StackPages
    BY <1>3, MemoryAssumption DEF MemoryAssumption
  <2>6. HoldInv'
    BY <1>3, <2>4, <2>5 DEF HoldInv, Loose
  <2> QED
    BY <1>3, <2>2, <2>3, <2>6 DEF LossStep, LossInv
<1> QED
  BY <1>2, <1>3 DEF LoadStack

LEMMA LoadKStackLoss == IInv /\ LossInv /\ LoadKStack => LossStep
<1> SUFFICES ASSUME IInv, LossInv, LoadKStack PROVE LossStep
  OBVIOUS
<1>1. mode = "kstack" /\ hold = {} /\ kstk[pid] = Absent /\ pid \in Pid
  BY DEF LoadKStack, LossInv, HoldInv, FreshInv, Loose, LoadModes, IInv, TypeOK
<1>2. CASE AllocFails(KStackPages) /\ LoadFails
  BY <1>1, <1>2, LoadFailsLoss DEF LoadModes, AllocFails
<1>3. ASSUME NEW b \in Free, AllocPages(KStackPages, b),
             kstk' = [kstk EXCEPT ![pid] = b], mode' = "user",
             UNCHANGED <<kernel, entry, dead, nextPid, pid, todo, ask, hold>>
      PROVE  LossStep
  <2>1. b \in Tracked /\ used' = used \cup Run(b, KStackPages)
    BY <1>3 DEF AllocPages, Free
  <2>2. Lost' \subseteq Lost
    BY <1>1, <1>3, <2>1, NoLossKStack DEF IInv
  <2>3. \A p \in Pid : p >= nextPid => p # pid
    BY <1>1, PidIsBorn, MemoryAssumption
    DEF MemoryAssumption, LoadModes, IInv, TypeOK, Pid
  <2>4. \A p \in Pid : p # pid => kstk'[p] = kstk[p]
    BY <1>3 DEF IInv, TypeOK
  <2>5. \A p \in Pid : p >= nextPid' => Unborn(p)'
    BY <1>3, <2>3, <2>4, UnbornKept DEF LossInv
  <2>6. FreshInv'
    BY <1>3, <2>5 DEF FreshInv, LoadModes
  <2>7. HoldInv'
    BY <1>1, <1>3 DEF HoldInv
  <2> QED
    BY <1>3, <2>2, <2>6, <2>7 DEF LossStep, LossInv
<1> QED
  BY <1>2, <1>3 DEF LoadKStack

LEMMA LoadLoss == IInv /\ LossInv /\ Load => LossStep
<1>1. ASSUME IInv, LossInv,
             \/ KmAlloc("file", "process") \/ KmAlloc("process", "pml4")
             \/ KmAlloc("thread", "stack")
      PROVE  LossStep
  BY <1>1, KmAllocLoss
<1> QED
  BY <1>1, LoadPml4Loss, LoadMovesLoss, LoadImageLoss, LoadStackLoss,
     LoadKStackLoss DEF Load

-----------------------------------------------------------------------------
(* MMAP, FB_MAP and a disk transfer.                                       *)

LEMMA QuietActions ==
  IInv /\ LossInv /\ (\/ Mmap \/ FbMap \/ GrowReturn \/ TransferBegin
                      \/ Clean \/ CleanUnlink \/ CleanNext \/ CleanDone \/ End)
    => LossStep
<1> SUFFICES ASSUME IInv, LossInv,
                    \/ Mmap \/ FbMap \/ GrowReturn \/ TransferBegin
                    \/ Clean \/ CleanUnlink \/ CleanNext \/ CleanDone \/ End
             PROVE  LossStep
  OBVIOUS
<1>1. CASE Mmap
  BY <1>1, QuietLoss DEF Mmap, Grow, Loose, LoadModes, procs
<1>2. CASE FbMap
  BY <1>2, QuietLoss DEF FbMap, Grow, Loose, LoadModes, procs
<1>3. CASE GrowReturn \/ TransferBegin \/ Clean \/ CleanUnlink \/ CleanNext \/ CleanDone
  BY <1>3, QuietLoss DEF GrowReturn, TransferBegin, Clean, CleanUnlink,
                         CleanNext, CleanDone, Loose, LoadModes, procs
<1>4. CASE End
  BY <1>4, QuietLoss DEF End, Ended, Loose, LoadModes
<1> QED
  BY <1>1, <1>2, <1>3, <1>4

LEMMA MmapAllocLoss == IInv /\ LossInv /\ MmapAlloc => LossStep
<1> SUFFICES ASSUME IInv, LossInv, MmapAlloc PROVE LossStep
  OBVIOUS
<1>1. /\ mode = "mmap" /\ hold = {}
      /\ UNCHANGED <<kernel, entry, kstk, brk, live, dead, nextPid, irq, pid, ask>>
  BY DEF MmapAlloc, procs, LossInv, HoldInv, Loose
<1>2. ASSUME NEW b \in Free, AllocPage(b), hold' = {b}, mode' = "mmapmap"
      PROVE  LossStep
  <2>1. b \in Tracked /\ used' = used \cup {b}
    BY <1>2, AllocPageEffect DEF IInv
  <2>2. Lost' \subseteq Lost
    BY <1>1, <1>2, <2>1, NoLossTake
  <2>3. FreshInv'
    BY <1>1, <1>2, FreshKept DEF LossInv, LoadModes
  <2>4. HoldInv'
    BY <1>2, <2>1 DEF HoldInv, Loose
  <2> QED
    BY <1>1, <2>2, <2>3, <2>4 DEF LossStep, LossInv
<1>3. CASE AllocFails(1) /\ UNCHANGED <<hold, mode>>
  BY <1>1, <1>3, QuietLoss DEF AllocFails, Loose, LoadModes
<1> QED
  BY <1>2, <1>3 DEF MmapAlloc

LEMMA DmaAllocLoss == IInv /\ LossInv /\ (DmaAlloc \/ DmaAny) => LossStep
<1> SUFFICES ASSUME IInv, LossInv, DmaAlloc \/ DmaAny PROVE LossStep
  OBVIOUS
<1>1. /\ mode \in {"dma", "dmaany"} /\ mode' \in {"dma", "dmalow", "io", "user"}
      /\ mode = "dmaany" => hold = {} /\ mode' \in {"io", "user"}
      /\ UNCHANGED <<kernel, entry, kstk, brk, live, dead, nextPid, irq, pid, todo, ask>>
  BY DEF DmaAlloc, DmaAny, procs, LossInv, HoldInv, Loose
<1>2. FreshInv'
  BY <1>1, FreshKept DEF LossInv, LoadModes
<1>3. HoldInv'
  BY <1>1 DEF HoldInv, Loose, DmaAlloc, DmaAny
<1>4. Lost' \subseteq Lost
  <2>1. CASE UNCHANGED <<used, hold>>
    BY <1>1, <2>1, NoLossQuiet
  <2>2. CASE \E b \in Free : AllocPage(b) /\ hold' = hold \cup {b}
    <3>1. PICK b \in Free : AllocPage(b) /\ hold' = hold \cup {b}
      BY <2>2
    <3>2. used' = used \cup {b}
      BY <3>1, AllocPageEffect DEF IInv
    <3> QED
      BY <1>1, <3>1, <3>2, NoLossTake
  <2> QED
    BY <1>1, <2>1, <2>2 DEF DmaAlloc, DmaAny, AllocFails
<1> QED
  BY <1>1, <1>2, <1>3, <1>4 DEF LossStep, LossInv

LEMMA DmaFreeLoss == IInv /\ LossInv /\ (DmaFreeLow \/ TransferEnd) => LossStep
<1> SUFFICES ASSUME IInv, LossInv, DmaFreeLow \/ TransferEnd PROVE LossStep
  OBVIOUS
<1>1. /\ mode' \in {"dmaany", "io", "user"}
      /\ UNCHANGED <<kernel, entry, kstk, brk, live, dead, nextPid, irq, pid, todo, ask>>
  BY DEF DmaFreeLow, TransferEnd, procs
<1>2. FreshInv'
  BY <1>1, FreshKept DEF LossInv, LoadModes
<1>3. mode' \in {"user", "dmaany"} => hold' = {}
  BY DEF DmaFreeLow, TransferEnd
<1>4. HoldInv'
  BY <1>1, <1>3 DEF HoldInv, Loose
<1>5. Lost' \subseteq Lost
  <2>1. \E S : FreePages(S) /\ hold' = hold \ S
    <3>1. CASE DmaFreeLow
      BY <3>1 DEF DmaFreeLow
    <3>2. CASE TransferEnd
      <4>1. hold' = hold \ hold /\ FreePages(hold)
        BY <3>2 DEF TransferEnd
      <4> QED
        BY <4>1
    <3> QED
      BY <3>1, <3>2
  <2> QED
    BY <1>1, <2>1, NoLossRelease
<1> QED
  BY <1>1, <1>2, <1>4, <1>5 DEF LossStep, LossInv

-----------------------------------------------------------------------------
(* The end of a process.                                                   *)

LEMMA CtrlCLoss == IInv /\ LossInv /\ CtrlC => LossStep
<1> SUFFICES ASSUME IInv, LossInv, CtrlC PROVE LossStep
  OBVIOUS
<1>1. /\ hold' = {} /\ mode # "user" /\ mode' \in {"user", "stopped"}
      /\ Current # {} /\ live' = live \ Current
      /\ UNCHANGED <<kernel, nextPid, pid>>
  BY DEF CtrlC, Ended
<1>2. MayLose
  BY <1>1 DEF MayLose, Current
<1>3. HoldInv'
  BY <1>1 DEF HoldInv, Loose
<1>4. \A p \in Pid : kstk'[p] \in {kstk[p], Absent}
  BY DEF CtrlC, IInv, TypeOK
<1>5. \A p \in Pid : \A t \in Slot :
        entry'[p][t] = entry[p][t] \/ entry'[p][t] = Absent
  BY ClearEffect DEF CtrlC, IInv
<1>6. FreshInv'
  BY <1>1, <1>4, <1>5 DEF LossInv, FreshInv, Unborn, LoadModes
<1> QED
  BY <1>1, <1>2, <1>3, <1>6 DEF LossStep, LossInv

LEMMA CleanKStackLoss == IInv /\ LossInv /\ CleanKStack => LossStep
<1> SUFFICES ASSUME IInv, LossInv, CleanKStack PROVE LossStep
  OBVIOUS
<1>1. /\ mode = "unlinked" /\ mode' = "walk" /\ pid \in Pid
      /\ FreePages(KStack(pid))
      /\ kstk' = [kstk EXCEPT ![pid] = Absent]
      /\ UNCHANGED <<kernel, entry, brk, live, dead, nextPid, irq, pid, todo, ask, hold>>
  BY DEF CleanKStack, procs, IInv, TypeOK
<1>2. used' \subseteq used /\ \A x \in KStack(pid) \cap used' : x \in kernel'
  BY <1>1, Freed
<1>3. \A p \in Pid : p # pid => KStack(p)' = KStack(p)
  BY <1>1 DEF KStack, IInv, TypeOK
<1>4. \A p \in Pid : OwnSlots(p)' = OwnSlots(p)
  BY <1>1 DEF OwnSlots
<1>5. \A p \in Pid : \A x \in KStack(p) \cap used' : x \in Owned'
  BY <1>2, <1>3, OwnedFactsNext
<1>6. /\ \A x \in hold : x \in Owned'
      /\ \A p \in Pid : \A s \in OwnSlots(p) : entry[p][s] \in Owned'
  BY <1>1, <1>4, OwnedFactsNext
<1>7. used' \subseteq used \cup {} /\ {} \subseteq Owned' /\ kernel \subseteq kernel'
  BY <1>1, <1>2
<1>8. Lost' \subseteq Lost
  BY <1>5, <1>6, <1>7, NoLoss
<1>9. \A p \in Pid : kstk'[p] \in {kstk[p], Absent}
  BY <1>1 DEF IInv, TypeOK
<1>10. FreshInv'
  BY <1>1, <1>9 DEF LossInv, FreshInv, Unborn, LoadModes
<1>11. HoldInv'
  BY <1>1 DEF LossInv, HoldInv, Loose
<1> QED
  BY <1>1, <1>8, <1>10, <1>11 DEF LossStep, LossInv

\* The walk frees every page of the process's own, but for a page of user
\* memory that is mapped at its own address.
LEMMA WalkLoss == IInv /\ LossInv /\ PsFreeAddressSpace => LossStep
<1> SUFFICES ASSUME IInv, LossInv, PsFreeAddressSpace PROVE LossStep
  OBVIOUS
<1>1. PICK s \in Present : FreeSlot(s)
  BY DEF PsFreeAddressSpace
<1>2. /\ mode = "walk" /\ mode' = mode /\ pid \in Pid
      /\ UNCHANGED <<kernel, kstk, brk, live, dead, nextPid, irq, pid, todo,
                     ask, hold>>
  BY DEF PsFreeAddressSpace, procs, IInv, TypeOK
<1>3. s \in Slot /\ SetEntry(s, Absent)
  BY <1>1 DEF Present, FreeSlot
<1>4. /\ entry'[pid][s] = Absent
      /\ \A p \in Pid, t \in Slot :
           p # pid \/ t # s => entry'[p][t] = entry[p][t]
  BY <1>3, SetEntryEffect DEF IInv
<1>5. \A p \in Pid : \A t \in Slot :
        entry'[p][t] = entry[p][t] \/ entry'[p][t] = Absent
  BY <1>4
<1>6. FreshInv'
  BY <1>2, <1>5 DEF LossInv, FreshInv, Unborn, LoadModes
<1>7. HoldInv'
  BY <1>2 DEF LossInv, HoldInv, Loose
<1>8. used' \subseteq used
  BY <1>1 DEF FreeSlot, FreePages
<1>9. \A p \in Pid : KStack(p)' = KStack(p)
  BY <1>2 DEF KStack
<1>10. \A p \in Pid : \A t \in OwnSlots(p) :
         p # pid \/ t # s => t \in OwnSlots(p)' /\ entry'[p][t] = entry[p][t]
  BY <1>4 DEF OwnSlots
<1>11. \A p \in Pid : \A t \in OwnSlots(p) :
         p # pid \/ t # s => entry[p][t] \in Owned'
  BY <1>10, OwnedFactsNext
<1>12. \/ \E v \in UserPages : /\ s = <<0, v>>
                               /\ v \in Stack \cup NoExec \/ entry[pid][s] = v
       \/ s \in OwnSlots(pid) /\ entry[pid][s] \in used' => entry[pid][s] \in kernel
  <2>1. CASE Freeable(s)
    <3>1. FreePages({entry[pid][s]})
      BY <1>1, <2>1 DEF FreeSlot
    <3> QED
      BY <3>1, Freed
  <2>2. CASE ~Freeable(s) /\ s \in OwnSlots(pid)
    <3>1. /\ s[1] = 0 /\ s[2] \notin Identity
          /\ s[2] = entry[pid][s] \/ s[2] \in nx[pid]
      BY <2>2 DEF Freeable, OwnSlots
    <3>2. PICK l \in 0..4, v \in Virt : s = At(l, v)
      BY <1>3 DEF Slot
    <3>3. s = <<0, v>> /\ v \notin Identity
      BY <3>1, <3>2, MemoryAssumption DEF MemoryAssumption, At
    <3>4. nx[pid] \subseteq Stack \cup NoExec
      BY <1>2 DEF IInv, TypeOK
    <3>5. v \in UserPages /\ (v \in Stack \cup NoExec \/ entry[pid][s] = v)
      BY <3>1, <3>3, <3>4 DEF Virt
    <3> QED
      BY <3>3, <3>5
  <2> QED
    BY <2>1, <2>2
<1>13. CASE s \in OwnSlots(pid) /\ entry[pid][s] \in used' => entry[pid][s] \in kernel
  <2>1. \A p \in Pid : \A t \in OwnSlots(p) :
          entry[p][t] \in used' => entry[p][t] \in Owned'
    BY <1>2, <1>11, <1>13, OwnedFactsNext
  <2>2. /\ \A x \in hold : x \in Owned'
        /\ \A p \in Pid : \A x \in KStack(p) : x \in Owned'
    BY <1>2, <1>9, OwnedFactsNext
  <2>3. used' \subseteq used \cup {} /\ {} \subseteq Owned' /\ kernel \subseteq kernel'
    BY <1>2, <1>8
  <2>4. Lost' \subseteq Lost
    BY <2>1, <2>2, <2>3, NoLoss
  <2> QED
    BY <1>2, <1>6, <1>7, <2>4 DEF LossStep, LossInv
<1>14. CASE \E v \in UserPages :
               /\ s = <<0, v>>
               /\ v \in Stack \cup NoExec \/ entry[pid][s] = v
  <2>1. Lost' \ Lost \subseteq {entry[pid][s]}
    <3> SUFFICES ASSUME NEW x \in used', x \notin Owned', x # entry[pid][s]
                 PROVE  x \in Lost
      BY DEF Lost
    <3>1. x \notin kernel /\ x \notin hold /\ \A p \in Pid : x \notin KStack(p)
      BY <1>2, <1>9, OwnedFactsNext
    <3>2. \A p \in Pid : \A t \in OwnSlots(p) : entry[p][t] # x
      BY <1>11
    <3>3. x \notin Owned
      BY <3>1, <3>2, OwnedFacts
    <3> QED
      BY <1>8, <3>3 DEF Lost
  <2>2. MayLose
    BY <1>2, <1>14, <2>1 DEF MayLose
  <2> QED
    BY <1>2, <1>6, <1>7, <2>2 DEF LossStep, LossInv
<1> QED
  BY <1>12, <1>13, <1>14

-----------------------------------------------------------------------------
LEMMA NextLoss == IInv /\ LossInv /\ Next => LossStep
<1>1. ASSUME IInv, LossInv, VmmMapPage \/ Exec \/ Load PROVE LossStep
  BY <1>1, VmmMapPageLoss, ExecLoss, LoadLoss
<1>2. ASSUME IInv, LossInv,
             \/ Mmap \/ FbMap \/ GrowReturn \/ TransferBegin
             \/ Clean \/ CleanUnlink \/ CleanNext \/ CleanDone \/ End
      PROVE  LossStep
  BY <1>2, QuietActions
<1>3. ASSUME IInv, LossInv,
             MmapAlloc \/ DmaAlloc \/ DmaAny \/ DmaFreeLow \/ TransferEnd
      PROVE  LossStep
  BY <1>3, MmapAllocLoss, DmaAllocLoss, DmaFreeLoss
<1>4. ASSUME IInv, LossInv, CtrlC \/ CleanKStack \/ PsFreeAddressSpace
      PROVE  LossStep
  BY <1>4, CtrlCLoss, CleanKStackLoss, WalkLoss
<1> QED
  BY <1>1, <1>2, <1>3, <1>4 DEF Next

\* A page is lost only where LossIsKnown lists it, whatever the size of memory
\* and wherever a process is killed: every page the loader, MMAP, FB_MAP or a
\* transfer takes is owned by somebody at every step, and the clean-up of a
\* process gives back its kernel stack, its page tables, its code and its heap;
\* its stack, headers and data, and a page mapped at its own address, it loses.
THEOREM LossesKnown == Spec => LossIsKnown
<1>1. LossInv /\ UNCHANGED vars => LossInv'
  <2> SUFFICES ASSUME LossInv, UNCHANGED vars PROVE LossInv'
    OBVIOUS
  <2>1. UNCHANGED <<kernel, entry, kstk, nextPid, mode, pid, todo, hold>>
    BY DEF vars, procs
  <2> QED
    BY <2>1 DEF LossInv, HoldInv, FreshInv, Unborn, Empty, NoTables
<1>2. IInv /\ LossInv /\ [Next]_vars => LossInv'
  BY <1>1, NextLoss DEF LossStep
<1>3. IInv /\ LossInv /\ [Next]_vars => [Lost' \subseteq Lost \/ MayLose]_vars
  BY NextLoss DEF LossStep
<1> QED
  BY <1>2, <1>3, LossInvInit, IInvHolds, PTL DEF Spec, LossIsKnown
=============================================================================
