------------------------------- MODULE Fat32 -------------------------------
(***************************************************************************)
(* The FAT32 volume of fat32.c under WRITEFILE, DELETE and MKDIR.  The     *)
(* calls run with interrupts off, so one is under way at a time; each of   *)
(* its sector writes is a step, because a write may fail and the machine   *)
(* may be switched off between two of them.  A cluster is one sector, and  *)
(* only the first copy of the FAT is kept, the one that is read.           *)
(***************************************************************************)
EXTENDS Integers, Sequences, FiniteSets, SequencesExt, FiniteSetsExt

CONSTANTS
    MaxCluster, \* clusters are 2 .. MaxCluster - 1, the root directory starts at 2
    Slots,      \* directory entries in a cluster
    MaxListed,  \* how many entries Fat32OpenPath looks at, 64
    Names,      \* file names,
    Short,      \* their 8.3 forms, not made unique,
    Long,       \* and those that need a long name as well, one more entry
    Lengths,    \* how many clusters a file may have; what it says is its name
    MaxFaults,  \* bound on the writes that fail and the times power goes off
    Tolerated   \* bound: with any other damage ("past") no further call begins

ASSUME FatAssumption ==
    /\ MaxCluster \in Nat /\ MaxCluster > 3 /\ Slots \in Nat /\ Slots > 2
    /\ MaxListed \in Nat /\ DOMAIN Short = Names /\ Long \subseteq Names
    /\ Lengths \subseteq Nat /\ MaxFaults \in Nat

Cluster == 2 .. MaxCluster - 1
Root == 2
EOF == MaxCluster

VARIABLES
    fat,    \* 0 is free, EOF the end of a chain, anything else the next cluster
    data,   \* what each cluster holds as part of a file,
    dir,    \* and as part of a directory
    last,   \* g_last_allocated_cluster
    \* the call under way, with its local variables
    pc, call, first, prev, old, at, k,
    \* history
    stored, \* what was written last, by directory and short name
    faults,
    past    \* what has gone wrong, a set of:
            \*   freed   a call ended with the clusters of an entry freed
            \*   torn    a directory entry or a directory half written
            \*   lost    a failed write to the FAT that nobody noticed
            \*   hidden  entries written behind the end mark of their directory
            \*   leaked  clusters in nobody's chain: power went off, or a
            \*           directory was deleted with files in it
            \*   twice   MKDIR of a name that Fat32OpenPath did not get to

disk == <<fat, data, dir>>
locals == <<call, first, prev, old, at, k>>
vars == <<disk, last, pc, locals, stored, faults, past>>

End == [kind |-> "end"]       \* first byte 0x00: nothing is behind it
Erased == [kind |-> "erased"] \* first byte 0xE5
Dots == [kind |-> "dots"]     \* ".", ".." and anything else that matches no name
LongEntry(n) == [kind |-> "long", name |-> n]
Entry(kind, n, c, len) == [kind |-> kind, name |-> Short[n], first |-> c, size |-> len]

Nothing == <<"", 0>>
Absent == <<Nothing>>
NoCall == [op |-> "none", hit |-> FALSE, chain |-> 0, full |-> FALSE]
Idle == [i \in 1 .. Slots |-> End]
Junk == [i \in 1 .. Slots |-> Dots] \* what a cluster that is no directory holds

Init == /\ fat = [c \in Cluster |-> IF c = Root THEN EOF ELSE 0]
        /\ data = [c \in Cluster |-> Nothing]
        /\ dir = [c \in Cluster |-> IF c = Root THEN Idle ELSE Junk]
        /\ last = 2
        /\ pc = "none" /\ call = NoCall /\ first = 0 /\ prev = 0 /\ old = 0
        /\ at = <<0, 0>> /\ k = 0
        /\ stored = [c \in Cluster |-> [s \in Range(Short) |-> Absent]]
        /\ faults = 0 /\ past = {}

-----------------------------------------------------------------------------
(* FatNextCluster, 0 at the end, and the chain it leads along. *)

NextCluster_NoEof(c) == IF c \in Cluster THEN fat[c] ELSE 0
NextCluster(c) == IF c \in Cluster /\ fat[c] # EOF THEN fat[c] ELSE 0

Walk(c) == LET walk[i \in Cluster] == IF i = 2 THEN c ELSE NextCluster(walk[i - 1])
           IN  walk

Chain(c) == LET w    == Walk(c)
                ends == {i \in Cluster : w[i] \notin Cluster}
            IN  [i \in 1 .. (IF ends = {} THEN MaxCluster ELSE Min(ends)) - 2 |-> w[i + 1]]

(* The entries of directory d, in the order of its clusters, up to the end mark. *)
AllEntries(d) == LET ch == Chain(d)
                 IN  [j \in 1 .. Len(ch) * Slots |->
                         dir[ch[(j - 1) \div Slots + 1]][((j - 1) % Slots) + 1]]

Entries(d) == LET all  == AllEntries(d)
                  ends == {j \in 1 .. Len(all) : all[j] = End}
              IN  IF ends = {} THEN all ELSE SubSeq(all, 1, Min(ends) - 1)

(* Where entry j of d is, and its write. *)
Place(d, j) == <<Chain(d)[(j - 1) \div Slots + 1], ((j - 1) % Slots) + 1>>

IsEntry(e) == e.kind \in {"file", "dir"}

First(js) == IF js = {} THEN 0 ELSE Min(js)

(* The long name before entry j, or none: the checksum that ties them is not looked at. *)
LongName(es, j) == IF j > 1 /\ es[j - 1].kind = "long" THEN {es[j - 1].name} ELSE {}

(* Fat32WriteFile looks for the 8.3 name alone. *)
WriteFinds_LongToo(d, n) ==
    LET es == Entries(d)
    IN  First({j \in 1 .. Len(es) : IsEntry(es[j]) /\ es[j].name = Short[n]
                                    /\ (LongName(es, j) = {} \/ n \in LongName(es, j))})
WriteFinds(d, n) == LET es == Entries(d)
                    IN  First({j \in 1 .. Len(es) : IsEntry(es[j]) /\ es[j].name = Short[n]})

(* Entry j is one of those Fat32ReadDir finds room for. *)
InReach(es, j) ==
    Cardinality({i \in 1 .. j - 1 : es[i].kind \notin {"erased", "long"}}) < MaxListed

(* Fat32OpenPath takes the name an entry shows, the long one if there is one, and
   compares 8.3 forms, in the entries that are listed. *)
OpenFinds(d, n) ==
    LET es == Entries(d)
        Shown(j) == IF LongName(es, j) = {} THEN {es[j].name} ELSE {Short[m] : m \in LongName(es, j)}
    IN  First({j \in 1 .. Len(es) : IsEntry(es[j]) /\ Short[n] \in Shown(j) /\ InReach(es, j)})

(* FatFindEntry, for DELETE, compares the long name, or the 8.3 name as it is. *)
DeleteFinds(d, n) ==
    LET es == Entries(d)
    IN  First({j \in 1 .. Len(es) :
                 /\ IsEntry(es[j])
                 /\ n \in LongName(es, j) \/ (n \notin Long /\ es[j].name = Short[n])})

(* FatFindFreeSlots in one cluster: a run of erased entries, or from the end mark
   on (and from the erased entries before it), room being counted from the mark. *)
RoomIn(c, n) ==
    LET ends == {j \in 1 .. Slots : dir[c][j] = End}
        e    == IF ends = {} THEN Slots + 1 ELSE Min(ends)
        AllErased(i, j) == \A x \in i .. j : dir[c][x] = Erased
        runs == {i \in 1 .. e - n : AllErased(i, i + n - 1)}
    IN  IF runs # {} THEN Min(runs)
        ELSE IF Slots + 1 - e >= n /\ e <= Slots THEN Min({i \in 1 .. e : AllErased(i, e - 1)})
        ELSE 0

FreeSlots(d, n) == LET ok == {i \in 1 .. Len(Chain(d)) : RoomIn(Chain(d)[i], n) # 0}
                   IN  IF ok = {} THEN <<0, 0>>
                       ELSE LET c == Chain(d)[Min(ok)] IN <<c, RoomIn(c, n)>>

SlotsFor(n) == IF n \in Long THEN 2 ELSE 1

(* FatAllocateCluster: from the last one on, then from the start; 0 is a full disk. *)
FreeCluster_Unchecked == IF last \in Cluster THEN last ELSE First({c \in Cluster : fat[c] = 0})

FreeCluster ==
    LET start == IF last \in Cluster THEN last ELSE 2
        free  == {c \in Cluster : fat[c] = 0}
        after == {c \in free : c >= start}
    IN  IF after # {} THEN Min(after) ELSE First(free)

-----------------------------------------------------------------------------
(* The writes.  "bad" is a write that fails. *)

Attempt(bad) == /\ bad => faults < MaxFaults
                /\ faults' = IF bad THEN faults + 1 ELSE faults

SetFat(bad, c, x) == fat' = IF bad THEN fat ELSE [fat EXCEPT ![c] = x]

SetEntry(bad, c, i, e) == dir' = IF bad THEN dir ELSE [dir EXCEPT ![c][i] = e]

Blame(bad, what) == past' = IF bad THEN past \cup {what} ELSE past

Finish == /\ pc' = "none" /\ call' = NoCall /\ first' = 0 /\ prev' = 0 /\ old' = 0
          /\ at' = <<0, 0>> /\ k' = 0

(* The chain of the entry the call found is freed, or being freed. *)
OldFreed == call.chain # 0 /\ ~(pc = "free" /\ old = call.chain)

(* The way out after an error: the new chain is freed, if there is one; the
   entry of an old one still names it. *)
Fail_NoUndo(also) == /\ past' = past \cup also \cup (IF OldFreed THEN {"freed"} ELSE {})
                     /\ Finish

Fail(also) == /\ past' = past \cup also \cup (IF OldFreed THEN {"freed"} ELSE {})
              /\ IF first # 0
                 THEN /\ pc' = "undo" /\ old' = first /\ first' = 0 /\ call' = NoCall
                      /\ UNCHANGED <<prev, at, k>>
                 ELSE Finish

Content(n, len) == [i \in 1 .. len |-> <<n, i>>]

Store(d, n, x) == stored' = [stored EXCEPT ![d][Short[n]] = x]

-----------------------------------------------------------------------------
(* Fat32WriteFile, Fat32DeleteFile and Fat32CreateDirectory begin: they look up
   the name.  Paths are at most one directory deep, and Fat32OpenPath finds the
   directory. *)

Parents == {Root} \cup
    {e.first : e \in {x \in Range(Entries(Root)) : x.kind = "dir"}}

Opened == {Root} \cup
    {e.first : e \in {x \in {Entries(Root)[j] : j \in {OpenFinds(Root, n) : n \in Names} \ {0}} :
                         x.kind = "dir"}}

Begin(op, d, n, len, j) ==
    LET c == IF j = 0 THEN 0 ELSE Entries(d)[j].first
    IN  /\ pc = "none" /\ past \subseteq Tolerated
        /\ call' = [op |-> op, dir |-> d, name |-> n, size |-> len,
                    hit |-> j # 0, chain |-> c,
                    full |-> \E x \in Range(Entries(c)) : IsEntry(x)]
        /\ at' = IF j = 0 THEN <<0, 0>> ELSE Place(d, j)
        /\ old' = c
        /\ pc' = IF c # 0 THEN "free" ELSE IF op = "delete" THEN "erase"
                 ELSE IF len > 0 THEN "alloc" ELSE "entry"
        /\ UNCHANGED <<disk, last, first, prev, stored, faults>>

WriteFile(d, n, len) ==
    /\ k' = 0
    /\ WriteFinds(d, n) # 0 => Entries(d)[WriteFinds(d, n)].kind = "file"
    /\ Begin("write", d, n, len, WriteFinds(d, n))
    /\ UNCHANGED past

CreateDirectory(n) ==
    /\ k' = 0
    /\ OpenFinds(Root, n) = 0
    /\ Begin("mkdir", Root, n, 1, 0)
    /\ Blame(WriteFinds(Root, n) # 0, "twice")

(* Deleted are the entry and the long name before it. *)
EraseFrom_EntryOnly(d, j) == j
EraseFrom(d, j) == IF LongName(Entries(d), j) = {} THEN j ELSE j - 1

DeleteFile(d, n) ==
    /\ DeleteFinds(d, n) # 0
    /\ k' = Place(d, EraseFrom(d, DeleteFinds(d, n)))[2]
    /\ Begin("delete", d, n, 0, DeleteFinds(d, n))
    /\ UNCHANGED past

-----------------------------------------------------------------------------
(* FatFreeClusterChain: a write that fails is not noticed.  What a free cluster
   still holds is not told apart. *)
FreeChainStep(bad) ==
    /\ pc \in {"free", "undo"} /\ Attempt(bad)
    /\ SetFat(bad, old, 0) /\ Blame(bad, "lost")
    /\ data' = [data EXCEPT ![old] = Nothing] /\ dir' = [dir EXCEPT ![old] = Junk]
    /\ old' = NextCluster(old)
    /\ CASE old' # 0 -> UNCHANGED <<pc, call, first, prev, at, k>>
         [] old' = 0 /\ pc = "undo" ->
              pc' = "none" /\ call' = NoCall /\ first' = 0 /\ prev' = 0
              /\ at' = <<0, 0>> /\ k' = 0
         [] OTHER ->
              /\ pc' = IF call.op = "delete" THEN "erase"
                       ELSE IF call.size > 0 THEN "alloc" ELSE "entry"
              /\ UNCHANGED <<call, first, prev, at, k>>
    /\ UNCHANGED <<last, stored>>

(* One cluster more, marked as the end; then the one before is led to it. *)
Allocate(bad) ==
    /\ pc = "alloc" /\ Attempt(bad)
    /\ LET c == FreeCluster
       IN  IF bad \/ c = 0
           THEN Fail({}) /\ UNCHANGED <<fat, last>>
           ELSE /\ SetFat(FALSE, c, EOF) /\ last' = c + 1
                /\ IF first = 0
                   THEN /\ first' = c /\ prev' = c /\ k' = 1
                        /\ pc' = IF call.size = 1 THEN "data" ELSE "alloc"
                        /\ UNCHANGED old
                   ELSE pc' = "link" /\ old' = c /\ UNCHANGED <<first, prev, k>>
                /\ UNCHANGED <<call, at, past>>
    /\ UNCHANGED <<data, dir, stored>>

(* The status of this write is not looked at. *)
LinkCluster(bad) ==
    /\ pc = "link" /\ Attempt(bad)
    /\ SetFat(bad, prev, old) /\ Blame(bad, "lost")
    /\ prev' = old
    /\ IF k + 1 = call.size THEN pc' = "data" /\ k' = 1 ELSE pc' = "alloc" /\ k' = k + 1
    /\ UNCHANGED <<data, dir, last, call, first, old, at, stored>>

(* The k-th cluster is written: a part of the file, or a new directory. *)
WriteCluster(bad) ==
    /\ pc = "data" /\ Attempt(bad)
    /\ IF bad
       THEN Fail({}) /\ UNCHANGED <<data, dir>>
       ELSE LET c == Chain(first)[k]
                new == [Idle EXCEPT ![1] = Dots, ![2] = Dots]
            IN  /\ data' = [data EXCEPT ![c] = <<call.name, k>>]
                /\ dir' = [dir EXCEPT ![c] = IF call.op = "mkdir" THEN new ELSE Junk]
                /\ IF k < Min({call.size, Len(Chain(first))})
                   THEN k' = k + 1 /\ UNCHANGED pc
                   ELSE pc' = "entry" /\ UNCHANGED k
                /\ UNCHANGED <<call, first, prev, old, at, past>>
    /\ UNCHANGED <<fat, last, stored>>

-----------------------------------------------------------------------------
(* FatWriteDirectoryEntries, and the search for room before it. *)

NewEntry == Entry(IF call.op = "mkdir" THEN "dir" ELSE "file", call.name, first,
                  IF call.op = "mkdir" THEN 0 ELSE call.size)

Done == IF call.op = "mkdir"
        THEN stored' = [stored EXCEPT ![first] = [s \in Range(Short) |-> Absent]]
        ELSE Store(call.dir, call.name, Content(call.name, call.size))

(* An entry that is there is written over, its long name stays. *)
UpdateEntry(bad) ==
    /\ pc = "entry" /\ call.hit /\ Attempt(bad)
    /\ SetEntry(bad, at[1], at[2], NewEntry)
    /\ IF bad THEN Fail({}) /\ UNCHANGED stored
       ELSE Finish /\ Done /\ UNCHANGED past
    /\ UNCHANGED <<fat, data, last>>

FindRoom ==
    /\ pc = "entry" /\ ~call.hit
    /\ at' = FreeSlots(call.dir, SlotsFor(call.name))
    /\ pc' = IF at' = <<0, 0>> THEN "expand" ELSE "slots"
    /\ k' = 1
    /\ UNCHANGED <<disk, last, call, first, prev, old, stored, faults, past>>

(* FatExpandDirectory: a cluster, a link to it, and only then its zeros. *)
Expand(bad) ==
    /\ pc = "expand" /\ Attempt(bad)
    /\ LET c == FreeCluster
       IN  IF bad \/ c = 0
           THEN Fail({}) /\ UNCHANGED <<fat, last>>
           ELSE /\ SetFat(FALSE, c, EOF) /\ last' = c + 1
                /\ old' = c /\ pc' = "tail"
                /\ Blame(End \in Range(AllEntries(call.dir)), "hidden")
                /\ UNCHANGED <<call, first, prev, at, k>>
    /\ UNCHANGED <<data, dir, stored>>

LinkTail(bad) ==
    /\ pc = "tail" /\ Attempt(bad)
    /\ SetFat(bad, Last(Chain(call.dir)), old) /\ Blame(bad, "lost")
    /\ pc' = "zero"
    /\ UNCHANGED <<data, dir, last, locals, stored>>

ZeroTail(bad) ==
    /\ pc = "zero" /\ Attempt(bad)
    /\ dir' = IF bad THEN dir ELSE [dir EXCEPT ![old] = Idle]
    /\ data' = IF bad THEN data ELSE [data EXCEPT ![old] = Nothing]
    /\ Blame(bad, "torn")
    /\ at' = <<old, 1>> /\ pc' = "slots"
    /\ UNCHANGED <<fat, last, call, first, prev, old, k, stored>>

WriteSlot(bad) ==
    /\ pc = "slots" /\ Attempt(bad)
    /\ LET final == k = SlotsFor(call.name)
           e     == IF final THEN NewEntry ELSE LongEntry(call.name)
       IN  /\ SetEntry(bad, at[1], at[2] + k - 1, e)
           /\ CASE bad -> Fail(IF k > 1 THEN {"torn"} ELSE {}) /\ UNCHANGED stored
                [] ~bad /\ final -> Finish /\ Done /\ UNCHANGED past
                [] OTHER -> /\ k' = k + 1
                            /\ UNCHANGED <<pc, call, first, prev, old, at, stored, past>>
    /\ UNCHANGED <<fat, data, last>>

(* What a deleted directory held is in nobody's chain any more. *)
EraseEntry(bad) ==
    /\ pc = "erase" /\ Attempt(bad)
    /\ SetEntry(bad, at[1], k, Erased)
    /\ CASE bad -> Fail({"torn"}) /\ UNCHANGED stored
         [] ~bad /\ k = at[2] ->
              /\ Finish /\ Store(call.dir, call.name, Absent)
              /\ Blame(call.full, "leaked")
         [] OTHER -> /\ k' = k + 1
                     /\ UNCHANGED <<pc, call, first, prev, old, at, stored, past>>
    /\ UNCHANGED <<fat, data, last>>

-----------------------------------------------------------------------------
(* The power goes off in a call: the disk stays as it is. *)
PowerOff ==
    /\ pc # "none" /\ Attempt(TRUE)
    /\ Finish /\ last' = 2
    /\ past' = past \cup {"leaked"} \cup (IF OldFreed THEN {"freed"} ELSE {})
                   \cup (IF pc \in {"slots", "zero", "erase"} THEN {"torn"} ELSE {})
    /\ UNCHANGED <<disk, stored>>

Write(bad) == \/ FreeChainStep(bad) \/ Allocate(bad) \/ LinkCluster(bad) \/ WriteCluster(bad)
              \/ UpdateEntry(bad) \/ Expand(bad) \/ LinkTail(bad) \/ ZeroTail(bad)
              \/ WriteSlot(bad) \/ EraseEntry(bad)

Next == \/ /\ pc = "none"
           /\ \/ \E d \in Opened, n \in Names, len \in Lengths : WriteFile(d, n, len)
              \/ \E n \in Names : CreateDirectory(n)
              \/ \E d \in Opened, n \in Names : DeleteFile(d, n)
        \/ FindRoom \/ PowerOff
        \/ \E bad \in BOOLEAN : Write(bad)

Spec == Init /\ [][Next]_vars

-----------------------------------------------------------------------------
TypeOK ==
    /\ fat \in [Cluster -> {0, EOF} \cup Cluster] /\ fat[Root] # 0
    /\ \A c \in Cluster : data[c][2] \in 0 .. MaxCluster /\ Len(dir[c]) = Slots
    /\ last \in 2 .. MaxCluster
    /\ {first, prev, old, call.chain} \subseteq {0} \cup Cluster
    /\ k \in 0 .. Slots + MaxCluster

(* The chains of the entries of directory d, of the root and of the call under way. *)
ChainsIn(d) ==
    LET es == Entries(d)
    IN  {<<Place(d, j), es[j].first>> :
            j \in {i \in 1 .. Len(es) : IsEntry(es[i]) /\ ~(call.hit /\ Place(d, i) = at)}}

Chains == {<<<<0, 1>>, Root>>, <<<<0, 2>>, first>>} \cup UNION {ChainsIn(d) : d \in Parents}

Clusters(h) == Range(Chain(h[2]))

Disjoint(hs) == \A x, y \in {<<h, Clusters(h)>> : h \in hs} : x # y => x[2] \cap y[2] = {}

(* A cluster is in one chain only, and none of a chain is free: FatAllocateCluster
   does not hand out what a file still uses.  The exceptions are calls that end,
   by an error or without power, with the clusters of an entry freed, directories
   half written, and writes to the FAT that fail unnoticed. *)
NoClusterShared ==
    past \cap {"freed", "torn", "lost"} = {} =>
        LET hs == Chains
        IN  Disjoint(hs) /\ \A h \in hs : \A c \in Clusters(h) : fat[c] # 0

(* Fat32WriteFile says it frees the old clusters first so that FatAllocateCluster
   never returns one that still holds the data of a file: with no write failing
   and no power lost, files should never share a cluster. *)
NoFileShares == faults = 0 => Disjoint(Chains)

(* What OPENFILE and READ find under a name is what was last written under its 8.3
   form, whole, whatever other calls are under way or were given up: opening,
   writing and deleting look entries up in three different ways.  Only a file
   behind the entries Fat32OpenPath looks at, which WRITEFILE and DELETE do find,
   is never found. *)
Reads(d, n) ==
    LET j  == OpenFinds(d, n)
        e  == Entries(d)[j]
        ch == Chain(e.first)
    IN  IF j = 0 THEN Absent
        ELSE IF e.kind = "dir" THEN Absent
        ELSE [i \in 1 .. Min({e.size, Len(ch)}) |-> data[ch[i]]]

Behind(d, n) == LET j == WriteFinds(d, n)
                IN  j # 0 /\ ~InReach(Entries(d), j)

ReadsBack ==
    past \subseteq {"leaked"} =>
        \A d \in Parents \ {call.chain}, n \in Names :
            (pc # "none" /\ call.op # "none" => <<call.dir, Short[call.name]>> # <<d, Short[n]>>)
            => Reads(d, n) = IF Behind(d, n) THEN Absent ELSE stored[d][Short[n]]

(* Between calls every cluster that is not free is in a chain. *)
NoLeak == pc = "none" /\ past = {} =>
              {c \in Cluster : fat[c] # 0} = UNION {Clusters(h) : h \in Chains}

(* A directory never has two entries of the same 8.3 name, unless MKDIR makes the
   second because the first is behind those Fat32OpenPath looks at. *)
NamesUnique ==
    past \subseteq {"leaked"} =>
        \A d \in Parents :
            LET es == Entries(d)
            IN  \A i, j \in 1 .. Len(es) :
                    i # j /\ IsEntry(es[i]) /\ IsEntry(es[j]) => es[i].name # es[j].name
============================================================================
