---------------------------- MODULE DevicesProofs ----------------------------
(***************************************************************************)
(* The drivers next to each other: the sound stream, the disks, and the    *)
(* network card with a name being resolved.  Each has an inductive         *)
(* invariant of its own, which the steps of the others leave alone.        *)
(***************************************************************************)
EXTENDS MCDevices, Sequences, WellFoundedInduction, TLAPS

-----------------------------------------------------------------------------
(* The sound stream: sounds of any size, ticks of any length. *)

SoundPlaces == {"none", "stop", "reset", "unmark", "prepare", "length", "start",
                "mark", "bytes", "tick", "duration"}

SoundType ==
    /\ run \in BOOLEAN /\ pos \in Nat /\ len \in Nat /\ bcis \in BOOLEAN
    /\ playing \in BOOLEAN /\ bytes_to_play \in Nat
    /\ start_tick \in Nat /\ duration_ticks \in Nat
    /\ time \in Nat /\ soundPc \in SoundPlaces /\ size \in Sizes \cup {0}
    /\ orphan \in BOOLEAN /\ rushed \in BOOLEAN /\ cut \in BOOLEAN

(* Where HdaPlayBuffer and HdaStop have the stream stopped, unmarked, rewound. *)
SoundCall ==
    /\ soundPc = "none" => size = 0
    /\ soundPc \in {"prepare", "length", "start", "mark", "bytes", "tick", "duration"} => size # 0
    /\ soundPc \in {"reset", "unmark", "length", "start"} => ~run
    /\ soundPc \in {"prepare", "length", "start", "mark"} => ~playing
    /\ soundPc \in {"length", "start"} => pos = 0
    /\ soundPc = "start" => len = size
    /\ run /\ soundPc \in {"mark", "bytes", "tick", "duration"} => len = size

(* A stream that has not said BCIS has played from its start without a break: it
   started at the time time - pos. *)
SoundStream == run => pos < len /\ (~bcis => pos <= time)

(* What HdaPoll goes by, as far as it is set. *)
SoundMark ==
    run /\ playing /\ ~rushed =>
        /\ soundPc # "bytes" => bytes_to_play = len
        /\ soundPc \notin {"bytes", "tick"} /\ ~bcis => start_tick >= (time - pos) \div Rate
        /\ soundPc \notin {"bytes", "tick", "duration"} => duration_ticks = Sound!Duration(len)

SoundInv ==
    /\ Sound!HdaAssumption /\ SoundType
    /\ SoundCall /\ SoundStream /\ SoundMark
    /\ Sound!RunIsWatched /\ Sound!PlaysToTheEnd

-----------------------------------------------------------------------------
(* Ticks are counted by rounding down. *)

LEMMA DivBounds ==
    ASSUME NEW a \in Nat, NEW r \in Nat \ {0}
    PROVE  /\ a \div r \in Nat
           /\ r * (a \div r) <= a /\ a < r * (a \div r) + r
BY Z3

LEMMA DivMonotone ==
    ASSUME NEW a \in Nat, NEW b \in Nat, NEW r \in Nat \ {0}, a <= b
    PROVE  a \div r <= b \div r
<1> DEFINE p == a \div r
           q == b \div r
<1>1. /\ p \in Nat /\ r * p <= a /\ a < r * p + r
      /\ q \in Nat /\ r * q <= b /\ b < r * q + r
  BY DivBounds
<1> HIDE DEF p, q
<1>2. ASSUME q < p PROVE FALSE
  <2>1. r * (q + 1) <= r * p
    BY <1>1, <1>2
  <2> QED  BY <1>1, <2>1
<1>3. p <= q
  BY <1>1, <1>2
<1> QED  BY <1>3 DEF p, q

(* A sound of n slices that starts at s has ended before the tick HdaPoll waits for. *)
LEMMA DurationIsEnough ==
    ASSUME NEW s \in Nat, NEW n \in Nat, NEW t \in Nat, NEW r \in Nat \ {0}, t < s + n
    PROVE  t \div r < s \div r + (n \div r + 2)
<1> DEFINE p == s \div r
           q == n \div r
           u == t \div r
<1>1. /\ p \in Nat /\ s < r * p + r
      /\ q \in Nat /\ n < r * q + r
      /\ u \in Nat /\ r * u <= t
  BY DivBounds
<1> HIDE DEF p, q, u
<1>2. ASSUME u >= p + q + 2 PROVE FALSE
  <2>1. r * (p + q + 2) <= r * u
    BY <1>1, <1>2
  <2>2. r * (p + q + 2) = r * p + r * q + r + r
    BY <1>1
  <2> QED  BY <1>1, <2>1, <2>2
<1>3. u < p + q + 2
  BY <1>1, <1>2
<1> QED  BY <1>3 DEF p, q, u

-----------------------------------------------------------------------------
(* At boot nothing plays. *)
LEMMA SoundInit == Sound!HdaAssumption /\ Sound!Init => SoundInv
<1> SUFFICES ASSUME Sound!HdaAssumption, Sound!Init PROVE SoundInv
  OBVIOUS
<1>1. SoundType
  BY DEF Sound!Init, SoundType, SoundPlaces
<1> QED  BY <1>1 DEF Sound!Init, SoundInv, SoundCall, SoundStream, SoundMark,
                     Sound!RunIsWatched, Sound!PlaysToTheEnd

(* HdaPlayBuffer and HdaStop, whose stops come before the mark is taken away and
   whose start comes before it is set. *)
LEMMA SoundCallInv == SoundInv /\ Sound!Call => SoundInv'
<1> SUFFICES ASSUME SoundInv, Sound!Call PROVE SoundInv'
  OBVIOUS
<1> USE DEF SoundInv, SoundType, SoundPlaces, SoundCall, SoundStream, Sound!RunIsWatched,
            Sound!PlaysToTheEnd, SoundMark,
            Sound!stream, Sound!g_hda, Sound!past, Sound!HdaAssumption
<1>1. CASE \E n \in Sizes : Sound!PlayBuffer(n)
  BY <1>1 DEF Sound!PlayBuffer
<1>2. CASE Sound!Stop
  BY <1>2 DEF Sound!Stop
<1>3. CASE Sound!ClearRun
  BY <1>3 DEF Sound!ClearRun
<1>4. CASE Sound!ResetStopped
  BY <1>4 DEF Sound!ResetStopped, Sound!Reset
<1>5. CASE Sound!Unmark
  BY <1>5 DEF Sound!Unmark
<1>6. CASE Sound!Prepare
  BY <1>6 DEF Sound!Prepare, Sound!Reset
<1>7. CASE Sound!SetLength
  BY <1>7 DEF Sound!SetLength
<1>8. CASE Sound!Start
  BY <1>8 DEF Sound!Start
<1>9. CASE Sound!Mark
  BY <1>9 DEF Sound!Mark
<1>10. CASE Sound!SetBytes
  BY <1>10 DEF Sound!SetBytes
<1>11. CASE Sound!SetTick
  <2>1. Sound!Ticks \in Nat
    BY DivBounds DEF Sound!Ticks
  <2>2. ASSUME run, ~bcis PROVE Sound!Ticks >= (time - pos) \div Rate
    BY <2>2, DivMonotone DEF Sound!Ticks
  <2> QED  BY <1>11, <2>1, <2>2 DEF Sound!SetTick
<1>12. CASE Sound!SetDuration
  <2>1. size \div Rate \in Nat
    BY DivBounds
  <2>2. Sound!Duration(size) \in Nat
    BY <2>1 DEF Sound!Duration
  <2> QED  BY <1>12, <2>2 DEF Sound!SetDuration
<1> QED  BY <1>1, <1>2, <1>3, <1>4, <1>5, <1>6, <1>7, <1>8, <1>9, <1>10, <1>11,
         <1>12 DEF Sound!Call

(* A kill leaves a stream that runs unwatched only between its start and its mark. *)
LEMMA SoundKillInv == SoundInv /\ Sound!Kill => SoundInv'
BY DEF Sound!Kill, SoundInv, SoundType, SoundPlaces, SoundCall, SoundStream, SoundMark,
       Sound!RunIsWatched, Sound!PlaysToTheEnd,
       Sound!stream, Sound!g_hda, Sound!HdaAssumption

(* What the slice of time does to a stream that runs. *)
LEMMA SoundPassInv == SoundInv /\ Sound!Pass => SoundInv'
<1> SUFFICES ASSUME SoundInv, Sound!Pass PROVE SoundInv'
  OBVIOUS
<1> DEFINE at == IF ~run THEN pos ELSE IF pos + 1 = len THEN 0 ELSE pos + 1
           over == bcis \/ (run /\ pos + 1 = len)
           tick == time' \div Rate
<1>1. /\ time' = time + 1
      /\ IF time' % Rate = 0 THEN Sound!Poll(at, over, tick)
         ELSE pos' = at /\ bcis' = over /\ UNCHANGED <<run, playing, cut, rushed>>
      /\ UNCHANGED <<len, bytes_to_play, start_tick, duration_ticks, soundPc, size, orphan>>
  BY DEF Sound!Pass
<1>2. at \in Nat /\ over \in BOOLEAN /\ tick \in Nat
  BY <1>1, DivBounds DEF SoundInv, SoundType, Sound!HdaAssumption
<1>3. run => at < len
  BY DEF SoundInv, SoundType, SoundStream
<1>4. run /\ ~over => at = pos + 1 /\ at <= time + 1
  BY DEF SoundInv, SoundType, SoundStream
<1>5. run /\ ~over => ~bcis /\ time + 1 - at = time - pos
  BY <1>4 DEF SoundInv, SoundType
<1>6. ASSUME run, playing, ~rushed, ~over, soundPc \notin {"bytes", "tick", "duration"}
      PROVE  at < bytes_to_play /\ tick < start_tick + duration_ticks
  <2>1. soundPc # "mark"
    BY <1>6 DEF SoundInv, SoundCall
  <2>2. /\ bytes_to_play = len /\ duration_ticks = len \div Rate + 2
        /\ start_tick >= (time - pos) \div Rate
    BY <1>5, <1>6 DEF SoundInv, SoundMark, Sound!Duration
  <2>3. time - pos \in Nat /\ time' \in Nat /\ time' < (time - pos) + len
    BY <1>1, <1>3, <1>4, <1>6 DEF SoundInv, SoundType
  <2>4. tick < (time - pos) \div Rate + (len \div Rate + 2)
    BY <2>3, DurationIsEnough DEF SoundInv, SoundType, Sound!HdaAssumption
  <2>5. (time - pos) \div Rate \in Nat /\ len \div Rate \in Nat
    BY <2>3, DivBounds DEF SoundInv, SoundType, Sound!HdaAssumption
  <2> HIDE DEF tick, at
  <2> QED  BY <1>2, <1>3, <1>6, <2>2, <2>4, <2>5 DEF SoundInv, SoundType
<1> HIDE DEF at, over, tick
<1>7. ASSUME pos' = at, bcis' = over, UNCHANGED <<run, playing, cut, rushed>> PROVE SoundInv'
  <2>1. SoundType'
    BY <1>1, <1>2, <1>7 DEF SoundInv, SoundType
  <2>2. SoundCall'
    BY <1>1, <1>7, ~run => at = pos DEF SoundInv, SoundCall, at
  <2>3. SoundStream'
    BY <1>1, <1>3, <1>4, <1>7 DEF SoundInv, SoundType, SoundStream
  <2>4. SoundMark'
    <3>1. ASSUME run, playing, ~rushed
          PROVE  /\ soundPc # "bytes" => bytes_to_play = len
                 /\ soundPc \notin {"bytes", "tick"} /\ ~over =>
                        start_tick >= (time + 1 - at) \div Rate
                 /\ soundPc \notin {"bytes", "tick", "duration"} =>
                        duration_ticks = len \div Rate + 2
      BY <1>5, <3>1 DEF SoundInv, SoundMark, Sound!Duration
    <3> QED  BY <1>1, <1>2, <1>7, <3>1 DEF SoundInv, SoundType, SoundMark, Sound!Duration
  <2> QED  BY <1>1, <1>7, <2>1, <2>2, <2>3, <2>4
           DEF SoundInv, Sound!HdaAssumption, Sound!RunIsWatched, Sound!PlaysToTheEnd
<1>8. CASE time' % Rate = 0
  <2>1. Sound!Poll(at, over, tick)
    BY <1>1, <1>8
  <2>2. CASE playing /\ (over \/ at >= bytes_to_play \/ tick >= start_tick + duration_ticks)
    <3>1. /\ run' = FALSE /\ pos' = 0 /\ bcis' = FALSE /\ playing' = FALSE
          /\ cut' = (cut \/ (run /\ ~over))
          /\ rushed' = (rushed \/ soundPc \in {"bytes", "tick", "duration"})
      BY <2>1, <2>2 DEF Sound!Poll
    <3>2. SoundType'
      <4>1. cut' \in BOOLEAN /\ rushed' \in BOOLEAN
        BY <3>1
      <4>2. time' \in Nat
        BY <1>1 DEF SoundInv, SoundType
      <4> QED  BY <1>1, <3>1, <4>1, <4>2 DEF SoundInv, SoundType
    <3>3. Sound!PlaysToTheEnd'
      BY <1>2, <1>6, <2>2, <3>1 DEF SoundInv, SoundType, Sound!PlaysToTheEnd
    <3> QED  BY <1>1, <3>1, <3>2, <3>3
             DEF SoundInv, Sound!HdaAssumption, SoundCall, SoundStream, SoundMark,
                 Sound!RunIsWatched
  <2>3. CASE ~(playing /\ (over \/ at >= bytes_to_play \/ tick >= start_tick + duration_ticks))
    <3>1. pos' = at /\ bcis' = over /\ UNCHANGED <<run, playing, cut, rushed>>
      BY <2>1, <2>3 DEF Sound!Poll
    <3> QED  BY <3>1, <1>7
  <2> QED  BY <2>2, <2>3
<1>9. CASE time' % Rate # 0
  <2>1. pos' = at /\ bcis' = over /\ UNCHANGED <<run, playing, cut, rushed>>
    BY <1>1, <1>9
  <2> QED  BY <2>1, <1>7
<1> QED  BY <1>8, <1>9

LEMMA SoundNextInv == SoundInv /\ [Sound!Next]_sound => SoundInv'
<1>1. SoundInv /\ UNCHANGED sound => SoundInv'
  BY DEF sound, SoundInv, Sound!HdaAssumption, SoundType, SoundCall, SoundStream, SoundMark,
         Sound!RunIsWatched, Sound!PlaysToTheEnd
<1> QED  BY <1>1, SoundCallInv, SoundKillInv, SoundPassInv DEF Sound!Next

LEMMA SoundAlways == Spec => []SoundInv
<1>1. Init => SoundInv
  BY SoundInit, DevicesAssumption DEF Init
<1>2. SoundInv /\ [Next]_vars => SoundInv'
  BY SoundNextInv DEF Next, vars
<1> QED  BY <1>1, <1>2, PTL DEF Spec

(* HdaPoll watches every stream that runs, but for the step of HdaPlayBuffer
   between its start and its mark, and for a call killed there. *)
THEOREM StreamsAreWatched == Spec => []RunIsWatched
<1>1. SoundInv => RunIsWatched
  BY DEF SoundInv, RunIsWatched
<1> QED  BY <1>1, SoundAlways, PTL

(* HdaPoll cuts no sound short, whatever its size and wherever in a tick it starts,
   unless it comes, or a kill, while HdaPlayBuffer sets what it goes by: the duration
   HdaPlayBuffer computes outlasts the sound. *)
THEOREM SoundsPlayToTheEnd == Spec => []PlaysToTheEnd
<1>1. SoundInv => PlaysToTheEnd
  BY DEF SoundInv, PlaysToTheEnd
<1> QED  BY <1>1, SoundAlways, PTL

-----------------------------------------------------------------------------
(* The disks: queues of any size, any number of pages and of commands. *)

SqSlot == 0 .. SqSize - 1
CqSlot == 0 .. CqSize - 1
AtaStates == {"idle", "reading", "asking", "taking", "data", "error"}

DiskType ==
    /\ driver \in {"ahci", "nvme", "ata"}
    /\ id \in 0 .. MaxId /\ op \in {"read", "write"} /\ page \in Pages \cup {0}
    /\ diskPc \in {"none", "submit", "wait", "flush", "end"} /\ result \in {"none", "ok", "bad"}
    /\ free \subseteq Pages
    /\ sq \in [SqSlot -> 0 .. MaxId] /\ tail \in SqSlot /\ head \in SqSlot
    /\ cq \in [CqSlot -> [cid : 0 .. MaxId, phase : {0, 1}, good : BOOLEAN]]
    /\ cqHead \in CqSlot /\ cqTail \in CqSlot /\ phase \in {0, 1} /\ cqPhase \in {0, 1}
    /\ inflight \subseteq 0 .. MaxId
    /\ ci \in BOOLEAN /\ is \in BOOLEAN /\ running \in 0 .. MaxId /\ ata \in AtaStates
    /\ pageOf \in [Disk!Id -> Pages \cup {0}] /\ done \subseteq 0 .. MaxId /\ stray \in BOOLEAN
    /\ diskPast \subseteq {"late", "untested", "overlap", "unseen"}

(* A driver that was not found stands still. *)
DiskDriver ==
    /\ driver # "nvme" => inflight = {} /\ head = tail
    /\ driver # "ahci" => ~ci /\ ~is
    /\ driver # "ata" => ata = "idle" /\ diskPc # "flush"
    /\ driver = "nvme" => running = 0

(* The good answers of NVMe are true; while the bit of the AHCI slot is set its command
   runs or has failed; the ATA device works for the call that waits for it. *)
DiskAnswers ==
    /\ \A i \in CqSlot : cq[i].good => cq[i].cid \in done
    /\ driver = "ahci" /\ running # 0 => ci
    /\ driver = "ahci" /\ diskPc = "wait" /\ "overlap" \notin diskPast =>
           IF ci THEN running \in {0, id} ELSE id \in done
    /\ driver = "ata" /\ diskPc \in {"wait", "flush"} => running = id
    /\ driver = "ata" /\ diskPc = "wait" /\ op = "read" =>
           ata \in {"reading", "data", "error"} /\ (ata = "data" => id \in done)
    /\ driver = "ata" /\ diskPc = "wait" /\ op = "write" => ata \in {"asking", "data", "error"}
    /\ diskPc = "flush" => ata \in {"taking", "idle", "error"} /\ (ata = "idle" => id \in done)

-----------------------------------------------------------------------------
(* The commands a device has not finished. *)

Pending == {i \in SqSlot : IF head <= tail THEN head <= i /\ i < tail ELSE head <= i \/ i < tail}

Live == {sq[i] : i \in Pending} \cup inflight \cup (IF driver = "ahci" THEN {running} \ {0} ELSE {})

(* A command is in one place, and was there once: also when the submission queue was
   overrun. *)
DiskPlaces ==
    /\ \A i, j \in Pending : sq[i] = sq[j] => i = j
    /\ \A i \in Pending : sq[i] \notin inflight
    /\ \A i \in CqSlot : cq[i].cid \notin Live
    /\ \A i \in CqSlot : cq[i].cid \in 0 .. id /\ (diskPc = "submit" => cq[i].cid # id)
    /\ Live \subseteq 1 .. id
    /\ diskPc = "submit" => id \notin Live
    /\ driver = "ahci" /\ is => running = 0
    /\ Disk!Busy => running # 0

DiskPages ==
    /\ page \notin free
    /\ driver = "ata" => page = 0 /\ \A c \in Disk!Id : pageOf[c] = 0
    /\ driver # "ata" => \A c \in 1 .. id : pageOf[c] \in Pages
    /\ diskPc # "none" => id \in Disk!Id /\ pageOf[id] = page
    /\ diskPc = "none" => page = 0
    /\ "late" \notin diskPast =>
           /\ \A c \in Live : pageOf[c] \notin free /\ (pageOf[c] = page => c = id)
           /\ diskPc = "end" => id \notin Live

DiskInv ==
    /\ Disk!StorageAssumption /\ DiskType /\ DiskDriver /\ DiskAnswers /\ DiskPlaces /\ DiskPages
    /\ Disk!SuccessIsDone /\ Disk!PagesAreOwn

-----------------------------------------------------------------------------
(* Indexes of the queues wrap. *)
LEMMA NextSlot ==
    ASSUME NEW n \in Nat \ {0}, NEW i \in 0 .. n - 1
    PROVE  (i + 1) % n = IF i + 1 = n THEN 0 ELSE i + 1
<1>1. CASE i + 1 = n
  BY <1>1
<1>2. CASE i + 1 < n
  BY <1>2
<1> QED  BY <1>1, <1>2

(* A command more in the submission queue, or the queue looks empty. *)
LEMMA PendingSubmit ==
    ASSUME Disk!StorageAssumption, head \in SqSlot, tail \in SqSlot,
           head' = head, tail' = (tail + 1) % SqSize
    PROVE  /\ tail' \in SqSlot /\ tail \notin Pending
           /\ Pending' = IF tail' = head THEN {} ELSE Pending \cup {tail}
<1>1. tail' = IF tail + 1 = SqSize THEN 0 ELSE tail + 1
  BY NextSlot DEF Disk!StorageAssumption, SqSlot
<1> QED  BY <1>1 DEF Disk!StorageAssumption, SqSlot, Pending

(* The controller takes the oldest. *)
LEMMA PendingFetch ==
    ASSUME Disk!StorageAssumption, head \in SqSlot, tail \in SqSlot, head # tail,
           head' = (head + 1) % SqSize, tail' = tail
    PROVE  /\ head' \in SqSlot /\ head \in Pending
           /\ Pending' = Pending \ {head}
<1>1. head' = IF head + 1 = SqSize THEN 0 ELSE head + 1
  BY NextSlot DEF Disk!StorageAssumption, SqSlot
<1> QED  BY <1>1 DEF Disk!StorageAssumption, SqSlot, Pending

(* Only queues and slots hold commands. *)
LEMMA NoneLive ==
    ASSUME Disk!StorageAssumption, DiskType, DiskDriver
    PROVE  driver # "nvme" => Pending = {} /\ Live = IF driver = "ahci" THEN {running} \ {0} ELSE {}
<1>1. ASSUME driver # "nvme" PROVE Pending = {} /\ inflight = {}
  BY <1>1 DEF DiskDriver, Pending, DiskType, SqSlot, Disk!StorageAssumption
<1> QED  BY <1>1 DEF Live

(* Nothing of a device moves. *)
LEMMA LiveSame ==
    ASSUME UNCHANGED <<driver, sq, head, tail, inflight, running>>
    PROVE  Pending' = Pending /\ Live' = Live
BY DEF Pending, Live

-----------------------------------------------------------------------------
(* At boot nothing is under way. *)
LEMMA DiskInit == Disk!StorageAssumption /\ Disk!Init => DiskInv
<1> SUFFICES ASSUME Disk!StorageAssumption, Disk!Init PROVE DiskInv
  OBVIOUS
<1>1. DiskType
  <2>1. /\ sq \in [SqSlot -> 0 .. MaxId] /\ pageOf \in [Disk!Id -> Pages \cup {0}]
        /\ cq \in [CqSlot -> [cid : 0 .. MaxId, phase : {0, 1}, good : BOOLEAN]]
    BY DEF Disk!Init, Disk!StorageAssumption, SqSlot, CqSlot, Disk!NoEntry
  <2>2. tail \in SqSlot /\ head \in SqSlot /\ cqHead \in CqSlot /\ cqTail \in CqSlot
    BY DEF Disk!Init, Disk!StorageAssumption, SqSlot, CqSlot
  <2>3. /\ id \in 0 .. MaxId /\ running \in 0 .. MaxId /\ phase \in {0, 1} /\ cqPhase \in {0, 1}
        /\ inflight \subseteq 0 .. MaxId /\ done \subseteq 0 .. MaxId
    BY DEF Disk!Init, Disk!StorageAssumption
  <2> QED  BY <2>1, <2>2, <2>3 DEF Disk!Init, DiskType, AtaStates
<1>2. \A i \in CqSlot : cq[i].cid = 0 /\ ~cq[i].good
  BY DEF Disk!Init, Disk!NoEntry, CqSlot
<1>3. Pending = {} /\ Live = {}
  BY DEF Disk!Init, Pending, Live, Disk!StorageAssumption, SqSlot
<1>4. DiskDriver /\ DiskAnswers
  BY <1>2 DEF Disk!Init, DiskDriver, DiskAnswers
<1>5. DiskPlaces
  BY <1>3, <1>2 DEF Disk!Init, DiskPlaces, Disk!Busy, Disk!StorageAssumption
<1>6. DiskPages
  <2>1. 1 .. id = {}
    BY DEF Disk!Init
  <2> QED  BY <1>3, <2>1 DEF Disk!Init, DiskPages, Disk!StorageAssumption
<1> QED  BY <1>1, <1>4, <1>5, <1>6 DEF Disk!Init, DiskInv, Disk!SuccessIsDone, Disk!PagesAreOwn

(* A call begins with an id no device has seen, and a page no device uses. *)
LEMMA DiskBeginInv == ASSUME DiskInv, NEW o \in {"read", "write"}, Disk!Begin(o) PROVE DiskInv'
<1> USE DEF DiskInv
<1>1. /\ diskPc = "none" /\ id < MaxId /\ id' = id + 1 /\ op' = o /\ diskPc' = "submit"
      /\ result' = "none" /\ pageOf' = [pageOf EXCEPT ![id'] = page']
      /\ UNCHANGED <<driver, Disk!devices, done, stray, diskPast>>
  BY DEF Disk!Begin
<1>2. \/ driver = "ata" /\ page' = 0 /\ UNCHANGED free
      \/ driver # "ata" /\ page' \in free /\ free' = free \ {page'}
  BY DEF Disk!Begin
<1>3. /\ id' \in Disk!Id /\ Disk!Id = 1 .. MaxId /\ 1 .. id \subseteq Disk!Id /\ 1 .. id' = 1 .. id \cup {id'}
      /\ id' \notin 1 .. id /\ 1 .. id' \subseteq Disk!Id
  BY <1>1 DEF DiskType, Disk!StorageAssumption, Disk!Id
<1>4. DiskType'
  BY <1>1, <1>2, <1>3 DEF DiskType, Disk!devices, Disk!g_nvme, Disk!controller, Disk!port,
                          SqSlot, CqSlot
<1>5. Pending' = Pending /\ Live' = Live
  BY <1>1, LiveSame DEF Disk!devices, Disk!g_nvme, Disk!controller, Disk!port
<1>6. DiskDriver' /\ DiskAnswers'
  BY <1>1 DEF DiskDriver, DiskAnswers, Disk!devices, Disk!g_nvme, Disk!controller, Disk!port,
              CqSlot
<1>7. DiskPlaces'
  <2>1. \A i \in CqSlot : cq[i].cid \in 0 .. id /\ cq[i].cid \in 0 .. id' /\ cq[i].cid # id'
    BY <1>1 DEF DiskPlaces, DiskType, Disk!StorageAssumption
  <2> QED  BY <1>1, <1>3, <1>5, <2>1 DEF DiskPlaces, Disk!Busy, Disk!devices, Disk!g_nvme,
                                         Disk!controller, Disk!port
<1>8. DiskPages'
  <2>1. pageOf'[id'] = page' /\ \A c \in Disk!Id \ {id'} : pageOf'[c] = pageOf[c]
    BY <1>1, <1>3 DEF DiskType
  <2>2. Live \subseteq 1 .. id /\ id' \notin Live
    BY <1>3 DEF DiskPlaces
  <2>3. CASE driver = "ata"
    <3>1. page' = 0 /\ UNCHANGED free
      BY <1>2, <2>3
    <3>2. Live = {}
      BY <2>3, NoneLive
    <3> QED  BY <1>1, <1>3, <1>5, <2>1, <2>3, <3>1, <3>2 DEF DiskPages, DiskType,
         Disk!StorageAssumption
  <2>4. CASE driver # "ata"
    <3>1. page' \in free /\ free' = free \ {page'} /\ page' \in Pages /\ driver' # "ata"
      BY <1>1, <1>2, <2>4 DEF DiskType
    <3>2. \A c \in 1 .. id' : pageOf'[c] \in Pages
      BY <1>3, <2>1, <2>4, <3>1 DEF DiskPages
    <3>3. ASSUME "late" \notin diskPast, NEW c \in Live
          PROVE  pageOf'[c] \notin free' /\ pageOf'[c] # page'
      BY <1>3, <2>1, <2>2, <3>1, <3>3 DEF DiskPages
    <3> QED  BY <1>1, <1>3, <1>5, <2>1, <3>1, <3>2, <3>3 DEF DiskPages
  <2> QED  BY <2>3, <2>4
<1> QED  BY <1>1, <1>4, <1>6, <1>7, <1>8 DEF Disk!SuccessIsDone, Disk!PagesAreOwn

-----------------------------------------------------------------------------
(* Steps of a call that move no command. *)
LEMMA DiskCallStays ==
    ASSUME DiskInv, UNCHANGED <<driver, id, sq, head, tail, inflight, running, cq>>,
           diskPc' # "submit", driver = "ahci" => (is' => is), ata' \in {ata, "idle", "taking"},
           ata' = "taking" => running # 0
    PROVE  Live' = Live /\ DiskPlaces'
<1>1. Pending' = Pending /\ Live' = Live
  BY LiveSame
<1> QED  BY <1>1 DEF DiskInv, DiskPlaces, Disk!Busy

(* Steps of a call that keep its page. *)
LEMMA DiskPageStays ==
    ASSUME DiskInv, UNCHANGED <<driver, id, page, free, pageOf>>, Live' = Live, diskPast \subseteq diskPast',
           diskPc # "none", diskPc' # "none",
           diskPc' = "end" => "late" \in diskPast' \/ id \notin Live
    PROVE  DiskPages'
BY DEF DiskInv, DiskPages

(* The page goes back: no device has the command any more, or it was given up. *)
LEMMA DiskEndInv == DiskInv /\ Disk!End => DiskInv'
<1> SUFFICES ASSUME DiskInv, Disk!End PROVE DiskInv'
  OBVIOUS
<1>1. /\ diskPc = "end" /\ diskPc' = "none" /\ page' = 0 /\ free' = free \cup ({page} \ {0})
      /\ UNCHANGED <<driver, id, op, result, Disk!devices, Disk!history>>
  BY DEF Disk!End
<1>2. DiskType'
  <2>1. free' \subseteq Pages
    BY <1>1 DEF DiskInv, DiskType
  <2> QED  BY <1>1, <2>1 DEF DiskInv, DiskType, Disk!devices, Disk!g_nvme, Disk!controller,
                             Disk!port, Disk!history
<1>3. Live' = Live /\ DiskPlaces'
  BY <1>1, DiskCallStays DEF DiskInv, Disk!devices, Disk!g_nvme, Disk!controller, Disk!port,
                             DiskPlaces, Disk!Busy
<1>4. DiskDriver' /\ DiskAnswers'
  BY <1>1 DEF DiskInv, DiskDriver, DiskAnswers, Disk!devices, Disk!g_nvme, Disk!controller,
              Disk!port, Disk!history
<1>5. DiskPages'
  <2>1. 0 \notin free'
    BY <1>1 DEF DiskInv, Disk!StorageAssumption, DiskType
  <2>2. ASSUME "late" \notin diskPast, NEW c \in Live PROVE pageOf[c] \notin free' /\ pageOf[c] # 0
    <3>1. pageOf[c] \notin free /\ pageOf[c] # page
      BY <1>1, <2>2 DEF DiskInv, DiskPages
    <3>2. c \in 1 .. id
      BY DEF DiskInv, DiskPlaces
    <3>3. driver # "ata"
      BY NoneLive DEF DiskInv
    <3>4. pageOf[c] \in Pages
      BY <3>2, <3>3 DEF DiskInv, DiskPages
    <3> QED  BY <1>1, <3>1, <3>4 DEF DiskInv, Disk!StorageAssumption
  <2> QED  BY <1>1, <1>3, <2>1, <2>2 DEF DiskInv, DiskPages, Disk!history
<1> QED  BY <1>1, <1>2, <1>3, <1>4, <1>5 DEF DiskInv, Disk!SuccessIsDone, Disk!PagesAreOwn,
         Disk!history

(* A killed call keeps its page from everybody. *)
LEMMA DiskKillInv == DiskInv /\ Disk!Kill => DiskInv'
<1> SUFFICES ASSUME DiskInv, Disk!Kill PROVE DiskInv'
  OBVIOUS
<1>1. /\ diskPc \in {"submit", "wait"} /\ diskPc' = "none" /\ page' = 0
      /\ UNCHANGED <<driver, id, op, result, free, Disk!devices, Disk!history>>
  BY DEF Disk!Kill
<1>2. DiskType'
  BY <1>1 DEF DiskInv, DiskType, Disk!devices, Disk!g_nvme, Disk!controller, Disk!port,
              Disk!history
<1>3. Live' = Live /\ DiskPlaces'
  BY <1>1, DiskCallStays DEF DiskInv, Disk!devices, Disk!g_nvme, Disk!controller, Disk!port,
                             DiskPlaces, Disk!Busy
<1>4. DiskDriver' /\ DiskAnswers'
  BY <1>1 DEF DiskInv, DiskDriver, DiskAnswers, Disk!devices, Disk!g_nvme, Disk!controller,
              Disk!port, Disk!history
<1>5. DiskPages'
  <2>1. 0 \notin free
    BY DEF DiskInv, Disk!StorageAssumption, DiskType
  <2>2. ASSUME "late" \notin diskPast, NEW c \in Live PROVE pageOf[c] \notin free /\ pageOf[c] # 0
    <3>1. pageOf[c] \notin free
      BY <1>1, <2>2 DEF DiskInv, DiskPages
    <3>2. c \in 1 .. id
      BY DEF DiskInv, DiskPlaces
    <3>3. driver # "ata"
      BY NoneLive DEF DiskInv
    <3>4. pageOf[c] \in Pages
      BY <3>2, <3>3 DEF DiskInv, DiskPages
    <3> QED  BY <3>1, <3>4 DEF DiskInv, Disk!StorageAssumption
  <2> QED  BY <1>1, <1>3, <2>1, <2>2 DEF DiskInv, DiskPages, Disk!history
<1> QED  BY <1>1, <1>2, <1>3, <1>4, <1>5 DEF DiskInv, Disk!SuccessIsDone, Disk!PagesAreOwn,
         Disk!history

(* A call that gives up is late, and AHCI's, which calls it a success, untested. *)
LEMMA DiskTimeOutInv == DiskInv /\ Disk!TimeOut => DiskInv'
<1> SUFFICES ASSUME DiskInv, Disk!TimeOut PROVE DiskInv'
  OBVIOUS
<1>1. /\ diskPc \in {"wait", "flush", "submit"} /\ diskPc' = "end"
      /\ result' = (IF driver = "ahci" THEN "ok" ELSE "bad")
      /\ diskPast' = diskPast \cup {"late"} \cup (IF driver = "ahci" THEN {"untested"} ELSE {})
      /\ UNCHANGED <<id, op, page, driver, free, Disk!devices, pageOf, done, stray>>
  BY DEF Disk!TimeOut, Disk!Finish
<1>2. DiskType'
  BY <1>1 DEF DiskInv, DiskType, Disk!devices, Disk!g_nvme, Disk!controller, Disk!port
<1>3. Live' = Live /\ DiskPlaces'
  BY <1>1, DiskCallStays DEF DiskInv, Disk!devices, Disk!g_nvme, Disk!controller, Disk!port,
                             DiskPlaces, Disk!Busy
<1>4. DiskDriver' /\ DiskAnswers'
  BY <1>1 DEF DiskInv, DiskDriver, DiskAnswers, Disk!devices, Disk!g_nvme, Disk!controller,
              Disk!port
<1>5. DiskPages'
  BY <1>1, <1>3, DiskPageStays
<1> QED  BY <1>1, <1>2, <1>3, <1>4, <1>5 DEF DiskInv, Disk!SuccessIsDone, Disk!PagesAreOwn

-----------------------------------------------------------------------------
(* The command goes to the tail of the queue: what was there, if the queue is overrun,
   is in no place any more. *)
LEMMA DiskNvmeSubmitInv == DiskInv /\ Disk!NvmeSubmit => DiskInv'
<1> SUFFICES ASSUME DiskInv, Disk!NvmeSubmit PROVE DiskInv'
  OBVIOUS
<1>1. /\ driver = "nvme" /\ diskPc = "submit" /\ diskPc' = "wait"
      /\ sq' = [sq EXCEPT ![tail] = id] /\ tail' = (tail + 1) % SqSize
      /\ UNCHANGED <<id, op, page, result, driver, free, cqHead, phase, head, cq, cqTail,
                     cqPhase, inflight, ci, is, running, ata, pageOf, done, stray, diskPast>>
  BY DEF Disk!NvmeSubmit, Disk!Goto, Disk!controller, Disk!port, Disk!history
<1>2. /\ tail \in SqSlot /\ tail' \in SqSlot /\ tail \notin Pending /\ Pending \subseteq SqSlot
      /\ Pending' = IF tail' = head THEN {} ELSE Pending \cup {tail}
  BY <1>1, PendingSubmit DEF DiskInv, DiskType, Pending
<1>3. /\ sq \in [SqSlot -> 0 .. MaxId] /\ sq' \in [SqSlot -> 0 .. MaxId] /\ sq'[tail] = id
      /\ \A i \in SqSlot \ {tail} : sq'[i] = sq[i]
  BY <1>1, <1>2 DEF DiskInv, DiskType
<1>4. DiskType'
  BY <1>1, <1>2, <1>3 DEF DiskInv, DiskType, SqSlot, CqSlot
<1>5. DiskDriver' /\ DiskAnswers'
  BY <1>1 DEF DiskInv, DiskDriver, DiskAnswers, CqSlot
<1>6. id \notin Live /\ id \in 1 .. id /\ Live' \subseteq Live \cup {id}
  <2>1. id \notin Live /\ id \in 1 .. id
    BY <1>1 DEF DiskInv, DiskPlaces, DiskPages, Disk!Id
  <2>2. Live' = {sq'[i] : i \in Pending'} \cup inflight
    BY <1>1 DEF Live
  <2>3. \A i \in Pending' : sq'[i] \in {sq[j] : j \in Pending} \cup {id}
    BY <1>2, <1>3
  <2> QED  BY <2>1, <2>2, <2>3 DEF Live
<1>7. DiskPlaces'
  <2>1. \A i, j \in Pending' : sq'[i] = sq'[j] => i = j
    <3>1. \A i \in Pending : sq[i] \in Live /\ sq[i] # id
      BY <1>6 DEF Live
    <3> QED  BY <1>2, <1>3, <3>1 DEF DiskInv, DiskPlaces
  <2>2. \A i \in Pending' : sq'[i] \notin inflight'
    BY <1>1, <1>2, <1>3, <1>6 DEF DiskInv, DiskPlaces, Live
  <2>3. \A i \in CqSlot : cq'[i].cid \notin Live'
    BY <1>1, <1>6 DEF DiskInv, DiskPlaces
  <2>4. Live' \subseteq 1 .. id
    BY <1>6 DEF DiskInv, DiskPlaces
  <2> QED  BY <1>1, <2>1, <2>2, <2>3, <2>4 DEF DiskInv, DiskPlaces, Disk!Busy
<1>8. DiskPages'
  BY <1>1, <1>6 DEF DiskInv, DiskPages
<1> QED  BY <1>1, <1>4, <1>5, <1>7, <1>8 DEF DiskInv, Disk!SuccessIsDone, Disk!PagesAreOwn

(* An answer is to the call that waits only if the command is in no other place. *)
LEMMA DiskNvmeLookInv == DiskInv /\ Disk!NvmeLook => DiskInv'
<1> SUFFICES ASSUME DiskInv, Disk!NvmeLook PROVE DiskInv'
  OBVIOUS
<1>1. /\ driver = "nvme" /\ diskPc = "wait"
      /\ cqHead' = (cqHead + 1) % CqSize
      /\ phase' = IF cqHead' = 0 THEN 1 - phase ELSE phase
      /\ UNCHANGED <<id, op, page, driver, free, sq, tail, head, cq, cqTail, cqPhase, inflight,
                     ci, is, running, ata, pageOf, done, stray, diskPast>>
      /\ \/ /\ cq[cqHead].cid = id /\ diskPc' = "end"
            /\ result' = IF cq[cqHead].good THEN "ok" ELSE "bad"
         \/ diskPc' = "wait" /\ UNCHANGED result
  BY DEF Disk!NvmeLook, Disk!Finish, Disk!Goto, Disk!Answers, Disk!controller, Disk!port,
         Disk!history
<1>2. cqHead \in CqSlot /\ cqHead' \in CqSlot
  <2>1. cqHead' = IF cqHead + 1 = CqSize THEN 0 ELSE cqHead + 1
    BY <1>1, NextSlot DEF DiskInv, DiskType, CqSlot, Disk!StorageAssumption
  <2> QED  BY <2>1 DEF DiskInv, DiskType, CqSlot, Disk!StorageAssumption
<1>3. DiskType'
  <2>1. phase' \in {0, 1}
    BY <1>1 DEF DiskInv, DiskType
  <2> QED  BY <1>1, <1>2, <2>1 DEF DiskInv, DiskType
<1>4. DiskDriver' /\ DiskAnswers'
  BY <1>1 DEF DiskInv, DiskDriver, DiskAnswers
<1>5. Live' = Live /\ DiskPlaces'
  BY <1>1, DiskCallStays DEF DiskInv, DiskPlaces, Disk!Busy
<1>6. DiskPages' /\ Disk!SuccessIsDone'
  <2>1. CASE cq[cqHead].cid = id /\ diskPc' = "end" /\ result' = IF cq[cqHead].good THEN "ok" ELSE "bad"
    <3>1. id \notin Live /\ (cq[cqHead].good => id \in done)
      BY <1>2, <2>1 DEF DiskInv, DiskPlaces, DiskAnswers
    <3> QED  BY <1>1, <1>5, <2>1, <3>1, DiskPageStays DEF Disk!SuccessIsDone
  <2>2. CASE diskPc' = "wait"
    BY <1>1, <1>5, <2>2, DiskPageStays DEF Disk!SuccessIsDone
  <2> QED  BY <1>1, <2>1, <2>2
<1> QED  BY <1>1, <1>3, <1>4, <1>5, <1>6 DEF DiskInv, Disk!PagesAreOwn

(* A command moves from the queue into the controller. *)
LEMMA DiskNvmeFetchInv == DiskInv /\ Disk!NvmeFetch => DiskInv'
<1> SUFFICES ASSUME DiskInv, Disk!NvmeFetch PROVE DiskInv'
  OBVIOUS
<1>1. /\ driver = "nvme" /\ head # tail
      /\ inflight' = inflight \cup {sq[head]} /\ head' = (head + 1) % SqSize
      /\ UNCHANGED <<id, op, page, diskPc, result, driver, free, sq, tail, cqHead, phase, cq, cqTail,
                     cqPhase, ci, is, running, ata, pageOf, done, stray, diskPast>>
  BY DEF Disk!NvmeFetch, Disk!call, Disk!g_nvme, Disk!port, Disk!history
<1>2. head' \in SqSlot /\ head \in SqSlot /\ head \in Pending /\ Pending' = Pending \ {head}
  BY <1>1, PendingFetch DEF DiskInv, DiskType
<1>3. DiskType'
  <2>1. inflight' \subseteq 0 .. MaxId
    BY <1>1, <1>2 DEF DiskInv, DiskType
  <2> QED  BY <1>1, <1>2, <2>1 DEF DiskInv, DiskType
<1>4. DiskDriver' /\ DiskAnswers'
  BY <1>1 DEF DiskInv, DiskDriver, DiskAnswers
<1>5. Live' = Live
  BY <1>1, <1>2 DEF Live
<1>6. DiskPlaces'
  BY <1>1, <1>2, <1>5 DEF DiskInv, DiskPlaces, Disk!Busy
<1>7. DiskPages'
  BY <1>1, <1>5 DEF DiskInv, DiskPages
<1> QED  BY <1>1, <1>3, <1>4, <1>6, <1>7 DEF DiskInv, Disk!SuccessIsDone, Disk!PagesAreOwn

(* A device that works for a live command reaches into no page but that command's. *)
LEMMA ExecuteOwn ==
    ASSUME DiskInv, NEW c \in Live, NEW good \in BOOLEAN, Disk!Execute(c, good)
    PROVE  Disk!PagesAreOwn' /\ done' = (IF good THEN done \cup {c} ELSE done) /\ stray' \in BOOLEAN
<1>1. "late" \notin diskPast => pageOf[c] \notin free /\ (pageOf[c] = page => c = id)
  BY DEF DiskInv, DiskPages
<1>2. /\ stray' = (stray \/ (pageOf[c] # 0 /\ (pageOf[c] \in free \/ (pageOf[c] = page /\ c # id))))
      /\ diskPast' = diskPast
  BY DEF Disk!Execute
<1>3. stray' \in BOOLEAN
  BY <1>2
<1> QED  BY <1>1, <1>2, <1>3 DEF Disk!Execute, DiskInv, Disk!PagesAreOwn

(* An answer is added behind the others: its command was live, and is no more. *)
LEMMA DiskNvmeCompleteInv ==
    ASSUME DiskInv, NEW c \in inflight, NEW good \in BOOLEAN, Disk!NvmeComplete(c, good) PROVE DiskInv'
<1>1. /\ Disk!Execute(c, good) /\ inflight' = inflight \ {c}
      /\ cq' = [cq EXCEPT ![cqTail] = [cid |-> c, phase |-> cqPhase, good |-> good]]
      /\ cqTail' = (cqTail + 1) % CqSize
      /\ cqPhase' = IF cqTail' = 0 THEN 1 - cqPhase ELSE cqPhase
      /\ UNCHANGED <<id, op, page, diskPc, result, driver, free, sq, tail, cqHead, phase, head,
                     ci, is, running, ata>>
  BY DEF Disk!NvmeComplete, Disk!call, Disk!g_nvme, Disk!port
<1>2. driver = "nvme"
  BY DEF DiskInv, DiskDriver
<1>3. cqTail' \in CqSlot /\ cqTail \in CqSlot
  <2>1. cqTail' = IF cqTail + 1 = CqSize THEN 0 ELSE cqTail + 1
    BY <1>1, NextSlot DEF DiskInv, DiskType, CqSlot, Disk!StorageAssumption
  <2> QED  BY <2>1 DEF DiskInv, DiskType, CqSlot, Disk!StorageAssumption
<1>4. c \in Live /\ c \in 0 .. MaxId /\ c \in 0 .. id /\ (diskPc = "submit" => c # id)
  <2>1. c \in Live
    BY DEF Live
  <2>2. c \in 1 .. id /\ (diskPc = "submit" => c # id)
    BY <2>1 DEF DiskInv, DiskPlaces
  <2> QED  BY <2>1, <2>2 DEF DiskInv, DiskType, Disk!StorageAssumption
<1>5. /\ Disk!PagesAreOwn' /\ done' = (IF good THEN done \cup {c} ELSE done) /\ stray' \in BOOLEAN
      /\ UNCHANGED <<pageOf, diskPast>>
  BY <1>1, <1>4, ExecuteOwn DEF Disk!Execute
<1>6. /\ cq'[cqTail] = [cid |-> c, phase |-> cqPhase, good |-> good]
      /\ \A i \in CqSlot \ {cqTail} : cq'[i] = cq[i]
      /\ cq' \in [CqSlot -> [cid : 0 .. MaxId, phase : {0, 1}, good : BOOLEAN]]
  BY <1>1, <1>3, <1>4 DEF DiskInv, DiskType
<1>7. DiskType'
  <2>1. cqPhase' \in {0, 1}
    BY <1>1 DEF DiskInv, DiskType
  <2>2. done' \subseteq 0 .. MaxId
    BY <1>4, <1>5 DEF DiskInv, DiskType
  <2> QED  BY <1>1, <1>3, <1>5, <1>6, <2>1, <2>2 DEF DiskInv, DiskType
<1>8. DiskDriver' /\ DiskAnswers'
  <2>1. \A i \in CqSlot : cq'[i].good => cq'[i].cid \in done'
    BY <1>5, <1>6 DEF DiskInv, DiskAnswers
  <2> QED  BY <1>1, <1>2, <1>5, <2>1 DEF DiskInv, DiskDriver, DiskAnswers
<1>9. Live' = Live \ {c}
  <2>1. Pending' = Pending
    BY <1>1 DEF Pending
  <2>2. \A i \in Pending : sq[i] # c
    BY DEF DiskInv, DiskPlaces
  <2> QED  BY <1>1, <1>2, <2>1, <2>2 DEF Live
<1>10. DiskPlaces'
  <2>1. Pending' = Pending
    BY <1>1 DEF Pending
  <2>2. \A i \in CqSlot : /\ cq'[i].cid \notin Live' /\ cq'[i].cid \in 0 .. id
                          /\ (diskPc = "submit" => cq'[i].cid # id)
    BY <1>4, <1>6, <1>9 DEF DiskInv, DiskPlaces
  <2> QED  BY <1>1, <1>2, <1>9, <2>1, <2>2 DEF DiskInv, DiskPlaces, Disk!Busy
<1>11. DiskPages'
  BY <1>1, <1>5, <1>9 DEF DiskInv, DiskPages
<1>12. Disk!SuccessIsDone'
  BY <1>1, <1>5 DEF DiskInv, Disk!SuccessIsDone
<1> QED  BY <1>5, <1>7, <1>8, <1>10, <1>11, <1>12 DEF DiskInv

-----------------------------------------------------------------------------
(* The slot takes the command, unless one is still in it. *)
LEMMA DiskAhciIssueInv == DiskInv /\ Disk!AhciIssue => DiskInv'
<1> SUFFICES ASSUME DiskInv, Disk!AhciIssue PROVE DiskInv'
  OBVIOUS
<1>1. /\ driver = "ahci" /\ diskPc = "submit" /\ diskPc' = "wait"
      /\ is' = FALSE /\ ci' = TRUE /\ running' = IF ci THEN running ELSE id
      /\ diskPast' = IF ci THEN diskPast \cup {"overlap"} ELSE diskPast
      /\ UNCHANGED <<id, op, page, result, driver, free, sq, tail, cqHead, phase, head, cq, cqTail,
                     cqPhase, inflight, ata, pageOf, done, stray>>
  BY DEF Disk!AhciIssue, Disk!Goto, Disk!g_nvme, Disk!controller
<1>2. DiskType'
  BY <1>1 DEF DiskInv, DiskType
<1>3. DiskDriver' /\ DiskAnswers'
  BY <1>1 DEF DiskInv, DiskDriver, DiskAnswers
<1>4. id \in 1 .. id /\ id # 0 /\ pageOf[id] = page /\ pageOf[id] \notin free
  BY <1>1 DEF DiskInv, DiskPages, Disk!Id
<1>5. Live' \subseteq Live \cup {id}
  BY <1>1, <1>2, <1>3, NoneLive DEF DiskInv, DiskDriver, Live, Pending
<1>6. DiskPlaces'
  <2>1. Pending' = {}
    BY <1>1, <1>2, <1>3 DEF DiskInv, DiskDriver, Pending, DiskType, SqSlot,
                            Disk!StorageAssumption
  <2>2. \A i \in CqSlot : cq[i].cid \notin Live' /\ cq[i].cid \in 0 .. id
    BY <1>1, <1>5 DEF DiskInv, DiskPlaces
  <2>3. Live' \subseteq 1 .. id
    BY <1>4, <1>5 DEF DiskInv, DiskPlaces
  <2> QED  BY <1>1, <2>1, <2>2, <2>3 DEF DiskInv, DiskPlaces, DiskDriver, Disk!Busy
<1>7. DiskPages'
  BY <1>1, <1>4, <1>5 DEF DiskInv, DiskPages
<1> QED  BY <1>1, <1>2, <1>3, <1>6, <1>7 DEF DiskInv, Disk!SuccessIsDone, Disk!PagesAreOwn

(* When the call stops looking, no command is in the slot, unless it gives up. *)
LEMMA DiskAhciLookInv == DiskInv /\ Disk!AhciLook => DiskInv'
<1> SUFFICES ASSUME DiskInv, Disk!AhciLook PROVE DiskInv'
  OBVIOUS
<1>1. /\ driver = "ahci" /\ diskPc = "wait" /\ is' = FALSE /\ diskPc' = "end"
      /\ \/ ~ci /\ result' \in {"ok", "bad"}
         \/ ci /\ is /\ result' = "bad"
      /\ UNCHANGED <<id, op, page, driver, free, sq, tail, cqHead, phase, head, cq, cqTail,
                     cqPhase, inflight, ci, running, ata, pageOf, done, stray, diskPast>>
  BY DEF Disk!AhciLook, Disk!Finish, Disk!g_nvme, Disk!controller, Disk!history
<1>2. DiskType'
  BY <1>1 DEF DiskInv, DiskType
<1>3. DiskDriver' /\ DiskAnswers'
  BY <1>1 DEF DiskInv, DiskDriver, DiskAnswers
<1>4. Live' = Live /\ DiskPlaces'
  BY <1>1, DiskCallStays DEF DiskInv, DiskPlaces, Disk!Busy
<1>5. Live = {}
  BY <1>1, NoneLive DEF DiskInv, DiskAnswers, DiskPlaces
<1>6. DiskPages'
  BY <1>1, <1>4, <1>5, DiskPageStays
<1>7. Disk!SuccessIsDone'
  BY <1>1 DEF DiskInv, DiskAnswers, Disk!SuccessIsDone
<1> QED  BY <1>1, <1>2, <1>3, <1>4, <1>6, <1>7 DEF DiskInv, Disk!PagesAreOwn

(* The command in the slot ends. *)
LEMMA DiskAhciCompleteInv == ASSUME DiskInv, NEW good \in BOOLEAN, Disk!AhciComplete(good) PROVE DiskInv'
<1>1. /\ driver = "ahci" /\ running # 0 /\ running' = 0
      /\ Disk!Execute(running, good)
      /\ ci' = ~good /\ is' = (is \/ ~good)
      /\ UNCHANGED <<id, op, page, diskPc, result, driver, free, sq, tail, cqHead, phase, head, cq,
                     cqTail, cqPhase, inflight, ata>>
  BY DEF Disk!AhciComplete, Disk!call, Disk!g_nvme, Disk!controller
<1>2. running \in Live /\ Live' = {} /\ Pending' = {}
  BY <1>1, NoneLive DEF Live, Pending, DiskInv, DiskDriver
<1>3. /\ Disk!PagesAreOwn' /\ done' = (IF good THEN done \cup {running} ELSE done) /\ stray' \in BOOLEAN
      /\ UNCHANGED <<pageOf, diskPast>>
  BY <1>1, <1>2, ExecuteOwn DEF Disk!Execute
<1>4. DiskType'
  <2>1. done' \subseteq 0 .. MaxId
    BY <1>3 DEF DiskInv, DiskType
  <2>2. is' \in BOOLEAN /\ ci' \in BOOLEAN /\ running' \in 0 .. MaxId
    BY <1>1 DEF DiskInv, DiskType, Disk!StorageAssumption
  <2> QED  BY <1>1, <1>3, <2>1, <2>2 DEF DiskInv, DiskType
<1>5. DiskDriver' /\ DiskAnswers'
  BY <1>1, <1>3 DEF DiskInv, DiskDriver, DiskAnswers
<1>6. DiskPlaces'
  BY <1>1, <1>2 DEF DiskInv, DiskPlaces, DiskDriver, Disk!Busy
<1>7. DiskPages'
  BY <1>1, <1>2, <1>3 DEF DiskInv, DiskPages
<1>8. Disk!SuccessIsDone'
  BY <1>1, <1>3 DEF DiskInv, Disk!SuccessIsDone
<1> QED  BY <1>3, <1>4, <1>5, <1>6, <1>7, <1>8 DEF DiskInv

-----------------------------------------------------------------------------
(* The ports of ata.c: what the device is doing, it does for the call that waits. *)
LEMMA DiskAtaCallInv == DiskInv /\ (Disk!AtaIssue \/ Disk!AtaRead \/ Disk!AtaWrite \/ Disk!AtaFlush) => DiskInv'
<1> SUFFICES ASSUME DiskInv, Disk!AtaIssue \/ Disk!AtaRead \/ Disk!AtaWrite \/ Disk!AtaFlush PROVE DiskInv'
  OBVIOUS
<1>1. /\ driver = "ata" /\ diskPc # "none" /\ diskPc' \in {"wait", "flush", "end"}
      /\ UNCHANGED <<id, op, page, driver, free, sq, tail, cqHead, phase, head, cq, cqTail,
                     cqPhase, inflight, ci, is, pageOf, done, stray>>
  BY DEF Disk!AtaIssue, Disk!AtaRead, Disk!AtaWrite, Disk!AtaFlush, Disk!Goto, Disk!Finish,
         Disk!g_nvme, Disk!controller, Disk!port, Disk!history, Disk!devices
<1>2. /\ ata' \in AtaStates /\ running' \in {running, id} /\ result' \in {"none", "ok", "bad"}
      /\ diskPast \subseteq diskPast' /\ diskPast' \subseteq diskPast \cup {"unseen"}
  BY DEF Disk!AtaIssue, Disk!AtaRead, Disk!AtaWrite, Disk!AtaFlush, Disk!Goto, Disk!Finish,
         Disk!g_nvme, Disk!controller, Disk!port, Disk!history,
         Disk!devices, AtaStates, DiskInv, DiskType
<1>3. id \in Disk!Id /\ id # 0
  BY <1>1 DEF DiskInv, DiskPages, Disk!Id
<1>4. DiskType'
  BY <1>1, <1>2 DEF DiskInv, DiskType
<1>5. DiskDriver'
  BY <1>1 DEF DiskInv, DiskDriver
<1>6. DiskAnswers'
  BY <1>1 DEF DiskInv, DiskType, DiskAnswers, Disk!AtaIssue, Disk!AtaRead, Disk!AtaWrite,
              Disk!AtaFlush, Disk!Goto, Disk!Finish, Disk!Busy, AtaStates,
              Disk!g_nvme, Disk!controller, Disk!port, Disk!history, Disk!devices
<1>7. Live = {} /\ Live' = {} /\ Pending = {} /\ Pending' = {}
  BY <1>1, <1>4, <1>5, NoneLive DEF DiskInv, DiskDriver, Live, Pending
<1>8. DiskPlaces'
  <2>1. Disk!Busy' => running' # 0
    BY <1>3 DEF DiskInv, DiskAnswers, DiskPlaces, Disk!Busy, Disk!AtaIssue, Disk!AtaRead,
                Disk!AtaWrite, Disk!AtaFlush,
                Disk!port, Disk!devices
  <2> QED  BY <1>1, <1>7, <2>1 DEF DiskInv, DiskPlaces
<1>9. DiskPages'
  BY <1>1, <1>2, <1>7, DiskPageStays
<1>10. Disk!SuccessIsDone'
  BY <1>1 DEF DiskInv, DiskAnswers, Disk!SuccessIsDone, Disk!AtaIssue, Disk!AtaRead,
              Disk!AtaWrite, Disk!AtaFlush, Disk!Goto, Disk!Finish, Disk!Busy
<1> QED  BY <1>1, <1>2, <1>4, <1>5, <1>6, <1>8, <1>9, <1>10 DEF DiskInv, Disk!PagesAreOwn

(* The device goes on. *)
LEMMA DiskAtaCompleteInv == ASSUME DiskInv, NEW good \in BOOLEAN, Disk!AtaComplete(good) PROVE DiskInv'
<1>1. /\ driver = "ata" /\ Disk!Busy /\ Disk!Execute(running, good /\ ata # "asking")
      /\ ata' = IF ~good THEN "error" ELSE IF ata = "taking" THEN "idle" ELSE "data"
      /\ UNCHANGED <<id, op, page, diskPc, result, driver, free, sq, tail, cqHead, phase, head, cq,
                     cqTail, cqPhase, inflight, ci, is, running>>
  BY DEF Disk!AtaComplete, Disk!call, Disk!g_nvme, Disk!controller, Disk!port
<1>2. running \in Disk!Id /\ pageOf[running] = 0 /\ running \in 0 .. MaxId
  BY <1>1 DEF DiskInv, DiskPlaces, DiskPages, DiskType, Disk!Id, Disk!StorageAssumption
<1>3. UNCHANGED <<pageOf, diskPast, stray>> /\ done \subseteq done' /\ done' \subseteq done \cup {running}
  BY <1>1, <1>2 DEF Disk!Execute, DiskInv, DiskType
<1>4. good /\ ata # "asking" => running \in done'
  BY <1>1 DEF Disk!Execute
<1>5. DiskType'
  BY <1>1, <1>2, <1>3 DEF DiskInv, DiskType, AtaStates
<1>6. DiskDriver'
  BY <1>1 DEF DiskInv, DiskDriver
<1>7. DiskAnswers'
  <2>1. \A i \in CqSlot : cq'[i].good => cq'[i].cid \in done'
    BY <1>1, <1>3 DEF DiskInv, DiskAnswers
  <2>2. driver' # "ahci"
    BY <1>1
  <2>3. diskPc \in {"wait", "flush"} => running = id
    BY <1>1 DEF DiskInv, DiskAnswers
  <2>4. CASE ~good
    <3>1. ata' = "error"
      BY <1>1, <2>4
    <3> QED  BY <1>1, <2>1, <2>2, <2>3, <3>1 DEF DiskAnswers
  <2>5. CASE good /\ ata = "taking"
    <3>1. ata' = "idle" /\ running \in done'
      BY <1>1, <1>4, <2>5
    <3>2. diskPc # "wait"
      BY <1>1, <2>5 DEF DiskInv, DiskAnswers, DiskType
    <3> QED  BY <1>1, <2>1, <2>2, <2>3, <3>1, <3>2 DEF DiskAnswers
  <2>6. CASE good /\ ata # "taking"
    <3>1. ata' = "data"
      BY <1>1, <2>6
    <3>2. diskPc # "flush"
      BY <1>1, <2>6 DEF DiskInv, DiskAnswers, Disk!Busy
    <3>3. diskPc = "wait" /\ op = "read" => running \in done'
      BY <1>1, <1>4, <2>6 DEF DiskInv, DiskAnswers
    <3> QED  BY <1>1, <2>1, <2>2, <2>3, <3>1, <3>2, <3>3 DEF DiskAnswers
  <2> QED  BY <2>4, <2>5, <2>6
<1>8. Live' = Live /\ Pending' = Pending
  BY <1>1, LiveSame
<1>9. DiskPlaces'
  BY <1>1, <1>2, <1>8 DEF DiskInv, DiskPlaces, Disk!Busy, Disk!Id
<1>10. DiskPages'
  BY <1>1, <1>3, <1>8 DEF DiskInv, DiskPages
<1> QED  BY <1>1, <1>3, <1>5, <1>6, <1>7, <1>9, <1>10 DEF DiskInv, Disk!SuccessIsDone,
         Disk!PagesAreOwn

-----------------------------------------------------------------------------
LEMMA DiskNextInv == DiskInv /\ [Disk!Next]_disk => DiskInv'
<1>1. DiskInv /\ UNCHANGED disk => DiskInv'
  BY DEF disk, DiskInv, Disk!StorageAssumption, DiskType,
         DiskDriver, DiskAnswers, DiskPlaces, DiskPages, Pending, Live, Disk!Busy,
         Disk!SuccessIsDone, Disk!PagesAreOwn
<1>2. DiskInv /\ Disk!Next => DiskInv'
  <2>1. DiskInv /\ Disk!Driver => DiskInv'
    BY DiskBeginInv, DiskNvmeSubmitInv, DiskNvmeLookInv, DiskAhciIssueInv, DiskAhciLookInv,
    DiskAtaCallInv,
       DiskTimeOutInv, DiskEndInv, DiskKillInv DEF Disk!Driver
  <2>2. DiskInv /\ Disk!Device => DiskInv'
    BY DiskNvmeFetchInv, DiskNvmeCompleteInv, DiskAhciCompleteInv,
         DiskAtaCompleteInv DEF Disk!Device
  <2> QED  BY <2>1, <2>2 DEF Disk!Next
<1> QED  BY <1>1, <1>2

LEMMA DiskAlways == Spec => []DiskInv
<1>1. Init => DiskInv
  BY DiskInit, DevicesAssumption DEF Init
<1>2. DiskInv /\ [Next]_vars => DiskInv'
  BY DiskNextInv DEF Next, vars
<1> QED  BY <1>1, <1>2, PTL DEF Spec

(* NvmeReadSectors, AhciReadSectors, AtaLegacyReadSectors and their writing counterparts
   report a success only of what was executed. *)
THEOREM SuccessesAreDone == Spec => []SuccessIsDone
<1>1. DiskInv => SuccessIsDone
  BY DEF DiskInv, SuccessIsDone
<1> QED  BY <1>1, DiskAlways, PTL

(* A device reaches into no page that was freed, or given to another command. *)
THEOREM DevicesKeepToTheirPages == Spec => []PagesAreOwn
<1>1. DiskInv => PagesAreOwn
  BY DEF DiskInv, PagesAreOwn
<1> QED  BY <1>1, DiskAlways, PTL

-----------------------------------------------------------------------------
(* The name server: what Net promises, on rings and caches of any size. *)

(* UdpRecv hands DnsResolve the datagram it has seen. *)
AnswerInv ==
    netPast \cap {"late", "replaced"} = {} =>
        /\ netPc = "wait" /\ datagram.here /\ datagram.port = "dns" => datagram.of = name
        /\ netPc = "copy" => datagram.of = name
        /\ netPc = "parse" => answer = name

LEMMA AnswerInit == Init => AnswerInv
BY DEF Init, Wire!Init, AnswerInv

LEMMA AnswerStep == AnswerInv /\ [Next]_vars => AnswerInv'
<1> SUFFICES ASSUME AnswerInv, [Next]_vars PROVE AnswerInv'
  OBVIOUS
<1>1. CASE UNCHANGED wire
  BY <1>1 DEF wire, AnswerInv
<1> USE DEF AnswerInv, Wire!ring, Wire!locals, Wire!counters, Wire!history
<1>2. CASE Wire!Process
  <2>1. CASE \E n \in Names : Wire!DnsResolve(n)
    BY <2>1 DEF Wire!DnsResolve
  <2>2. CASE Wire!ArpFind \/ Wire!ArpCopy
    BY <2>2 DEF Wire!ArpFind, Wire!ArpCopy, Wire!SendFrame
  <2>3. CASE Wire!SendRead \/ Wire!SendLook \/ Wire!SendBuffer \/ Wire!SendClear \/ Wire!SendTail
    BY <2>3 DEF Wire!SendRead, Wire!SendLook, Wire!SendBuffer, Wire!SendClear, Wire!SendTail
  <2>4. CASE Wire!SendDoorbell
    BY <2>4 DEF Wire!SendDoorbell, Wire!Doorbell
  <2>5. CASE Wire!RecvClear
    <3>1. netPc' = "wait" /\ ~datagram'.here
      BY <2>5 DEF Wire!RecvClear, Wire!Forget, Wire!NoDatagram
    <3> QED  BY <3>1
  <2>6. CASE Wire!RecvLook
    BY <2>6 DEF Wire!RecvLook
  <2>7. CASE Wire!RecvCopy \/ Wire!Parse \/ Wire!TimeOut
    BY <2>7 DEF Wire!RecvCopy, Wire!Parse, Wire!TimeOut
  <2> QED  BY <1>2, <2>1, <2>2, <2>3, <2>4, <2>5, <2>6, <2>7 DEF Wire!Process
<1>3. CASE Wire!NetPoll
  <2>1. CASE \E h \in Wire!Hosts : Wire!ArpReply(h)
    BY <2>1 DEF Wire!ArpReply, Wire!UpdateCache
  <2>2. CASE \E h \in Others : Wire!ArpRequest(h)
    BY <2>2 DEF Wire!ArpRequest, Wire!InterruptSends, Wire!Doorbell
  <2>3. ASSUME NEW port, NEW n, Wire!Datagram(port, n) PROVE AnswerInv'
    BY <2>3 DEF Wire!Datagram
  <2> QED  BY <1>3, <2>1, <2>2, <2>3 DEF Wire!NetPoll
<1>4. CASE Wire!Transmit
  BY <1>4 DEF Wire!Transmit
<1>5. CASE Wire!Kill
  BY <1>5 DEF Wire!Kill
<1> QED  BY <1>1, <1>2, <1>3, <1>4, <1>5 DEF Next, vars, Wire!Next

(* DNS_RESOLVE returns the answer to its own question, or none, but for an answer that
   comes late and a datagram that replaces the one UdpRecv has seen. *)
THEOREM AnswersAreOwn == Spec => []AnswerIsOwn
<1>1. AnswerInv => AnswerIsOwn
  BY DEF AnswerInv, AnswerIsOwn, Wire!AnswerIsOwn
<1> QED  BY <1>1, AnswerInit, AnswerStep, PTL DEF Spec
-----------------------------------------------------------------------------
(* The ARP cache: an entry is a host with its own address, and the one ArpResolve has
   found stays that of the server until it is replaced. *)

CacheInv ==
    /\ cache = [i \in 1 .. CacheSize |-> cache[i]]
    /\ \A i \in 1 .. CacheSize : cache[i].valid => cache[i].mac = cache[i].ip
    /\ netPc = "mac" =>
           \/ "evicted" \in netPast
           \/ idx \in 1 .. CacheSize /\ cache[idx].valid /\ cache[idx].ip = Server
    /\ netPc \in Wire!Sending \cup {"send"} /\ frame.type = "query" =>
           frame.to = Server \/ "evicted" \in netPast

LEMMA LeastIsIn ==
    ASSUME NEW S \in SUBSET Nat, S # {}
    PROVE  Wire!Min(S) \in S
<1> DEFINE R == OpToRel(<, Nat)
<1>1. \A x, y \in Nat : y < x => <<y, x>> \in R
  BY Zenon DEF OpToRel
<1>2. IsWellFoundedOn(R, Nat)
  BY NatLessThanWellFounded
<1> HIDE DEF R
<1>3. PICK x \in S : \A y \in S : ~ (<<y, x>> \in R)
  BY <1>2, WFMin
<1>4. ASSUME NEW y \in S PROVE x <= y
  <2>1. x \in Nat /\ y \in Nat
    OBVIOUS
  <2>2. ~ (y < x)
    BY <1>1, <1>3, <2>1, Zenon
  <2> QED  BY <2>1, <2>2
<1> QED  BY <1>3, <1>4 DEF Wire!Min

LEMMA CacheInit == Init => CacheInv
<1> SUFFICES ASSUME Init PROVE CacheInv
  OBVIOUS
<1>1. cache = [i \in 1 .. CacheSize |-> Wire!NoEntry] /\ netPc = "none"
  BY DEF Init, Wire!Init
<1>2. ~Wire!NoEntry.valid
  BY DEF Wire!NoEntry
<1> QED  BY <1>1, <1>2 DEF CacheInv, Wire!Sending

LEMMA CacheStep == CacheInv /\ [Next]_vars => CacheInv'
<1> SUFFICES ASSUME CacheInv, [Next]_vars PROVE CacheInv'
  OBVIOUS
<1>1. CASE UNCHANGED wire
  BY <1>1 DEF wire, CacheInv, Wire!Sending
<1> USE DEF CacheInv, Wire!Sending, Wire!ring, Wire!locals, Wire!counters, Wire!history
<1>2. CASE Wire!Process
  <2>1. CASE \E n \in Names : Wire!DnsResolve(n)
    BY <2>1 DEF Wire!DnsResolve
  <2>2. CASE Wire!ArpFind
    <3>1. CASE Wire!Found(Server) # {}
      <4>1. Wire!Found(Server) \in SUBSET Nat
        BY DevicesAssumption DEF Wire!NetAssumption, Wire!Found
      <4>2. Wire!Min(Wire!Found(Server)) \in Wire!Found(Server)
        BY <3>1, <4>1, LeastIsIn
      <4>3. /\ netPc' = "mac" /\ idx' = Wire!Min(Wire!Found(Server))
            /\ UNCHANGED <<cache, frame, netPast>>
        BY <2>2, <3>1 DEF Wire!ArpFind
      <4>4. idx' \in Wire!Found(Server)
        BY <4>2, <4>3
      <4> QED  BY <4>3, <4>4 DEF Wire!Found
    <3>2. CASE Wire!Found(Server) = {}
      <4>1. /\ netPc' = "send" /\ frame' = [type |-> "request", to |-> Server, name |-> ""]
            /\ UNCHANGED <<cache, netPast>>
        BY <2>2, <3>2 DEF Wire!ArpFind, Wire!SendFrame
      <4>2. frame'.type = "request"
        BY <4>1
      <4> QED  BY <4>1, <4>2
    <3> QED  BY <3>1, <3>2
  <2>3. CASE Wire!ArpCopy
    <3>1. /\ netPc = "mac" /\ netPc' = "send" /\ frame'.to = cache[idx].mac
          /\ UNCHANGED <<cache, idx, netPast>>
      BY <2>3 DEF Wire!ArpCopy, Wire!SendFrame
    <3> QED  BY <3>1
  <2>4. CASE Wire!SendRead \/ Wire!SendLook \/ Wire!SendBuffer \/ Wire!SendClear \/ Wire!SendTail
    BY <2>4 DEF Wire!SendRead, Wire!SendLook, Wire!SendBuffer, Wire!SendClear, Wire!SendTail
  <2>5. CASE Wire!SendDoorbell
    BY <2>5 DEF Wire!SendDoorbell
  <2>6. CASE Wire!RecvClear \/ Wire!RecvLook \/ Wire!RecvCopy \/ Wire!Parse \/ Wire!TimeOut
    BY <2>6 DEF Wire!RecvClear, Wire!RecvLook, Wire!RecvCopy, Wire!Parse, Wire!TimeOut
  <2> QED  BY <1>2, <2>1, <2>2, <2>3, <2>4, <2>5, <2>6 DEF Wire!Process
<1>3. CASE Wire!NetPoll
  <2>1. ASSUME NEW h \in Wire!Hosts, Wire!ArpReply(h) PROVE CacheInv'
    <3> DEFINE i == IF Wire!Found(h) # {} THEN Wire!Min(Wire!Found(h)) ELSE Wire!AllocEntry
               e == [valid |-> TRUE, ip |-> h, mac |-> h, time |-> packets]
    <3>1. /\ cache' = [cache EXCEPT ![i] = e]
          /\ netPast' = IF netPc = "mac" /\ i = idx /\ cache[i].ip # h
                        THEN netPast \cup {"evicted"} ELSE netPast
          /\ UNCHANGED <<netPc, idx, frame>>
      BY <2>1 DEF Wire!ArpReply, Wire!UpdateCache
    <3>2. e.valid = TRUE /\ e.ip = h /\ e.mac = h
      OBVIOUS
    <3> HIDE DEF i, e
    <3>3. /\ DOMAIN cache' = 1 .. CacheSize /\ cache' = [j \in 1 .. CacheSize |-> cache'[j]]
          /\ \A j \in 1 .. CacheSize : cache'[j] = IF j = i THEN e ELSE cache[j]
      BY <3>1
    <3> QED  BY <3>1, <3>2, <3>3
  <2>2. CASE \E h \in Others : Wire!ArpRequest(h)
    <3>1. UNCHANGED <<cache, netPc, idx, frame>> /\ netPast \subseteq netPast'
      BY <2>2 DEF Wire!ArpRequest, Wire!InterruptSends
    <3> QED  BY <3>1
  <2>3. ASSUME NEW port, NEW n, Wire!Datagram(port, n) PROVE CacheInv'
    BY <2>3 DEF Wire!Datagram
  <2> QED  BY <1>3, <2>1, <2>2, <2>3 DEF Wire!NetPoll
<1>4. CASE Wire!Transmit
  BY <1>4 DEF Wire!Transmit
<1>5. CASE Wire!Kill
  BY <1>5 DEF Wire!Kill
<1> QED  BY <1>1, <1>2, <1>3, <1>4, <1>5 DEF Next, vars, Wire!Next

(* A query goes to the name server, although ArpFindEntry and the copy of the address
   are two steps, unless the entry is given to another host in between. *)
THEOREM QueriesGoToServer == Spec => []QueryGoesToServer
<1>1. CacheInv => QueryGoesToServer
  BY DEF CacheInv, QueryGoesToServer, Wire!QueryGoesToServer
<1> QED  BY <1>1, CacheInit, CacheStep, PTL DEF Spec
-----------------------------------------------------------------------------
(* The transmit ring: how far a descriptor lies behind the head of the device, and
   which frame it holds.  The frames not sent yet fill the ring from the head on. *)

Slots == 0 .. RingSize - 1
Behind(i) == IF tdh <= i THEN i - tdh ELSE i - tdh + RingSize
After(i) == IF i + 1 = RingSize THEN 0 ELSE i + 1
Frame == [type : {"none", "query", "request", "reply"}, to : Wire!Hosts, name : Names \cup {""}]

Whole == netPast \cap {"reentered", "abandoned", "filled"} = {}

FrameType ==
    /\ frame \in Frame /\ name \in Names \cup {""}
    /\ \A i \in 1 .. CacheSize : cache[i].mac \in Wire!Hosts
    /\ netPc = "mac" => idx \in 1 .. CacheSize

RingType ==
    /\ tx_buf \in [Slots -> Frame] /\ dd \in [Slots -> BOOLEAN]
    /\ tx_tail \in Slots /\ tdt \in Slots /\ tdh \in Slots /\ slot \in Slots
    /\ unsent \in Seq(Frame)

Filling ==
    /\ ~wrong
    /\ Behind(tdt) = Len(unsent)
    /\ tx_tail = IF netPc = "doorbell" THEN After(tdt) ELSE tdt
    /\ \A i \in Slots : Behind(i) < Len(unsent) => tx_buf[i] = unsent[Behind(i) + 1]
    /\ \A i \in Slots : ~dd[i] => Behind(i) < Len(unsent) \/ (i = slot /\ netPc \in {"tail", "doorbell"})
    /\ netPc \in Wire!Sending => slot = tdt
    /\ netPc \in {"clear", "tail", "doorbell"} => tx_buf[slot] = frame

RingInv == FrameType /\ RingType /\ (Whole => Filling)

LEMMA NextInRing == ASSUME NEW i \in Slots PROVE (i + 1) % RingSize = After(i) /\ After(i) \in Slots
<1>1. RingSize \in Nat \ {0}
  BY DevicesAssumption DEF Wire!NetAssumption
<1>2. CASE i + 1 = RingSize
  <2>1. RingSize % RingSize = 0
    BY <1>1
  <2> QED  BY <1>1, <1>2, <2>1 DEF Slots, After
<1>3. CASE i + 1 # RingSize
  <2>1. i + 1 \in 0 .. RingSize - 1
    BY <1>1, <1>3 DEF Slots
  <2>2. (i + 1) % RingSize = i + 1
    BY <1>1, <2>1
  <2> QED  BY <1>3, <2>1, <2>2 DEF Slots, After
<1> QED  BY <1>2, <1>3

LEMMA RingInit == Init => RingInv
<1> SUFFICES ASSUME Init PROVE RingInv
  OBVIOUS
<1>1. /\ frame = Wire!NoFrame /\ name = "" /\ cache = [i \in 1 .. CacheSize |-> Wire!NoEntry]
      /\ netPc = "none" /\ tx_buf = [i \in Slots |-> Wire!NoFrame] /\ dd = [i \in Slots |-> TRUE]
      /\ tx_tail = 0 /\ tdt = 0 /\ tdh = 0 /\ slot = 0 /\ unsent = << >> /\ wrong = FALSE
  BY DEF Init, Wire!Init, Slots
<1>2. Wire!NoFrame \in Frame /\ Wire!NoEntry.mac \in Wire!Hosts
  BY DEF Wire!NoFrame, Wire!NoEntry, Frame, Wire!Hosts
<1>3. 0 \in Slots
  BY DevicesAssumption DEF Wire!NetAssumption, Slots
<1>4. FrameType
  BY <1>1, <1>2 DEF FrameType
<1>5. RingType
  <2>1. << >> \in Seq(Frame)
    OBVIOUS
  <2>2. \A f : f = Wire!NoFrame => f \in Frame
    BY <1>2
  <2>3. tx_buf \in [Slots -> Frame] /\ dd \in [Slots -> BOOLEAN]
    BY <1>1, <2>2
  <2> QED  BY <1>1, <1>3, <2>1, <2>3 DEF RingType
<1>6. Filling
  <2>1. \A i \in Slots : dd[i] = TRUE
    BY <1>1
  <2>2. \A i \in Slots : Behind(i) \in Nat
    <3>1. tdh = 0 /\ RingSize \in Nat
      BY <1>1, DevicesAssumption DEF Wire!NetAssumption
    <3> QED  BY <3>1 DEF Slots, Behind
  <2>3. Len(unsent) = 0
    BY <1>1
  <2>4. Behind(tdt) = 0
    <3>1. tdh = 0 /\ tdt = 0
      BY <1>1
    <3> QED  BY <3>1 DEF Behind
  <2>5. \A i \in Slots : ~(Behind(i) < Len(unsent))
    BY <2>2, <2>3
  <2>6. ~wrong /\ netPc = "none" /\ tx_tail = tdt
    BY <1>1
  <2> QED  BY <2>1, <2>3, <2>4, <2>5, <2>6 DEF Filling, Wire!Sending
<1> QED  BY <1>4, <1>5, <1>6 DEF RingInv

(* The steps of DnsResolve and ArpResolve, and what comes in, leave the ring alone. *)
LEMMA RingSame ==
    ASSUME RingInv, FrameType', netPc \notin Wire!Sending, netPc' \notin Wire!Sending,
           UNCHANGED <<tx_buf, dd, tx_tail, tdt, tdh, slot, unsent, wrong>>,
           Whole' => Whole
    PROVE  RingInv'
<1>1. RingType'
  BY DEF RingInv, RingType
<1>2. Whole' => Filling'
  BY DEF RingInv, RingType, Filling, Behind, Wire!Sending, Slots
<1> QED  BY <1>1, <1>2 DEF RingInv

LEMMA ProcessRing == RingInv /\ CacheInv /\ Wire!Process => RingInv'
<1> SUFFICES ASSUME RingInv, CacheInv, Wire!Process PROVE RingInv'
  OBVIOUS
<1> USE DEF Wire!ring, Wire!locals, Wire!counters, Wire!history
<1>1. CASE \E n \in Names : Wire!DnsResolve(n)
  BY <1>1, RingSame DEF Wire!DnsResolve, RingInv, FrameType, Whole, Wire!Sending
<1>2. CASE Wire!ArpFind
  <2>1. /\ netPc = "resolve" /\ netPc' \in {"mac", "send"}
        /\ UNCHANGED <<tx_buf, dd, tx_tail, tdt, tdh, slot, unsent, wrong, netPast, cache, name>>
    BY <1>2 DEF Wire!ArpFind, Wire!SendFrame
  <2>2. frame' = frame \/ frame' = [type |-> "request", to |-> Server, name |-> ""]
    BY <1>2 DEF Wire!ArpFind, Wire!SendFrame
  <2>3. [type |-> "request", to |-> Server, name |-> ""] \in Frame
    BY DEF Frame, Wire!Hosts
  <2>4. netPc' = "mac" => idx' \in 1 .. CacheSize
    <3>1. ASSUME netPc' = "mac" PROVE Wire!Found(Server) # {} /\ idx' = Wire!Min(Wire!Found(Server))
      BY <1>2, <3>1 DEF Wire!ArpFind, Wire!SendFrame
    <3>2. Wire!Found(Server) \in SUBSET Nat
      BY DevicesAssumption DEF Wire!NetAssumption, Wire!Found
    <3>3. netPc' = "mac" => idx' \in Wire!Found(Server)
      BY <3>1, <3>2, LeastIsIn
    <3> QED  BY <3>3 DEF Wire!Found
  <2>5. FrameType'
    BY <2>1, <2>2, <2>3, <2>4 DEF RingInv, FrameType
  <2> QED  BY <2>1, <2>5, RingSame DEF Whole, Wire!Sending
<1>3. CASE Wire!ArpCopy
  <2>1. /\ netPc = "mac" /\ netPc' = "send"
        /\ frame' = [type |-> "query", to |-> cache[idx].mac, name |-> name]
        /\ UNCHANGED <<tx_buf, dd, tx_tail, tdt, tdh, slot, unsent, wrong, netPast, cache, name>>
    BY <1>3 DEF Wire!ArpCopy, Wire!SendFrame
  <2>2. frame' \in Frame
    BY <2>1 DEF RingInv, FrameType, Frame
  <2>3. FrameType'
    BY <2>1, <2>2 DEF RingInv, FrameType
  <2> QED  BY <2>1, <2>3, RingSame DEF Whole, Wire!Sending
<1>4. CASE Wire!RecvClear \/ Wire!RecvLook \/ Wire!RecvCopy \/ Wire!Parse \/ Wire!TimeOut
  <2>1. /\ netPc \notin Wire!Sending /\ netPc' \notin Wire!Sending \cup {"mac"}
        /\ UNCHANGED <<tx_buf, dd, tx_tail, tdt, tdh, slot, unsent, wrong, netPast, cache, name, frame>>
    BY <1>4 DEF Wire!RecvClear, Wire!RecvLook, Wire!RecvCopy, Wire!Parse, Wire!TimeOut,
                Wire!Sending
  <2> QED  BY <2>1, RingSame DEF Whole, RingInv, FrameType
<1>10. CASE Wire!SendRead
  <2>1. /\ netPc = "send" /\ slot' = tx_tail /\ netPc' = "look"
        /\ UNCHANGED <<tx_buf, dd, tx_tail, tdt, tdh, unsent, wrong, netPast, cache, name, frame>>
    BY <1>10 DEF Wire!SendRead
  <2>2. FrameType' /\ RingType'
    BY <2>1 DEF RingInv, FrameType, RingType
  <2>3. Whole' => Filling'
    BY <2>1 DEF RingInv, RingType, Filling, Whole, Behind, Wire!Sending, Slots
  <2> QED  BY <2>2, <2>3 DEF RingInv
<1>5. CASE Wire!SendLook
  <2>1. /\ netPc = "look" /\ netPc' \in {"buffer", "sent"}
        /\ UNCHANGED <<tx_buf, dd, tx_tail, tdt, tdh, slot, unsent, wrong, netPast, cache, name, frame>>
    BY <1>5 DEF Wire!SendLook
  <2>2. FrameType' /\ RingType'
    BY <2>1 DEF RingInv, FrameType, RingType
  <2>3. Whole' => Filling'
    BY <2>1 DEF RingInv, RingType, Filling, Whole, Behind, Wire!Sending, Slots
  <2> QED  BY <2>2, <2>3 DEF RingInv
<1>6. CASE Wire!SendBuffer
  <2>1. /\ netPc = "buffer" /\ netPc' = "clear" /\ tx_buf' = [tx_buf EXCEPT ![slot] = frame]
        /\ UNCHANGED <<dd, tx_tail, tdt, tdh, slot, unsent, wrong, netPast, cache, name, frame>>
    BY <1>6 DEF Wire!SendBuffer
  <2>2. FrameType' /\ RingType'
    BY <2>1 DEF RingInv, FrameType, RingType
  <2>3. Whole' => Filling'
    BY <2>1 DEF RingInv, RingType, Filling, Whole, Behind, Wire!Sending, Slots
  <2> QED  BY <2>2, <2>3 DEF RingInv
<1>7. CASE Wire!SendClear
  <2>1. /\ netPc = "clear" /\ netPc' = "tail" /\ dd' = [dd EXCEPT ![slot] = FALSE]
        /\ UNCHANGED <<tx_buf, tx_tail, tdt, tdh, slot, unsent, wrong, netPast, cache, name, frame>>
    BY <1>7 DEF Wire!SendClear
  <2>2. FrameType' /\ RingType'
    BY <2>1 DEF RingInv, FrameType, RingType
  <2>3. Whole' => Filling'
    BY <2>1 DEF RingInv, RingType, Filling, Whole, Behind, Wire!Sending, Slots
  <2> QED  BY <2>2, <2>3 DEF RingInv
<1>8. CASE Wire!SendTail
  <2>1. /\ netPc = "tail" /\ netPc' = "doorbell" /\ tx_tail' = (slot + 1) % RingSize
        /\ UNCHANGED <<tx_buf, dd, tdt, tdh, slot, unsent, wrong, netPast, cache, name, frame>>
    BY <1>8 DEF Wire!SendTail
  <2>2. slot \in Slots
    BY DEF RingInv, RingType
  <2>3. tx_tail' = After(slot) /\ tx_tail' \in Slots
    BY <2>1, <2>2, NextInRing
  <2>4. FrameType' /\ RingType'
    BY <2>1, <2>3 DEF RingInv, FrameType, RingType
  <2>5. Whole' => Filling'
    BY <2>1, <2>3 DEF RingInv, RingType, Filling, Whole, Behind, Wire!Sending, Slots, After
  <2> QED  BY <2>4, <2>5 DEF RingInv
<1>9. CASE Wire!SendDoorbell
  <2>1. /\ netPc = "doorbell" /\ netPc' = "sent" /\ tdt' = (slot + 1) % RingSize
        /\ unsent' = Append(unsent, frame)
        /\ netPast' = IF (slot + 1) % RingSize = tdh THEN netPast \cup {"filled"} ELSE netPast
        /\ UNCHANGED <<tx_buf, dd, tx_tail, tdh, slot, wrong, cache, name, frame>>
    BY <1>9 DEF Wire!SendDoorbell, Wire!Doorbell, Wire!Filled
  <2>2. slot \in Slots
    BY DEF RingInv, RingType
  <2>3. (slot + 1) % RingSize = After(slot) /\ After(slot) \in Slots
    BY <2>2, NextInRing
  <2>4. /\ Append(unsent, frame) \in Seq(Frame) /\ Len(Append(unsent, frame)) = Len(unsent) + 1
        /\ Append(unsent, frame)[Len(unsent) + 1] = frame
        /\ \A k \in 1 .. Len(unsent) : Append(unsent, frame)[k] = unsent[k]
    <3>1. unsent \in Seq(Frame) /\ frame \in Frame
      BY DEF RingInv, RingType, FrameType
    <3> QED  BY <3>1
  <2>6. FrameType'
    BY <2>1 DEF RingInv, FrameType
  <2>7. RingType'
    BY <2>1, <2>3, <2>4 DEF RingInv, RingType
  <2>5. ASSUME Whole' PROVE Filling'
    <3>1. Whole /\ After(slot) # tdh
      BY <2>1, <2>3, <2>5 DEF Whole
    <3>2. Filling
      BY <3>1 DEF RingInv
    <3>3. Len(unsent') = Len(unsent) + 1 /\ unsent'[Len(unsent) + 1] = frame
          /\ \A k \in 1 .. Len(unsent) : unsent'[k] = unsent[k]
      BY <2>1, <2>4
    <3>4. Len(unsent) \in Nat
      BY DEF RingInv, RingType
    <3>5. slot = tdt /\ Behind(slot) = Len(unsent) /\ Behind(After(slot)) = Len(unsent) + 1
      <4>1. slot = tdt /\ Behind(slot) = Len(unsent)
        BY <2>1, <3>2 DEF Filling, Wire!Sending
      <4>2. RingSize \in Nat \ {0} /\ slot \in Slots /\ tdh \in Slots
        BY DevicesAssumption DEF Wire!NetAssumption, RingInv, RingType
      <4>3. Behind(After(slot)) = Behind(slot) + 1
        BY <3>1, <4>2 DEF Behind, After, Slots
      <4> QED  BY <4>1, <4>3
    <3>6. \A i \in Slots : Behind(i) \in Nat /\ (Behind(i) = Behind(slot) => i = slot)
      <4>1. RingSize \in Nat \ {0} /\ tdh \in Slots
        BY DevicesAssumption DEF Wire!NetAssumption, RingInv, RingType
      <4> QED  BY <2>2, <4>1 DEF Behind, Slots
    <3>7. Behind(tdt)' = Len(unsent') /\ \A i : Behind(i)' = Behind(i)
      BY <2>1, <2>3, <3>3, <3>5 DEF Behind
    <3>8. ASSUME NEW i \in Slots, Behind(i) < Len(unsent') PROVE tx_buf[i] = unsent'[Behind(i) + 1]
      <4>1. CASE Behind(i) = Len(unsent)
        BY <2>1, <3>2, <3>3, <3>5, <3>6, <4>1 DEF Filling
      <4>2. CASE Behind(i) # Len(unsent)
        <5>1. Behind(i) < Len(unsent) /\ Behind(i) + 1 \in 1 .. Len(unsent)
          BY <3>3, <3>4, <3>6, <3>8, <4>2
        <5> QED  BY <3>2, <3>3, <5>1 DEF Filling
      <4> QED  BY <4>1, <4>2
    <3>9. ASSUME NEW i \in Slots, ~dd[i] PROVE Behind(i) < Len(unsent')
      BY <3>2, <3>3, <3>4, <3>5, <3>6, <3>9 DEF Filling
    <3>10. tx_tail = After(slot) /\ ~wrong
      BY <2>1, <3>2, <3>5 DEF Filling
    <3> QED  BY <2>1, <2>3, <3>7, <3>8, <3>9, <3>10 DEF Filling, Wire!Sending
  <2> QED  BY <2>5, <2>6, <2>7 DEF RingInv
<1> QED  BY <1>1, <1>2, <1>3, <1>4, <1>5, <1>6, <1>7, <1>8, <1>9, <1>10 DEF Wire!Process

(* A kill leaves a descriptor behind only between its clearing and the doorbell. *)
LEMMA KillRing == RingInv /\ Wire!Kill => RingInv'
<1> SUFFICES ASSUME RingInv, Wire!Kill PROVE RingInv'
  OBVIOUS
<1>1. /\ netPc' = "none"
      /\ netPast' = IF netPc \in {"tail", "doorbell"} THEN netPast \cup {"abandoned"} ELSE netPast
      /\ UNCHANGED <<tx_buf, dd, tx_tail, tdt, tdh, slot, unsent, wrong, cache, name, frame, idx>>
  BY DEF Wire!Kill, Wire!ring, Wire!locals, Wire!history
<1>2. FrameType' /\ RingType'
  BY <1>1 DEF RingInv, FrameType, RingType
<1>3. ASSUME Whole' PROVE Filling'
  <2>1. Whole /\ netPc \notin {"tail", "doorbell"}
    BY <1>1, <1>3 DEF Whole
  <2>2. Filling
    BY <2>1 DEF RingInv
  <2> QED  BY <1>1, <2>1, <2>2 DEF Filling, Behind, Wire!Sending
<1> QED  BY <1>2, <1>3 DEF RingInv

(* What else comes in leaves it alone too, also during E1000SendFrame. *)
LEMMA RingKept ==
    ASSUME RingInv, FrameType', Whole' => Whole,
           UNCHANGED <<tx_buf, dd, tx_tail, tdt, tdh, slot, unsent, wrong, netPc, frame>>
    PROVE  RingInv'
<1>1. RingType'
  BY DEF RingInv, RingType
<1>2. Filling => Filling'
  BY DEF Filling, Behind
<1> QED  BY <1>1, <1>2 DEF RingInv

LEMMA ReplyRing == ASSUME RingInv, NEW h \in Wire!Hosts, Wire!ArpReply(h) PROVE RingInv'
<1> DEFINE i == IF Wire!Found(h) # {} THEN Wire!Min(Wire!Found(h)) ELSE Wire!AllocEntry
           e == [valid |-> TRUE, ip |-> h, mac |-> h, time |-> packets]
<1>1. /\ cache' = [cache EXCEPT ![i] = e]
      /\ netPast' = IF netPc = "mac" /\ i = idx /\ cache[i].ip # h
                    THEN netPast \cup {"evicted"} ELSE netPast
      /\ UNCHANGED <<tx_buf, dd, tx_tail, tdt, tdh, slot, unsent, wrong, netPc, frame, idx, name>>
  BY DEF Wire!ArpReply, Wire!UpdateCache, Wire!ring, Wire!locals, Wire!history
<1>2. e.mac \in Wire!Hosts
  OBVIOUS
<1> HIDE DEF i, e
<1>3. \A j \in 1 .. CacheSize : cache'[j] = e \/ cache'[j] = cache[j]
  <2>1. CASE cache \in [DOMAIN cache -> {cache[j] : j \in DOMAIN cache}]
    BY <1>1, <2>1
  <2> QED  BY <1>1
<1>4. FrameType'
  BY <1>1, <1>2, <1>3 DEF RingInv, FrameType
<1>5. Whole' => Whole
  BY <1>1 DEF Whole
<1> QED  BY <1>1, <1>4, <1>5, RingKept

(* An ARP request is answered at once, into the descriptor at the tail. *)
LEMMA RequestRing == ASSUME RingInv, NEW h \in Others, Wire!ArpRequest(h) PROVE RingInv'
<1> DEFINE f == [type |-> "reply", to |-> h, name |-> ""]
<1>0. f \in Frame
  BY DEF Frame, Wire!Hosts
<1>1. Wire!InterruptSends(f) /\ UNCHANGED <<cache, tdh, netPc, idx, frame, slot, name, wrong>>
  BY DEF Wire!ArpRequest, Wire!locals
<1> HIDE DEF f
<1>2. FrameType'
  BY <1>1 DEF RingInv, FrameType
<1>3. CASE ~dd[tx_tail]
  <2>1. UNCHANGED <<tx_buf, dd, tx_tail, tdt, unsent, netPast>>
    BY <1>1, <1>3 DEF Wire!InterruptSends
  <2> QED  BY <1>1, <1>2, <2>1, RingKept DEF Whole
<1>4. CASE dd[tx_tail]
  <2>1. /\ tx_buf' = [tx_buf EXCEPT ![tx_tail] = f] /\ dd' = [dd EXCEPT ![tx_tail] = FALSE]
        /\ tx_tail' = (tx_tail + 1) % RingSize /\ tdt' = (tx_tail + 1) % RingSize
        /\ unsent' = Append(unsent, f)
        /\ netPast' = netPast \cup (IF netPc \in Wire!Sending THEN {"reentered"} ELSE {})
                              \cup (IF (tx_tail + 1) % RingSize = tdh THEN {"filled"} ELSE {})
    BY <1>1, <1>4 DEF Wire!InterruptSends, Wire!Doorbell, Wire!Filled
  <2>2. tx_tail \in Slots
    BY DEF RingInv, RingType
  <2>3. (tx_tail + 1) % RingSize = After(tx_tail) /\ After(tx_tail) \in Slots
    BY <2>2, NextInRing
  <2>4. /\ Append(unsent, f) \in Seq(Frame) /\ Len(Append(unsent, f)) = Len(unsent) + 1
        /\ Append(unsent, f)[Len(unsent) + 1] = f
        /\ \A k \in 1 .. Len(unsent) : Append(unsent, f)[k] = unsent[k]
    <3>1. unsent \in Seq(Frame)
      BY DEF RingInv, RingType
    <3> QED  BY <1>0, <3>1
  <2>5. RingType'
    <3>1. tx_buf' \in [Slots -> Frame] /\ dd' \in [Slots -> BOOLEAN]
      BY <1>0, <2>1 DEF RingInv, RingType
    <3> QED  BY <1>1, <2>1, <2>3, <2>4, <3>1 DEF RingInv, RingType
  <2>6. ASSUME Whole' PROVE Filling'
    <3>1. Whole /\ netPc \notin Wire!Sending /\ After(tx_tail) # tdh
      BY <2>1, <2>3, <2>6 DEF Whole
    <3>2. Filling
      BY <3>1 DEF RingInv
    <3>3. Len(unsent') = Len(unsent) + 1 /\ unsent'[Len(unsent) + 1] = f
          /\ \A k \in 1 .. Len(unsent) : unsent'[k] = unsent[k]
      BY <2>1, <2>4
    <3>4. Len(unsent) \in Nat
      BY DEF RingInv, RingType
    <3>5. Behind(tx_tail) = Len(unsent) /\ Behind(After(tx_tail)) = Len(unsent) + 1
      <4>1. tx_tail = tdt /\ Behind(tdt) = Len(unsent)
        BY <3>1, <3>2 DEF Filling, Wire!Sending
      <4>2. RingSize \in Nat \ {0} /\ tdh \in Slots
        BY DevicesAssumption DEF Wire!NetAssumption, RingInv, RingType
      <4>3. Behind(After(tx_tail)) = Behind(tx_tail) + 1
        BY <2>2, <3>1, <4>2 DEF Behind, After, Slots
      <4> QED  BY <4>1, <4>3
    <3>6. \A i \in Slots : Behind(i) \in Nat /\ (Behind(i) = Behind(tx_tail) => i = tx_tail)
      <4>1. RingSize \in Nat \ {0} /\ tdh \in Slots
        BY DevicesAssumption DEF Wire!NetAssumption, RingInv, RingType
      <4> QED  BY <2>2, <4>1 DEF Behind, Slots
    <3>7. Behind(tdt)' = Len(unsent') /\ \A i : Behind(i)' = Behind(i)
      BY <1>1, <2>1, <2>3, <3>3, <3>5 DEF Behind
    <3>8. \A i \in Slots : /\ tx_buf'[i] = IF i = tx_tail THEN f ELSE tx_buf[i]
                           /\ dd'[i] = IF i = tx_tail THEN FALSE ELSE dd[i]
      BY <2>1 DEF RingInv, RingType
    <3>9. ASSUME NEW i \in Slots, Behind(i) < Len(unsent') PROVE tx_buf'[i] = unsent'[Behind(i) + 1]
      <4>1. CASE i = tx_tail
        BY <3>3, <3>5, <3>8, <4>1
      <4>2. CASE i # tx_tail
        <5>1. Behind(i) < Len(unsent) /\ Behind(i) + 1 \in 1 .. Len(unsent)
          BY <3>3, <3>4, <3>5, <3>6, <3>9, <4>2
        <5> QED  BY <3>2, <3>3, <3>8, <4>2, <5>1 DEF Filling
      <4> QED  BY <4>1, <4>2
    <3>10. ASSUME NEW i \in Slots, ~dd'[i] PROVE Behind(i) < Len(unsent')
      <4>1. CASE i = tx_tail
        BY <3>3, <3>4, <3>5, <4>1
      <4>2. CASE i # tx_tail
        <5>1. ~dd[i]
          BY <3>8, <3>10, <4>2
        <5>2. Behind(i) < Len(unsent)
          BY <3>1, <3>2, <5>1 DEF Filling, Wire!Sending
        <5> QED  BY <3>3, <3>4, <3>6, <5>2
      <4> QED  BY <4>1, <4>2
    <3>11. tx_tail' = tdt' /\ ~wrong' /\ netPc' = netPc
      BY <1>1, <2>1, <3>2 DEF Filling
    <3> QED  BY <3>1, <3>7, <3>9, <3>10, <3>11 DEF Filling, Wire!Sending
  <2> QED  BY <1>2, <2>5, <2>6 DEF RingInv
<1> QED  BY <1>3, <1>4

(* The device sends the oldest frame, and the others move up. *)
LEMMA TransmitRing == RingInv /\ Wire!Transmit => RingInv'
<1> SUFFICES ASSUME RingInv, Wire!Transmit PROVE RingInv'
  OBVIOUS
<1>1. /\ tdh # tdt /\ dd' = [dd EXCEPT ![tdh] = TRUE] /\ tdh' = (tdh + 1) % RingSize
      /\ wrong' = (wrong \/ unsent = << >> \/ Head(unsent) # tx_buf[tdh])
      /\ unsent' = IF unsent = << >> THEN << >> ELSE Tail(unsent)
      /\ UNCHANGED <<cache, tx_buf, tx_tail, tdt, netPc, idx, frame, slot, name, netPast>>
  BY DEF Wire!Transmit, Wire!locals
<1>2. FrameType'
  BY <1>1 DEF RingInv, FrameType
<1>3. /\ tdh \in Slots /\ tdt \in Slots /\ unsent \in Seq(Frame) /\ Len(unsent) \in Nat
      /\ dd \in [Slots -> BOOLEAN]
  BY DEF RingInv, RingType
<1>4. tdh' = After(tdh) /\ After(tdh) \in Slots
  BY <1>1, <1>3, NextInRing
<1>5. unsent # << >> => Tail(unsent) \in Seq(Frame) /\ Len(Tail(unsent)) = Len(unsent) - 1
                        /\ Head(unsent) = unsent[1]
                        /\ \A k \in 1 .. Len(unsent) - 1 : Tail(unsent)[k] = unsent[k + 1]
  BY <1>3
<1>6. RingType'
  <2>1. unsent' \in Seq(Frame)
    BY <1>1, <1>3, <1>5
  <2>2. dd' \in [Slots -> BOOLEAN]
    BY <1>1, <1>3
  <2> QED  BY <1>1, <1>4, <2>1, <2>2 DEF RingInv, RingType
<1>7. ASSUME Whole' PROVE Filling'
  <2>1. Filling
    BY <1>1, <1>7 DEF RingInv, Whole
  <2>2. RingSize \in Nat \ {0}
    BY DevicesAssumption DEF Wire!NetAssumption
  <2>3. \A i \in Slots : Behind(i) \in 0 .. RingSize - 1
    BY <1>3, <2>2 DEF Behind, Slots
  <2>4. Behind(tdh) = 0 /\ Behind(tdt) # 0
    BY <1>1, <1>3, <2>2 DEF Behind, Slots
  <2>5. \A i \in Slots : Behind(i)' = IF i = tdh THEN RingSize - 1 ELSE Behind(i) - 1
    BY <1>3, <1>4, <2>2 DEF Behind, After, Slots
  <2>6. Behind(tdt) = Len(unsent) /\ Len(unsent) \in 1 .. RingSize - 1
    BY <1>3, <2>1, <2>3, <2>4 DEF Filling
  <2>7. unsent # << >> /\ unsent' = Tail(unsent) /\ Len(unsent') = Len(unsent) - 1
    BY <1>1, <1>5, <2>6
  <2>8. ~wrong'
    <3>1. tx_buf[tdh] = unsent[1]
      BY <1>3, <2>1, <2>4, <2>6 DEF Filling
    <3> QED  BY <1>1, <1>5, <2>1, <2>7, <3>1 DEF Filling
  <2>9. Behind(tdt)' = Len(unsent')
    <3>1. tdt' = tdt /\ Behind(tdt)' = Behind(tdt) - 1
      BY <1>1, <1>3, <1>4, <2>2 DEF Behind, After, Slots
    <3> QED  BY <2>6, <2>7, <3>1
  <2>10. ASSUME NEW i \in Slots, Behind(i)' < Len(unsent') PROVE tx_buf[i] = unsent'[Behind(i)' + 1]
    <3>1. i # tdh /\ Behind(i)' = Behind(i) - 1
      BY <2>2, <2>5, <2>6, <2>7, <2>10
    <3>2. Behind(i) < Len(unsent) /\ Behind(i) \in 1 .. Len(unsent) - 1
      <4>1. Behind(i) # 0
        BY <1>3, <2>2, <3>1 DEF Behind, Slots
      <4> QED  BY <2>3, <2>6, <2>7, <2>10, <3>1, <4>1
    <3>3. tx_buf[i] = unsent[Behind(i) + 1] /\ unsent'[Behind(i)] = unsent[Behind(i) + 1]
      BY <1>5, <2>1, <2>7, <3>2 DEF Filling
    <3>4. Behind(i)' + 1 = Behind(i)
      BY <3>1, <3>2
    <3> QED  BY <3>3, <3>4
  <2>11. ASSUME NEW i \in Slots, ~dd'[i]
         PROVE  Behind(i)' < Len(unsent') \/ (i = slot /\ netPc \in {"tail", "doorbell"})
    <3>1. i # tdh /\ ~dd[i]
      BY <1>1, <1>3, <2>11
    <3>2. Behind(i) < Len(unsent) \/ (i = slot /\ netPc \in {"tail", "doorbell"})
      BY <2>1, <3>1 DEF Filling
    <3>3. Behind(i)' = Behind(i) - 1
      BY <2>5, <3>1
    <3> QED  BY <2>3, <2>6, <2>7, <3>2, <3>3
  <2>12. UNCHANGED <<tx_buf, tx_tail, tdt, netPc, frame, slot>>
    BY <1>1
  <2> QED  BY <2>1, <2>8, <2>9, <2>10, <2>11, <2>12 DEF Filling, After
<1> QED  BY <1>2, <1>6, <1>7 DEF RingInv

LEMMA RingStep == RingInv /\ CacheInv /\ [Next]_vars => RingInv'
<1> SUFFICES ASSUME RingInv, CacheInv, [Next]_vars PROVE RingInv'
  OBVIOUS
<1>1. CASE UNCHANGED wire
  BY <1>1, RingKept DEF wire, RingInv, FrameType, Whole
<1>2. ASSUME NEW port, NEW n, Wire!Datagram(port, n) PROVE RingInv'
  <2>1. /\ UNCHANGED <<tx_buf, dd, tx_tail, tdt, tdh, slot, unsent, wrong, netPc, frame, cache, idx, name>>
        /\ Whole' => Whole
    BY <1>2 DEF Wire!Datagram, Wire!ring, Wire!locals, Wire!history, Whole
  <2> QED  BY <2>1, RingKept DEF RingInv, FrameType
<1>3. CASE Wire!NetPoll
  BY <1>2, <1>3, ReplyRing, RequestRing DEF Wire!NetPoll
<1> QED  BY <1>1, <1>3, ProcessRing, KillRing, TransmitRing DEF Next, vars, Wire!Next

(* The frames the device sends are those E1000SendFrame accepted, in order, and once
   they are all sent the next descriptor is free; as long as no interrupt has sent a
   frame during E1000SendFrame, no process was killed there between the descriptor and
   the doorbell, and the ring was never quite full. *)
THEOREM FramesAllGoOut == Spec => []FramesGoOut
<1>1. RingInv => FramesGoOut
  <2> SUFFICES ASSUME RingInv, Whole PROVE Filling /\ (tdh = tdt /\ netPc \notin Wire!Sending
                                                        => unsent = << >> /\ dd[tx_tail])
    BY DEF Whole, Filling, FramesGoOut, Wire!FramesGoOut
  <2>1. Filling /\ RingType
    BY DEF RingInv
  <2>2. ASSUME tdh = tdt, netPc \notin Wire!Sending PROVE unsent = << >> /\ dd[tx_tail]
    <3>1. Len(unsent) = 0 /\ unsent \in Seq(Frame) /\ tx_tail = tdt /\ tdt \in Slots
      BY <2>1, <2>2 DEF Filling, RingType, Behind, Slots, Wire!Sending
    <3>2. unsent = << >>
      BY <3>1
    <3>3. ~(Behind(tx_tail) < 0)
      BY <2>2, <3>1 DEF Behind, Slots
    <3> QED  BY <2>1, <2>2, <3>1, <3>2, <3>3 DEF Filling, Wire!Sending
  <2> QED  BY <2>1, <2>2
<1> QED  BY <1>1, CacheInit, CacheStep, RingInit, RingStep, PTL DEF Spec
=============================================================================
