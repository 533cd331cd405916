----------------------------- MODULE MCDevices -----------------------------
(* The devices share nothing but the timer: one of them, chosen at the start, is
   looked at and the others stand still. *)
EXTENDS Integers

CONSTANTS Sizes, Rate, MaxTime, Pages, SqSize, CqSize, MaxId,
          Names, Server, Others, CacheSize, RingSize, MaxCalls, MaxPackets

VARIABLES
    device,
    run, pos, len, bcis, playing, bytes_to_play, start_tick, duration_ticks, time, size,
    orphan, rushed, cut, soundPc,
    driver, id, op, page, result, free, sq, tail, cqHead, phase, head, cq, cqTail, cqPhase,
    inflight, ci, is, running, ata, pageOf, done, stray, diskPc, diskPast,
    cache, datagram, tx_buf, dd, tx_tail, tdt, tdh, name, try, answer, idx, frame, slot,
    calls, packets, asked, unsent, wrong, netPc, netPast

Sound == INSTANCE Hda WITH pc <- soundPc
Disk == INSTANCE Storage WITH pc <- diskPc, past <- diskPast
Wire == INSTANCE Net WITH pc <- netPc, past <- netPast

(* What the proofs about the drivers take for granted of the constants. *)
ASSUME DevicesAssumption == /\ Sound!HdaAssumption /\ Disk!StorageAssumption
                            /\ Wire!NetAssumption

sound == <<run, pos, len, bcis, playing, bytes_to_play, start_tick, duration_ticks, time, size,
           orphan, rushed, cut, soundPc>>
disk == <<driver, id, op, page, result, free, sq, tail, cqHead, phase, head, cq, cqTail, cqPhase,
          inflight, ci, is, running, ata, pageOf, done, stray, diskPc, diskPast>>
wire == <<cache, datagram, tx_buf, dd, tx_tail, tdt, tdh, name, try, answer, idx, frame, slot,
          calls, packets, asked, unsent, wrong, netPc, netPast>>
vars == <<device, sound, disk, wire>>

Init == /\ device \in {"sound", "disk", "wire"}
        /\ Sound!Init /\ Disk!Init /\ Wire!Init
        /\ device # "disk" => driver = "ata"

Next == /\ UNCHANGED device
        /\ \/ device = "sound" /\ Sound!Next /\ UNCHANGED <<disk, wire>>
           \/ device = "disk" /\ Disk!Next /\ UNCHANGED <<sound, wire>>
           \/ device = "wire" /\ Wire!Next /\ UNCHANGED <<sound, disk>>

Spec == Init /\ [][Next]_vars

(* A stream that runs will be stopped: see Hda. *)
RunIsWatched == Sound!RunIsWatched

(* No sound is cut short by the poll of the timer: see Hda. *)
PlaysToTheEnd == Sound!PlaysToTheEnd

(* A read or write that succeeds was executed: see Storage. *)
SuccessIsDone == Disk!SuccessIsDone

(* A device does not reach into a page it has no business in: see Storage. *)
PagesAreOwn == Disk!PagesAreOwn

(* E1000SendFrame loses no frame, and no descriptor: see Net. *)
FramesGoOut == Wire!FramesGoOut

(* The ARP cache gives a query the address of its host: see Net. *)
QueryGoesToServer == Wire!QueryGoesToServer

(* DNS_RESOLVE does not take one name for another: see Net. *)
AnswerIsOwn == Wire!AnswerIsOwn
============================================================================
