------------------------------ MODULE Storage ------------------------------
(***************************************************************************)
(* The reading and writing of one sector by the three drivers behind ata.c: *)
(* the queue pair of nvme.c, the command slot of ahci.c and the ports of    *)
(* ata.c.  A driver polls its device and gives up after a time; the device  *)
(* goes on.  Reads of CHDIR and DISKFREE run with interrupts on, and can be *)
(* killed.  What a device does is external.                                 *)
(***************************************************************************)
EXTENDS Integers, FiniteSets

CONSTANTS Pages,   \* pages for DMA
          SqSize, CqSize, \* entries of the queues
          MaxId    \* bound on the number of commands, far below the 2^16 of their ids

StorageAssumption == /\ 0 \notin Pages /\ SqSize \in Nat \ {0}
                     /\ CqSize \in Nat \ {0} /\ MaxId \in Nat

Id == 1 .. MaxId
NoEntry == [cid |-> 0, phase |-> 0, good |-> FALSE]

VARIABLES
    driver,               \* the one that was found at boot
    id, op, page, pc, result, \* the call under way; id counts the commands
    free,                 \* free pages
    sq, tail, cqHead, phase,  \* g_nvme
    head, cq, cqTail, cqPhase, inflight, \* its controller
    ci, is, running,      \* the AHCI port
    ata,                  \* the state of the ATA device; works on command "running"
    \* history
    pageOf,               \* the page of each command,
    done,                 \* the commands that were executed,
    stray,                \* a device used a page that was no longer the command's,
    past                  \* and what has gone wrong, a set of:
                          \*   late      a call gave its command up, the device did not
                          \*   untested  AHCI: a command given up was reported as a success
                          \*   overlap   AHCI: a command issued over one not finished
                          \*   unseen    ATA: the error of a write was not looked at

call == <<id, op, page, pc, result>>
g_nvme == <<sq, tail, cqHead, phase>>
controller == <<head, cq, cqTail, cqPhase, inflight>>
port == <<ci, is, running>>
devices == <<g_nvme, controller, port, ata>>
history == <<pageOf, done, stray, past>>
vars == <<driver, call, free, devices, history>>

Init == /\ driver \in {"ahci", "nvme", "ata"}
        /\ id = 0 /\ op = "read" /\ page = 0 /\ pc = "none" /\ result = "none"
        /\ free = Pages
        /\ sq = [i \in 0 .. SqSize - 1 |-> 0] /\ tail = 0 /\ cqHead = 0 /\ phase = 1
        /\ head = 0 /\ cq = [i \in 0 .. CqSize - 1 |-> NoEntry] /\ cqTail = 0 /\ cqPhase = 1
        /\ inflight = {}
        /\ ci = FALSE /\ is = FALSE /\ running = 0 /\ ata = "idle"
        /\ pageOf = [c \in Id |-> 0] /\ done = {} /\ stray = FALSE /\ past = {}

-----------------------------------------------------------------------------
(* AtaReadSectors, AtaWriteSectors: a page for the DMA, but for the ports. *)
Begin(o) ==
    /\ pc = "none" /\ id < MaxId
    /\ id' = id + 1 /\ op' = o /\ pc' = "submit" /\ result' = "none"
    /\ IF driver = "ata" THEN page' = 0 /\ UNCHANGED free
       ELSE \E p \in free : page' = p /\ free' = free \ {p}
    /\ pageOf' = [pageOf EXCEPT ![id'] = page']
    /\ UNCHANGED <<driver, devices, done, stray, past>>

Finish(r) == pc' = "end" /\ result' = r /\ UNCHANGED <<id, op, page>>

Busy == ata \in {"reading", "asking", "taking"}

Goto(p) == pc' = p /\ UNCHANGED <<id, op, page, result>>

End == /\ pc = "end" /\ pc' = "none" /\ page' = 0
       /\ free' = free \cup ({page} \ {0})
       /\ UNCHANGED <<driver, id, op, result, devices, history>>

(* Nothing of a call that is killed is undone; its page is never freed. *)
Kill == /\ pc \in {"submit", "wait"} /\ op = "read"
        /\ pc' = "none" /\ page' = 0
        /\ UNCHANGED <<driver, id, op, result, free, devices, history>>

(* Every wait is a number of looks.  AHCI asks whether the number is 0, which it is
   only after the last look: one more makes it 2^32 - 1. *)
TimeOut ==
    /\ pc \in {"wait", "flush"} \/ (pc = "submit" /\ Busy)
    /\ Finish(IF driver = "ahci" THEN "ok" ELSE "bad")
    /\ past' = past \cup {"late"} \cup (IF driver = "ahci" THEN {"untested"} ELSE {})
    /\ UNCHANGED <<driver, free, devices, pageOf, done, stray>>

-----------------------------------------------------------------------------
(* NVMe.  Nobody looks whether the submission queue is full. *)

NvmeSubmit_FreeEarly ==
    /\ driver = "nvme" /\ pc = "submit" /\ Goto("wait")
    /\ sq' = [sq EXCEPT ![tail] = id] /\ tail' = (tail + 1) % SqSize
    /\ free' = free \cup {page}
    /\ UNCHANGED <<driver, cqHead, phase, controller, port, ata, history>>

NvmeSubmit ==
    /\ driver = "nvme" /\ pc = "submit" /\ Goto("wait")
    /\ sq' = [sq EXCEPT ![tail] = id] /\ tail' = (tail + 1) % SqSize
    /\ UNCHANGED <<driver, free, cqHead, phase, controller, port, ata, history>>

Answers_Any(e) == TRUE
Answers(e) == e.cid = id

NvmeLook ==
    /\ driver = "nvme" /\ pc = "wait" /\ cq[cqHead].phase = phase
    /\ cqHead' = (cqHead + 1) % CqSize
    /\ phase' = IF cqHead' = 0 THEN 1 - phase ELSE phase
    /\ IF Answers(cq[cqHead]) THEN Finish(IF cq[cqHead].good THEN "ok" ELSE "bad") ELSE Goto("wait")
    /\ UNCHANGED <<driver, free, sq, tail, controller, port, ata, history>>

(* The device reaches into the page of command c. *)
Execute(c, good) ==
    /\ done' = IF good THEN done \cup {c} ELSE done
    /\ stray' = (stray \/ (pageOf[c] # 0 /\ (pageOf[c] \in free \/ (pageOf[c] = page /\ c # id))))
    /\ UNCHANGED <<pageOf, past>>

NvmeFetch ==
    /\ driver = "nvme" /\ head # tail
    /\ inflight' = inflight \cup {sq[head]} /\ head' = (head + 1) % SqSize
    /\ UNCHANGED <<driver, call, free, g_nvme, cq, cqTail, cqPhase, port, ata, history>>

NvmeComplete(c, good) ==
    /\ c \in inflight /\ (cqTail + 1) % CqSize # cqHead
    /\ Execute(c, good) /\ inflight' = inflight \ {c}
    /\ cq' = [cq EXCEPT ![cqTail] = [cid |-> c, phase |-> cqPhase, good |-> good]]
    /\ cqTail' = (cqTail + 1) % CqSize
    /\ cqPhase' = IF cqTail' = 0 THEN 1 - cqPhase ELSE cqPhase
    /\ UNCHANGED <<driver, call, free, g_nvme, head, port, ata>>

-----------------------------------------------------------------------------
(* AHCI: one command slot, whose bit is set again if it still is. *)

AhciIssue ==
    /\ driver = "ahci" /\ pc = "submit" /\ Goto("wait")
    /\ is' = FALSE /\ ci' = TRUE
    /\ running' = IF ci THEN running ELSE id
    /\ past' = IF ci THEN past \cup {"overlap"} ELSE past
    /\ UNCHANGED <<driver, free, g_nvme, controller, ata, pageOf, done, stray>>

AhciLook ==
    /\ driver = "ahci" /\ pc = "wait" /\ is' = FALSE
    /\ \/ ~ci /\ \E r \in {"ok", "bad"} : Finish(r) \* "bad" if it was the last look
       \/ ci /\ is /\ Finish("bad")
    /\ UNCHANGED <<driver, free, g_nvme, controller, ci, running, ata, history>>

(* After an error the port stands still until it is started again, which nobody does. *)
AhciComplete(good) ==
    /\ driver = "ahci" /\ running # 0
    /\ Execute(running, good) /\ running' = 0
    /\ ci' = ~good /\ is' = (is \/ ~good)
    /\ UNCHANGED <<driver, call, free, g_nvme, controller, ata>>

-----------------------------------------------------------------------------
(* The ports: the device is reading, or asking for the data of a write, then taking
   them.  The cache is flushed in the same step. *)

AtaIssue ==
    /\ driver = "ata" /\ pc = "submit" /\ ~Busy
    /\ ata' = (IF op = "read" THEN "reading" ELSE "asking") /\ running' = id /\ Goto("wait")
    /\ UNCHANGED <<driver, free, g_nvme, controller, ci, is, history>>

AtaRead ==
    /\ driver = "ata" /\ pc = "wait" /\ op = "read"
    /\ \/ ata = "error" /\ Finish("bad") /\ UNCHANGED ata
       \/ ata = "data" /\ Finish("ok") /\ ata' = "idle"
    /\ UNCHANGED <<driver, free, g_nvme, controller, port, history>>

AtaWrite ==
    /\ driver = "ata" /\ pc = "wait" /\ op = "write" /\ ata = "data"
    /\ ata' = "taking" /\ Goto("flush")
    /\ UNCHANGED <<driver, free, g_nvme, controller, port, history>>

AtaFlush ==
    /\ driver = "ata" /\ pc = "flush" /\ ~Busy /\ Finish("ok")
    /\ past' = IF ata = "error" THEN past \cup {"unseen"} ELSE past
    /\ UNCHANGED <<driver, free, devices, pageOf, done, stray>>

AtaComplete(good) ==
    /\ driver = "ata" /\ Busy
    /\ ata' = IF ~good THEN "error" ELSE IF ata = "taking" THEN "idle" ELSE "data"
    /\ Execute(running, good /\ ata # "asking")
    /\ UNCHANGED <<driver, call, free, g_nvme, controller, port>>

Driver == \/ \E o \in {"read", "write"} : Begin(o)
          \/ NvmeSubmit \/ NvmeLook \/ AhciIssue \/ AhciLook
          \/ AtaIssue \/ AtaRead \/ AtaWrite \/ AtaFlush
          \/ TimeOut \/ End \/ Kill

Device == \/ NvmeFetch
          \/ \E c \in inflight, good \in BOOLEAN : NvmeComplete(c, good)
          \/ \E good \in BOOLEAN : AhciComplete(good) \/ AtaComplete(good)

Next == Driver \/ Device

Spec == Init /\ [][Next]_vars

-----------------------------------------------------------------------------
(* A call that reports success has had its own command executed: completions of
   commands given up or killed are not taken for it, in whatever order they come.
   NVMe keeps this without exception, also when the queue was overrun; AHCI does
   not after a time-out, which it reports as a success, or with two commands in
   its slot, and ATA not when a write ends with an error. *)
SuccessIsDone ==
    pc = "end" /\ result = "ok" => id \in done \/ past \cap {"untested", "overlap", "unseen"} # {}

(* A device reaches only into the page of the call it works for, until a call has
   given its command up: then the page is freed although it is still in use. *)
PagesAreOwn == stray => "late" \in past
============================================================================
