--------------------------- MODULE SchedulerProofs --------------------------
(***************************************************************************)
(* Proofs about Scheduler for every number of process ids and every length *)
(* of sleep: type correctness, the memory and chain invariants, what a     *)
(* halt means, and that the scheduler implements JobStack.                 *)
(***************************************************************************)
EXTENDS Scheduler, TLAPS

\* Memory: what NoUseAfterFree says, and why it lasts.  The owner of the
\* kernel stack in use is still listed, ids in use are below nextPid, and what
\* WAITPID is about to free it has unlinked.
MemInv ==
  /\ current \in procs
  /\ procs \subseteq held
  /\ \A p \in procs : p < nextPid
  /\ mode # "user" => kstack \in procs
  /\ mode = "loaded" => target \in procs
  /\ mode = "free" => target \notin procs

\* The process in control when no EXIT is under way.
Control ==
  /\ current \in Live
  /\ \A p \in Live : p <= current
  /\ \A p \in Live \ {current} : Suspended(p)
  /\ mode \in {"user", "syscall", "leaving", "reap", "free"} =>
       tstate[current] = "READY"
  /\ mode \in {"syscall", "sleep", "wait", "reap", "free"} => kstack = current
  /\ mode # "wait" => waitPid[current] = 0
  /\ mode = "wait" => /\ tstate[current] = "BLOCKED"
                      /\ waitPid[current] = target
                      /\ target \in Live
                      /\ wakeup[current] = Unset

\* During an EXIT: nobody is left, or one heir, newer than the other jobs.
HandOver ==
  /\ current \notin Live
  /\ Live # {} => \E h \in Live : /\ Heir(h)
                                  /\ \A p \in Live \ {h} : p < h /\ Suspended(p)
  /\ mode = "loaded" => target \in Live

\* What makes the chain a chain: a suspended process waits for its successor,
\* and every live process but the shell is waited for.
Linked ==
  /\ \A p \in Live \ {current}, q \in Live :
       waitPid[p] # 0 /\ p < q => waitPid[p] <= q
  /\ \A c \in Live \ {Shell} : \E p \in Live \ {current} : waitPid[p] = c

ChainInv ==
  /\ mode \notin ExitModes \cup HaltModes => Control
  /\ mode \in ExitModes => HandOver
  /\ mode = "idle" => Live = {}
  /\ mode # "dead" => Linked

IInv == TypeOK /\ MemInv /\ ChainInv

\* A step that neither ends nor starts a process, nor moves the processor.
Quiet == Live' = Live /\ current' = current

-----------------------------------------------------------------------------

LEMMA FirstOfNone == First({}) = NoThread
BY DEF First

LEMMA FirstOfOne == ASSUME NEW h \in Pid PROVE First({h}) = h
BY BoundsAssumption DEF First, Pid

LEMMA InitIInv == Init => IInv
<1> SUFFICES ASSUME Init PROVE IInv
  OBVIOUS
<1>1. TypeOK
  BY BoundsAssumption DEF Init, TypeOK, Pid, Shell, Unset, NoThread, Modes
<1>2. MemInv
  BY DEF Init, MemInv, Shell
<1>3. Live = {Shell}
  BY BoundsAssumption DEF Init, Live, Terminated, Pid, Shell
<1>4. Control
  BY <1>3, BoundsAssumption DEF Init, Control, Pid, Shell
<1>5. Linked
  BY <1>3 DEF Init, Linked
<1> QED
  BY <1>1, <1>2, <1>4, <1>5 DEF IInv, ChainInv, Init, ExitModes, HaltModes

LEMMA ExecIInv ==
  IInv /\ Exec => /\ IInv' /\ Live' = Live \cup {nextPid} /\ current' = nextPid
                  /\ current \in Live /\ nextPid \in Pid
                  /\ \A q \in Live : q < nextPid
<1> SUFFICES ASSUME IInv, Exec
             PROVE  /\ IInv' /\ Live' = Live \cup {nextPid} /\ current' = nextPid
                    /\ current \in Live /\ nextPid \in Pid
                    /\ \A q \in Live : q < nextPid
  OBVIOUS
<1>0. nextPid \in Pid /\ nextPid \notin procs /\ current \in procs /\ current # nextPid
  BY BoundsAssumption DEF IInv, TypeOK, MemInv, Exec, Pid
<1>1. TypeOK'
  <2>1. procs' \subseteq Pid /\ held' \subseteq Pid /\ nextPid' \in 1..(MaxPid + 1)
    BY <1>0, BoundsAssumption DEF IInv, TypeOK, Exec, Pid
  <2>2. /\ tstate' \in [Pid -> {"READY", "BLOCKED", "TERMINATED"}]
        /\ waitPid' \in [Pid -> Pid \cup {0}]
        /\ saved' \in [Pid -> {"none", "entry", "call"}]
    BY <1>0 DEF IInv, TypeOK, Exec
  <2>3. wakeup' \in [Pid -> Unset..MaxSleep]
    BY <1>0, BoundsAssumption DEF IInv, TypeOK, Exec, Unset
  <2> QED
    BY <1>0, <2>1, <2>2, <2>3 DEF IInv, TypeOK, Exec
<1>2. MemInv'
  BY <1>0 DEF IInv, TypeOK, MemInv, Exec, Pid
<1>3. Control
  BY DEF IInv, ChainInv, Exec, ExitModes, HaltModes
<1>4. Live' = Live \cup {nextPid}
  BY <1>0, <1>3 DEF IInv, TypeOK, MemInv, Control, Exec, Live, Terminated, Pid
<1>5. Control'
  BY <1>0, <1>3, <1>4 DEF IInv, TypeOK, MemInv, Control, Exec, Live, Suspended, Pid
<1>6. Linked'
  BY <1>0, <1>3, <1>4 DEF IInv, TypeOK, MemInv, ChainInv, Control, Linked, Exec, Live, Suspended, Pid, HaltModes
<1>7. current \in Live /\ \A q \in Live : q < nextPid
  BY <1>3 DEF IInv, MemInv, Control, Live
<1>8. current' = nextPid
  BY DEF Exec
<1> QED
  BY <1>0, <1>1, <1>2, <1>4, <1>5, <1>6, <1>7, <1>8
  DEF IInv, ChainInv, Exec, ExitModes, HaltModes

LEMMA ExecFailsIInv == IInv /\ ExecFails => IInv' /\ Quiet
<1> SUFFICES ASSUME IInv, ExecFails PROVE IInv' /\ Quiet
  OBVIOUS
<1>1. TypeOK'
  BY BoundsAssumption DEF IInv, TypeOK, ExecFails, Pid
<1>2. MemInv'
  BY BoundsAssumption DEF IInv, TypeOK, MemInv, ExecFails, Pid
<1>3. Quiet
  BY DEF Quiet, Live, Terminated, ExecFails
<1>4. ChainInv'
  BY <1>3 DEF IInv, Quiet, ChainInv, Control, HandOver, Linked, ExecFails, Suspended, Heir
<1> QED
  BY <1>1, <1>2, <1>3, <1>4 DEF IInv

LEMMA LiveFacts ==
  ASSUME TypeOK
  PROVE  /\ Live \subseteq procs
         /\ Live \subseteq Pid
         /\ \A p \in procs : p \in Live <=> tstate[p] # "TERMINATED"
BY DEF TypeOK, Live, Terminated

\* While a process is in control no other thread can be scheduled.
LEMMA NobodyElseRuns ==
  ASSUME TypeOK, Control
  PROVE  Runnable(tstate) = {} /\ PsScheduleNext(tstate) = NoThread
<1>1. Runnable(tstate) = {}
  BY DEF Runnable, Control, Suspended, Live, Terminated
<1> QED
  BY <1>1, FirstOfNone DEF PsScheduleNext

\* The process in control was started by one that waits for it, and that is
\* newer than the rest.
LEMMA HeirExists ==
  ASSUME TypeOK, Control, Linked, current # Shell
  PROVE  \E h \in Live \ {current} :
           /\ Suspended(h) /\ waitPid[h] = current
           /\ \A p \in Live \ {h, current} :
                p < h /\ Suspended(p) /\ waitPid[p] # current
<1>1. PICK h \in Live \ {current} : waitPid[h] = current
  BY DEF Linked, Control
<1>2. ASSUME NEW p \in Live \ {h, current}
      PROVE  p < h /\ Suspended(p) /\ waitPid[p] # current
  <2>1. /\ p \in 1..MaxPid /\ h \in 1..MaxPid /\ current \in 1..MaxPid
        /\ p <= current /\ h <= current /\ Suspended(p)
    BY <1>1, <1>2, LiveFacts DEF Control, Pid
  <2>2. waitPid[p] # 0 /\ waitPid[h] # 0 /\ waitPid[p] \in 0..MaxPid
    <3>1. waitPid[p] \in Live /\ p < waitPid[p]
      BY <2>1 DEF Suspended
    <3>2. waitPid[p] \in 1..MaxPid
      BY <3>1, LiveFacts DEF Pid
    <3>3. waitPid[h] \in 1..MaxPid
      BY <1>1, <2>1
    <3> QED
      BY <3>2, <3>3, BoundsAssumption
  <2>3. ~ (h < p)
    BY <1>1, <1>2, <2>1, <2>2, BoundsAssumption DEF Linked
  <2>4. p < h
    BY <1>2, <2>1, <2>3, BoundsAssumption
  <2>5. waitPid[p] <= h
    BY <1>1, <1>2, <2>2, <2>4 DEF Linked
  <2> QED
    BY <1>1, <2>1, <2>2, <2>4, <2>5, BoundsAssumption
<1> QED
  BY <1>1, <1>2 DEF Control

-----------------------------------------------------------------------------
(* EXIT.                                                                   *)

LEMMA ExitMarkIInv == IInv /\ ExitMark => IInv' /\ Live' = Live \ {current}
<1> SUFFICES ASSUME IInv, ExitMark PROVE IInv' /\ Live' = Live \ {current}
  OBVIOUS
<1>1. TypeOK'
  BY DEF IInv, TypeOK, MemInv, ExitMark, Enter, Modes, ExitModes
<1>2. MemInv'
  BY DEF IInv, TypeOK, MemInv, ExitMark, Enter
<1>3. TypeOK /\ Control /\ Linked /\ current \in Pid
  BY DEF IInv, ChainInv, MemInv, TypeOK, ExitMark, Enter, ExitModes, HaltModes
<1>4. Live' = Live \ {current}
  BY <1>3 DEF TypeOK, ExitMark, Live, Terminated
<1>5. HandOver'
  <2>1. CASE current = Shell
    <3>1. Live' = {}
      BY <1>3, <1>4, <2>1, LiveFacts, BoundsAssumption DEF Control, Shell, Pid
    <3> QED
      BY <3>1 DEF HandOver, ExitMark, Enter
  <2>2. CASE current # Shell
    <3>1. PICK h \in Live \ {current} :
            /\ Suspended(h) /\ waitPid[h] = current
            /\ \A p \in Live \ {h, current} :
                 p < h /\ Suspended(p) /\ waitPid[p] # current
      BY <1>3, <2>2, HeirExists
    <3>2. Heir(h)'
      BY <1>3, <3>1, LiveFacts DEF TypeOK, ExitMark, Enter, Suspended, Heir
    <3>3. ASSUME NEW p \in Live \ {h, current}
          PROVE  p < h /\ Suspended(p)'
      BY <1>3, <1>4, <3>1, <3>3, LiveFacts DEF TypeOK, ExitMark, Enter, Suspended
    <3> QED
      BY <1>4, <3>1, <3>2, <3>3 DEF HandOver, ExitMark, Enter
  <2> QED
    BY <2>1, <2>2
<1>6. Linked'
  BY <1>3, <1>4 DEF Linked, ExitMark
<1> QED
  BY <1>1, <1>2, <1>4, <1>5, <1>6 DEF IInv, ChainInv, ExitMark, Enter, ExitModes, HaltModes

LEMMA ExitWakeIInv == IInv /\ ExitWake => IInv' /\ Quiet
<1> SUFFICES ASSUME IInv, ExitWake PROVE IInv' /\ Quiet
  OBVIOUS
<1> DEFINE W == Waiters(tstate, current)
<1>0. /\ TypeOK /\ HandOver /\ Linked /\ mode = "marked" /\ mode' = "woken"
      /\ current \in Pid
  BY DEF IInv, ChainInv, MemInv, TypeOK, ExitWake, ExitModes
<1>1. W \subseteq procs /\ \A p \in W : tstate[p] = "BLOCKED" /\ waitPid[p] = current
  BY DEF Waiters
<1>2. /\ \A p \in Pid : tstate'[p] = IF p \in W THEN "READY" ELSE tstate[p]
      /\ \A p \in Pid : waitPid'[p] = IF p \in W THEN 0 ELSE waitPid[p]
  BY DEF ExitWake, Readied, Unwaited
<1>3. TypeOK'
  BY <1>0 DEF TypeOK, ExitWake, Readied, Unwaited, Modes, ExitModes
<1>4. MemInv'
  BY DEF IInv, MemInv, ExitWake
<1>5. Live' = Live
  BY <1>0, <1>1, <1>2 DEF TypeOK, ExitWake, Live, Terminated
<1>6. HandOver'
  <2>1. CASE Live = {}
    BY <1>0, <1>5, <2>1 DEF HandOver, ExitWake
  <2>2. CASE Live # {}
    <3>1. PICK h \in Live : Heir(h) /\ \A p \in Live \ {h} : p < h /\ Suspended(p)
      BY <1>0, <2>2 DEF HandOver
    <3>2. Heir(h)'
      BY <1>0, <1>1, <1>2, <3>1, LiveFacts DEF Heir, Waiters, ExitWake
    <3>3. ASSUME NEW p \in Live \ {h} PROVE Suspended(p)'
      BY <1>0, <1>1, <1>2, <1>5, <3>1, <3>3, LiveFacts DEF HandOver, Suspended, ExitWake
    <3> QED
      BY <1>0, <1>5, <3>1, <3>2, <3>3 DEF HandOver, ExitWake
  <2> QED
    BY <2>1, <2>2
<1>7. Linked'
  BY <1>0, <1>1, <1>2, <1>5, LiveFacts DEF Linked, HandOver, ExitWake
<1> QED
  BY <1>0, <1>3, <1>4, <1>5, <1>6, <1>7
  DEF IInv, ChainInv, Quiet, ExitWake, ExitModes, HaltModes

LEMMA ExitLoadIInv ==
  IInv /\ ExitLoad => IInv' /\ Quiet /\ (mode' = "idle" => Live' = {})
<1> SUFFICES ASSUME IInv, ExitLoad
             PROVE  IInv' /\ Quiet /\ (mode' = "idle" => Live' = {})
  OBVIOUS
<1>0. /\ TypeOK /\ HandOver /\ Linked /\ mode = "woken" /\ current \in Pid
  BY DEF IInv, ChainInv, MemInv, TypeOK, ExitLoad, ExitModes
<1>1. Quiet
  BY DEF Quiet, ExitLoad, Live, Terminated
<1>2. CASE Live = {}
  <2>1. Runnable(tstate) = {}
    BY <1>2 DEF Runnable, Live, Terminated
  <2>2. mode' = "idle" /\ saved' = saved /\ target' = target
    BY <2>1, FirstOfNone DEF ExitLoad, PsScheduleNext
  <2>3. TypeOK'
    BY <1>0, <2>2 DEF TypeOK, ExitLoad, Modes, HaltModes
  <2>4. MemInv'
    BY <1>0, <2>2 DEF IInv, MemInv, ExitLoad
  <2>5. Linked'
    BY <1>1, <1>2 DEF Linked, Quiet
  <2> QED
    BY <1>1, <1>2, <2>2, <2>3, <2>4, <2>5 DEF IInv, ChainInv, Quiet, ExitModes, HaltModes
<1>3. CASE Live # {}
  <2>1. PICK h \in Live : Heir(h) /\ \A p \in Live \ {h} : p < h /\ Suspended(p)
    BY <1>0, <1>3 DEF HandOver
  <2>2. h \in procs /\ h \in Pid /\ h # NoThread
    BY <1>0, <2>1, LiveFacts DEF Pid, NoThread
  <2>3. Runnable(tstate) = {h}
    <3>1. h \in Runnable(tstate)
      BY <1>0, <2>1, <2>2 DEF Heir, Runnable, HandOver
    <3>2. \A p \in Runnable(tstate) : p = h
      BY <1>0, <2>1, LiveFacts DEF Runnable, Suspended
    <3> QED
      BY <3>1, <3>2
  <2>4. mode' = "loaded" /\ target' = h /\ saved' = [saved EXCEPT ![h] = "none"]
    BY <2>2, <2>3, FirstOfOne DEF ExitLoad, PsScheduleNext
  <2>5. TypeOK'
    BY <1>0, <2>2, <2>4 DEF TypeOK, ExitLoad, Modes, ExitModes
  <2>6. MemInv'
    BY <1>0, <2>2, <2>4 DEF IInv, MemInv, ExitLoad
  <2>7. Heir(h)'
    BY <1>0, <2>1, <2>2, <2>4 DEF TypeOK, Heir, ExitLoad
  <2>8. \A p \in Live \ {h} : Suspended(p)'
    BY <1>0, <1>1, <2>1, <2>2, <2>4, LiveFacts DEF TypeOK, Suspended, ExitLoad, Quiet
  <2>9. HandOver'
    BY <1>0, <1>1, <2>1, <2>4, <2>7, <2>8 DEF HandOver, Quiet
  <2>10. Linked'
    BY <1>0, <1>1 DEF Linked, Quiet, ExitLoad
  <2> QED
    BY <1>1, <2>4, <2>5, <2>6, <2>9, <2>10 DEF IInv, ChainInv, ExitModes, HaltModes
<1> QED
  BY <1>2, <1>3

\* The hand-over at the end of EXIT: the heir becomes the process in control.
LEMMA ExitSwitchIInv ==
  IInv /\ ExitSwitch => /\ IInv' /\ Live' = Live
                        /\ current \notin Live /\ current' \in Live
                        /\ \A q \in Live : q <= current'
<1> SUFFICES ASSUME IInv, ExitSwitch
             PROVE  /\ IInv' /\ Live' = Live
                    /\ current \notin Live /\ current' \in Live
                    /\ \A q \in Live : q <= current'
  OBVIOUS
<1>0. /\ TypeOK /\ HandOver /\ Linked /\ mode = "loaded" /\ mode' = "leaving"
      /\ target \in Live
  BY DEF IInv, ChainInv, HandOver, ExitSwitch, ExitModes
<1>1. PICK h \in Live : Heir(h) /\ \A p \in Live \ {h} : p < h /\ Suspended(p)
  BY <1>0 DEF HandOver
<1>2. h = target /\ current' = h /\ tstate[h] = "READY" /\ waitPid[h] = 0 /\ h \in Pid
  BY <1>0, <1>1, LiveFacts DEF Heir, ExitSwitch
<1>3. TypeOK'
  BY <1>0, <1>2 DEF TypeOK, ExitSwitch, Modes
<1>4. MemInv'
  BY <1>0 DEF IInv, MemInv, ExitSwitch
<1>5. Live' = Live
  BY DEF Live, Terminated, ExitSwitch
<1>6. \A q \in Live : q <= h
  BY <1>0, <1>1, LiveFacts, BoundsAssumption DEF Pid
<1>7. Control'
  <2>1. \A p \in Live \ {h} : Suspended(p)'
    BY <1>1, <1>5 DEF Suspended, ExitSwitch
  <2> QED
    BY <1>0, <1>1, <1>2, <1>5, <1>6, <2>1 DEF Control, ExitSwitch
<1>8. Linked'
  BY <1>0, <1>2, <1>5, LiveFacts DEF Linked, HandOver, ExitSwitch, Pid
<1> QED
  BY <1>0, <1>1, <1>2, <1>3, <1>4, <1>5, <1>6, <1>7, <1>8
  DEF IInv, ChainInv, HandOver, ExitModes, HaltModes

LEMMA ExitReturnIInv == IInv /\ ExitReturn => IInv' /\ Quiet
<1> SUFFICES ASSUME IInv, ExitReturn PROVE IInv' /\ Quiet
  OBVIOUS
<1>0. TypeOK /\ Control /\ Linked /\ mode = "leaving" /\ mode' = "user"
  BY DEF IInv, ChainInv, ExitReturn, Leave, ExitModes, HaltModes
<1>1. TypeOK'
  BY <1>0 DEF TypeOK, ExitReturn, Leave, Modes
<1>2. MemInv'
  BY <1>0 DEF IInv, MemInv, ExitReturn, Leave
<1>3. Quiet
  BY DEF Quiet, Live, Terminated, ExitReturn
<1>4. Control'
  BY <1>0, <1>3 DEF Control, Quiet, Suspended, ExitReturn
<1>5. Linked'
  BY <1>0, <1>3 DEF Linked, Quiet, ExitReturn
<1> QED
  BY <1>0, <1>1, <1>2, <1>3, <1>4, <1>5 DEF IInv, ChainInv, ExitModes, HaltModes

-----------------------------------------------------------------------------
(* SLEEP, WAITPID and the other calls.                                     *)

LEMMA SleepBlockIInv ==
  ASSUME IInv, NEW t \in 1..MaxSleep, SleepBlock(t)
  PROVE  IInv' /\ Quiet
<1>0. /\ TypeOK /\ Control /\ Linked /\ mode = "user" /\ mode' = "sleep"
      /\ current \in Pid /\ current \in procs /\ kstack' = current
  BY DEF IInv, ChainInv, MemInv, TypeOK, SleepBlock, Enter, ExitModes, HaltModes
<1>1. TypeOK'
  BY <1>0, BoundsAssumption DEF TypeOK, SleepBlock, Modes, Unset
<1>2. MemInv'
  BY <1>0 DEF IInv, MemInv, SleepBlock
<1>3. Quiet
  BY <1>0 DEF Quiet, TypeOK, Control, Live, Terminated, SleepBlock
<1>4. Control'
  <2>1. \A p \in Live \ {current} : Suspended(p)'
    BY <1>0, <1>3, LiveFacts DEF TypeOK, Control, Quiet, Suspended, SleepBlock
  <2> QED
    BY <1>0, <1>3, <2>1 DEF Control, Quiet, SleepBlock
<1>5. Linked'
  BY <1>0, <1>3 DEF Linked, Quiet, SleepBlock
<1> QED
  BY <1>0, <1>1, <1>2, <1>3, <1>4, <1>5 DEF IInv, ChainInv, ExitModes, HaltModes

LEMMA SleepReturnIInv == IInv /\ SleepReturn => IInv' /\ Quiet
<1> SUFFICES ASSUME IInv, SleepReturn PROVE IInv' /\ Quiet
  OBVIOUS
<1>0. /\ TypeOK /\ Control /\ Linked /\ mode = "sleep" /\ mode' = "user"
      /\ current \in Pid /\ current \in procs /\ kstack' = 0 /\ target' = NoThread
  BY DEF IInv, ChainInv, MemInv, TypeOK, SleepReturn, Leave, ExitModes, HaltModes
<1>1. /\ tstate' = [tstate EXCEPT ![current] = "READY"]
      /\ saved' = [saved EXCEPT ![current] = "none"]
      /\ current' = current
  BY <1>0, NobodyElseRuns DEF SleepReturn
<1>2. TypeOK'
  BY <1>0, <1>1 DEF TypeOK, SleepReturn, Modes
<1>3. MemInv'
  BY <1>0, <1>1 DEF IInv, MemInv, SleepReturn
<1>4. Quiet
  BY <1>0, <1>1 DEF Quiet, TypeOK, Control, Live, Terminated, SleepReturn
<1>5. Control'
  <2>1. \A p \in Live \ {current} : Suspended(p)'
    BY <1>0, <1>1, <1>4, LiveFacts DEF TypeOK, Control, Quiet, Suspended, SleepReturn
  <2>2. tstate'[current] = "READY" /\ waitPid'[current] = 0
    BY <1>0, <1>1 DEF TypeOK, Control, SleepReturn
  <2> QED
    BY <1>0, <1>4, <2>1, <2>2 DEF Control, Quiet
<1>6. Linked'
  BY <1>0, <1>4 DEF Linked, Quiet, SleepReturn
<1> QED
  BY <1>0, <1>2, <1>3, <1>4, <1>5, <1>6 DEF IInv, ChainInv, ExitModes, HaltModes

\* A step of a call that leaves the processes and their threads alone.
LEMMA CallIInv ==
  ASSUME IInv, UNCHANGED <<procs, tstate, waitPid, wakeup, saved, current, nextPid, held>>,
         \/ Enter("syscall") /\ target' = target
         \/ Enter("reap") /\ target' = target
         \/ mode \in {"syscall", "reap"} /\ Leave
  PROVE  IInv' /\ Quiet
<1>0. /\ TypeOK /\ Control /\ Linked /\ current \in Pid /\ current \in procs
      /\ mode \in {"user", "syscall", "reap"} /\ mode' \in {"user", "syscall", "reap"}
      /\ mode' # "user" => kstack' = current
  BY DEF IInv, ChainInv, MemInv, TypeOK, Enter, Leave, ExitModes, HaltModes
<1>1. TypeOK'
  BY <1>0 DEF TypeOK, Enter, Leave, Modes
<1>2. MemInv'
  BY <1>0 DEF IInv, MemInv
<1>3. Quiet
  BY DEF Quiet, Live, Terminated
<1>4. Control'
  BY <1>0, <1>3 DEF Control, Quiet, Suspended
<1>5. Linked'
  BY <1>0, <1>3 DEF Linked, Quiet
<1> QED
  BY <1>0, <1>1, <1>2, <1>3, <1>4, <1>5 DEF IInv, ChainInv, ExitModes, HaltModes

LEMMA WaitBlockIInv ==
  ASSUME IInv, NEW pid \in Pid, WaitBlock(pid)
  PROVE  IInv' /\ Quiet
<1>0. /\ TypeOK /\ Control /\ Linked /\ mode = "user" /\ pid \in Live
      /\ current \in Pid /\ current \in procs
  BY DEF IInv, ChainInv, MemInv, TypeOK, WaitBlock, ExitModes, HaltModes
<1>1. /\ saved' = [saved EXCEPT ![current] = "call"]
      /\ target' = pid /\ mode' = "wait" /\ kstack' = current /\ current' = current
  BY <1>0, NobodyElseRuns DEF WaitBlock, Enter
<1>2. TypeOK'
  BY <1>0, <1>1, BoundsAssumption DEF TypeOK, WaitBlock, Modes, Unset
<1>3. MemInv'
  BY <1>0, <1>1 DEF IInv, MemInv, WaitBlock
<1>4. Quiet
  BY <1>0, <1>1 DEF Quiet, TypeOK, Control, Live, Terminated, WaitBlock
<1>5. Control'
  <2>1. \A p \in Live \ {current} : Suspended(p)'
    BY <1>0, <1>1, <1>4, LiveFacts DEF TypeOK, Control, Quiet, Suspended, WaitBlock
  <2>2. tstate'[current] = "BLOCKED" /\ waitPid'[current] = pid /\ wakeup'[current] = Unset
    BY <1>0 DEF TypeOK, WaitBlock
  <2> QED
    BY <1>0, <1>1, <1>4, <2>1, <2>2 DEF Control, Quiet
<1>6. Linked'
  BY <1>0, <1>4, LiveFacts DEF TypeOK, Linked, Quiet, WaitBlock
<1> QED
  BY <1>0, <1>1, <1>2, <1>3, <1>4, <1>5, <1>6 DEF IInv, ChainInv, ExitModes, HaltModes

\* The halt loop of WAITPID never gets anywhere by itself: the process it
\* waits for is an ancestor of the caller or the caller.
LEMMA WaitPollStutters == IInv /\ WaitPoll => UNCHANGED vars
<1> SUFFICES ASSUME IInv, WaitPoll PROVE UNCHANGED vars
  OBVIOUS
<1>1. TypeOK /\ Control /\ target \in Live
  BY DEF IInv, ChainInv, Control, WaitPoll, ExitModes, HaltModes
<1> QED
  BY <1>1, NobodyElseRuns DEF WaitPoll, vars

LEMMA ReapUnlinkIInv == IInv /\ ReapUnlink => IInv' /\ Quiet
<1> SUFFICES ASSUME IInv, ReapUnlink PROVE IInv' /\ Quiet
  OBVIOUS
<1>0. /\ TypeOK /\ Control /\ Linked /\ mode = "reap" /\ mode' = "free"
      /\ current \in Pid /\ current \in procs /\ kstack = current
  BY DEF IInv, ChainInv, MemInv, TypeOK, Control, ReapUnlink, ExitModes, HaltModes
<1>1. PICK p \in Terminated : target' = p /\ procs' = procs \ {p}
  BY DEF ReapUnlink
<1>2. p \in procs /\ p \notin Live /\ p \in Pid
  BY <1>0, <1>1 DEF TypeOK, Live, Terminated
<1>3. TypeOK'
  BY <1>0, <1>1, <1>2 DEF TypeOK, ReapUnlink, Modes
<1>4. MemInv'
  BY <1>0, <1>1, <1>2 DEF IInv, MemInv, Control, ReapUnlink
<1>5. Quiet
  BY <1>1, <1>2 DEF Quiet, Live, Terminated, ReapUnlink
<1>6. Control'
  BY <1>0, <1>5 DEF Control, Quiet, Suspended, ReapUnlink
<1>7. Linked'
  BY <1>0, <1>5 DEF Linked, Quiet, ReapUnlink
<1> QED
  BY <1>0, <1>3, <1>4, <1>5, <1>6, <1>7 DEF IInv, ChainInv, ExitModes, HaltModes

LEMMA ReapFreeIInv == IInv /\ ReapFree => IInv' /\ Quiet
<1> SUFFICES ASSUME IInv, ReapFree PROVE IInv' /\ Quiet
  OBVIOUS
<1>0. /\ TypeOK /\ Control /\ Linked /\ mode = "free" /\ mode' = "reap"
      /\ current \in procs /\ target \notin procs /\ kstack = current
  BY DEF IInv, ChainInv, MemInv, Control, ReapFree, ExitModes, HaltModes
<1>1. current' = current
  BY <1>0 DEF ReapFree, Forget
<1>2. TypeOK'
  BY <1>0, <1>1 DEF TypeOK, ReapFree, Modes
<1>3. MemInv'
  BY <1>0, <1>1 DEF IInv, MemInv, ReapFree
<1>4. Quiet
  BY <1>1 DEF Quiet, Live, Terminated, ReapFree
<1>5. Control'
  BY <1>0, <1>4 DEF Control, Quiet, Suspended, ReapFree
<1>6. Linked'
  BY <1>0, <1>4 DEF Linked, Quiet, ReapFree
<1> QED
  BY <1>0, <1>2, <1>3, <1>4, <1>5, <1>6 DEF IInv, ChainInv, ExitModes, HaltModes

-----------------------------------------------------------------------------
(* The kill path.                                                          *)

\* What a kill does to the jobs: the machine halts with none left, or inside
\* the hand-over of an EXIT, or else the newest job left gets the processor.
Killed ==
  /\ Live' = Live \ {current}
  /\ \/ mode' = "dead" /\ current' = current /\ (Live' = {} \/ mode = "loaded")
     \/ mode' = "user" /\ current' \in Live' /\ \A q \in Live' : q <= current'

\* The thread states and the waiters a kill computes, as it computes them.
KillStates == [tstate EXCEPT ![current] = "TERMINATED"]
KillWaiters == Waiters(KillStates, current)

\* A kill with nobody to give the processor to.
LEMMA KillHalts ==
  ASSUME IInv, mode # "dead", SyscallKillCurrentProcess,
         Runnable(Readied(KillStates, KillWaiters)) = {},
         Live \ {current} = {} \/ mode = "loaded"
  PROVE  IInv' /\ Killed
<1>0. TypeOK /\ MemInv /\ current \in Pid /\ current \in procs
  BY DEF IInv, MemInv, TypeOK
<1>1. /\ mode' = "dead" /\ kstack' = IF mode = "user" THEN current ELSE kstack
      /\ current' = current /\ saved' = saved /\ target' = target
      /\ tstate' = Readied(KillStates, KillWaiters) /\ waitPid' = Unwaited(KillWaiters)
      /\ UNCHANGED <<procs, wakeup, nextPid, held>>
  BY FirstOfNone DEF SyscallKillCurrentProcess, PsScheduleNext, KillStates, KillWaiters
<1>2. \A p \in KillWaiters : p # current /\ tstate[p] = "BLOCKED" /\ p \in procs
  BY <1>0 DEF KillWaiters, Waiters, KillStates, TypeOK
<1>3. TypeOK'
  BY <1>0, <1>1 DEF TypeOK, Readied, Unwaited, KillStates, Modes, HaltModes
<1>4. MemInv'
  BY <1>0, <1>1 DEF MemInv
<1>5. Live' = Live \ {current}
  BY <1>0, <1>1, <1>2 DEF TypeOK, Live, Terminated, Readied, KillStates
<1> QED
  BY <1>1, <1>3, <1>4, <1>5 DEF IInv, ChainInv, Killed, ExitModes, HaltModes

\* A kill that hands the processor to h, the newest job left.
LEMMA KillSwitches ==
  ASSUME IInv, Linked, mode # "dead", SyscallKillCurrentProcess,
         NEW h \in Live \ {current},
         \/ h \in KillWaiters /\ tstate[h] = "BLOCKED"
         \/ h \notin KillWaiters /\ tstate[h] = "READY" /\ waitPid[h] = 0,
         saved[h] # "none",
         \A p \in Live \ {h, current} :
           p < h /\ Suspended(p) /\ waitPid[p] # current
  PROVE  IInv' /\ Killed
<1>0. /\ TypeOK /\ MemInv /\ current \in Pid /\ current \in procs
      /\ h \in Pid /\ h \in procs /\ h # NoThread
  BY LiveFacts DEF IInv, MemInv, TypeOK, Pid, NoThread
<1>1. \A p \in KillWaiters : /\ p # current /\ tstate[p] = "BLOCKED"
                             /\ p \in procs /\ waitPid[p] = current
  BY <1>0 DEF KillWaiters, Waiters, KillStates, TypeOK
<1>2. \A p \in KillWaiters : p = h
  BY <1>0, <1>1, LiveFacts
<1> DEFINE ts == Readied(KillStates, KillWaiters)
<1>3. \A p \in Pid : ts[p] = IF p \in KillWaiters THEN "READY"
                             ELSE IF p = current THEN "TERMINATED" ELSE tstate[p]
  BY <1>0 DEF Readied, KillStates, TypeOK
<1>4. Runnable(ts) = {h}
  <2>1. h \in Runnable(ts)
    BY <1>0, <1>3 DEF Runnable
  <2>2. ASSUME NEW p \in Runnable(ts) PROVE p = h
    <3>1. p \in procs /\ p \in Pid /\ ts[p] = "READY" /\ p # current
      BY <1>0, <2>2 DEF Runnable, TypeOK
    <3>2. p \in Live
      BY <1>0, <1>1, <1>3, <3>1, LiveFacts
    <3> QED
      BY <1>2, <1>3, <3>1, <3>2 DEF Suspended
  <2> QED
    BY <2>1, <2>2
<1>5. /\ saved' = [saved EXCEPT ![h] = "none"] /\ current' = h
      /\ mode' = "user" /\ kstack' = 0 /\ target' = NoThread
      /\ tstate' = ts /\ waitPid' = Unwaited(KillWaiters)
      /\ UNCHANGED <<procs, wakeup, nextPid, held>>
  <2>1. PsScheduleNext(ts) = h
    BY <1>0, <1>4, FirstOfOne DEF PsScheduleNext
  <2> HIDE DEF ts
  <2>2. /\ tstate' = ts /\ waitPid' = Unwaited(KillWaiters)
        /\ IF PsScheduleNext(ts) = NoThread
           THEN /\ mode' = "dead"
                /\ kstack' = IF mode = "user" THEN current ELSE kstack
                /\ UNCHANGED <<saved, current, target>>
           ELSE SwitchTo(PsScheduleNext(ts)) /\ Leave
        /\ UNCHANGED <<procs, wakeup, nextPid, held>>
    BY DEF SyscallKillCurrentProcess, KillStates, KillWaiters, ts
  <2> QED
    BY <1>0, <2>1, <2>2 DEF SwitchTo, Leave
<1>6. \A p \in Pid : waitPid'[p] = IF p \in KillWaiters THEN 0 ELSE waitPid[p]
  BY <1>5 DEF Unwaited
<1>7. TypeOK'
  BY <1>0, <1>5 DEF TypeOK, Readied, Unwaited, KillStates, Modes
<1>8. MemInv'
  BY <1>0, <1>5 DEF MemInv
<1>9. Live' = Live \ {current}
  BY <1>0, <1>1, <1>3, <1>5 DEF TypeOK, Live, Terminated
<1>10. ts[h] = "READY" /\ waitPid'[h] = 0
  BY <1>0, <1>3, <1>6
<1>11. \A p \in Live \ {h, current} : Suspended(p)'
  BY <1>0, <1>2, <1>3, <1>5, <1>6, <1>9, LiveFacts DEF TypeOK, Suspended
<1>12. \A p \in Live' : p <= h
  BY <1>0, <1>9, LiveFacts, BoundsAssumption DEF Pid
<1>13. Control'
  BY <1>5, <1>9, <1>10, <1>11, <1>12 DEF Control
<1>14. Linked'
  <2>1. \A p \in Live \ {h, current} : waitPid'[p] = waitPid[p]
    BY <1>2, <1>6, LiveFacts, <1>0
  <2>2. ASSUME NEW c \in Live' \ {Shell}
        PROVE  \E p \in Live' \ {h} : waitPid'[p] = c
    <3>1. PICK p \in Live \ {current} : waitPid[p] = c
      BY <1>9, <2>2 DEF Linked
    <3>2. p # h
      BY <1>0, <1>1, <1>9, <2>2, <3>1, LiveFacts DEF Pid
    <3> QED
      BY <1>9, <2>1, <3>1, <3>2
  <2> QED
    BY <1>5, <1>9, <2>1, <2>2 DEF Linked
<1> QED
  BY <1>5, <1>7, <1>8, <1>9, <1>12, <1>13, <1>14 DEF IInv, ChainInv, Killed, ExitModes, HaltModes

LEMMA KillIInv ==
  ASSUME IInv, mode # "dead", SyscallKillCurrentProcess
  PROVE  IInv' /\ Killed
<1>0. TypeOK /\ Linked /\ current \in Pid /\ current \in procs
  BY DEF IInv, ChainInv, MemInv, TypeOK
<1>1. \A p \in procs : p \in KillWaiters <=>
        p # current /\ tstate[p] = "BLOCKED" /\ waitPid[p] = current
  BY <1>0 DEF KillWaiters, Waiters, KillStates, TypeOK
<1> DEFINE ts == Readied(KillStates, KillWaiters)
<1>2. \A p \in Runnable(ts) : /\ p \in Live \ {current} /\ saved[p] # "none"
                              /\ p \in KillWaiters \/ tstate[p] = "READY"
  BY <1>0, <1>1, LiveFacts DEF Runnable, Readied, KillStates, TypeOK
<1>3. CASE Live \ {current} = {}
  <2>1. Runnable(ts) = {}
    BY <1>2, <1>3
  <2> QED
    BY <1>3, <2>1, KillHalts
<1>4. CASE mode = "loaded"
  <2>1. HandOver
    BY <1>4 DEF IInv, ChainInv, ExitModes
  <2>2. \A p \in Live : waitPid[p] # current
    BY <1>0, <1>4, <2>1, LiveFacts DEF HandOver, Heir, Suspended, Pid
  <2>3. \A p \in Live : tstate[p] = "READY" => saved[p] = "none"
    BY <1>4, <2>1 DEF HandOver, Heir, Suspended
  <2>4. Runnable(ts) = {}
    BY <1>1, <1>2, <2>2, <2>3, LiveFacts, <1>0
  <2> QED
    BY <1>4, <2>4, KillHalts
<1>5. CASE Live \ {current} # {} /\ mode \notin ExitModes \cup HaltModes
  <2>1. Control
    BY <1>5 DEF IInv, ChainInv
  <2>2. current # Shell
    <3>1. PICK p \in Live \ {current} : TRUE
      BY <1>5
    <3>2. p \in 1..MaxPid /\ p <= current /\ p # current
      BY <1>0, <2>1, <3>1, LiveFacts DEF Control, Pid
    <3> QED
      BY <3>2, BoundsAssumption DEF Shell
  <2>3. PICK h \in Live \ {current} :
          /\ Suspended(h) /\ waitPid[h] = current
          /\ \A p \in Live \ {h, current} :
               p < h /\ Suspended(p) /\ waitPid[p] # current
    BY <1>0, <2>1, <2>2, HeirExists
  <2>4. h \in KillWaiters /\ tstate[h] = "BLOCKED" /\ saved[h] # "none"
    BY <1>0, <1>1, <2>3, LiveFacts DEF Suspended
  <2> QED
    BY <1>0, <2>3, <2>4, KillSwitches
<1>6. CASE Live # {} /\ mode \in {"marked", "woken"}
  <2>1. HandOver
    BY <1>6 DEF IInv, ChainInv, ExitModes
  <2>2. PICK h \in Live : Heir(h) /\ \A p \in Live \ {h} : p < h /\ Suspended(p)
    BY <1>6, <2>1 DEF HandOver
  <2>3. h \in Live \ {current} /\ h \in procs
    BY <1>0, <2>1, LiveFacts DEF HandOver
  <2>4. /\ \/ h \in KillWaiters /\ tstate[h] = "BLOCKED"
           \/ h \notin KillWaiters /\ tstate[h] = "READY" /\ waitPid[h] = 0
        /\ saved[h] # "none"
    BY <1>1, <1>6, <2>2, <2>3 DEF Heir
  <2>5. \A p \in Live \ {h, current} : p < h /\ Suspended(p) /\ waitPid[p] # current
    BY <2>1, <2>2 DEF HandOver, Suspended
  <2> QED
    BY <1>0, <2>3, <2>4, <2>5, KillSwitches
<1>7. CASE mode = "idle"
  BY <1>3, <1>7 DEF IInv, ChainInv
<1> QED
  BY <1>3, <1>4, <1>5, <1>6, <1>7 DEF ExitModes, HaltModes

-----------------------------------------------------------------------------
(* The timer.                                                              *)

LEMMA TickIInv == IInv /\ Tick => IInv' /\ Quiet
<1> SUFFICES ASSUME IInv, Tick PROVE IInv' /\ Quiet
  OBVIOUS
<1>0. /\ TypeOK /\ MemInv /\ Linked /\ mode # "dead" /\ mode' = mode
      /\ current \in Pid /\ current \in procs
      /\ nextPid' = nextPid /\ target' = target /\ kstack' = kstack
  BY DEF IInv, ChainInv, MemInv, TypeOK, Tick, InterruptsOn
<1> DEFINE R == Due \cup Bereft
<1>1. /\ Due \subseteq Live /\ Bereft \subseteq Live
      /\ \A p \in R : tstate[p] = "BLOCKED"
      /\ \A p \in Due : wakeup[p] # Unset
      /\ \A p \in Bereft : waitPid[p] # 0 /\ waitPid[p] \notin Live
  BY DEF Due, Bereft, Unset
<1>2. /\ \A p \in Pid : tstate'[p] = IF p \in R THEN "READY" ELSE tstate[p]
      /\ \A p \in Pid : waitPid'[p] = IF p \in Bereft THEN 0 ELSE waitPid[p]
      /\ \A p \in Pid : wakeup[p] = Unset => wakeup'[p] = Unset
  BY <1>1, LiveFacts DEF Tick, Readied, Unwaited, Unset
<1>3. /\ tstate' \in [Pid -> {"READY", "BLOCKED", "TERMINATED"}]
      /\ waitPid' \in [Pid -> Pid \cup {0}]
      /\ wakeup' \in [Pid -> Unset..MaxSleep]
  <2>1. /\ tstate' \in [Pid -> {"READY", "BLOCKED", "TERMINATED"}]
        /\ waitPid' \in [Pid -> Pid \cup {0}]
    BY <1>0 DEF TypeOK, Tick, Readied, Unwaited
  <2>2. ASSUME NEW p \in Pid
        PROVE  (IF p \in Due THEN Unset ELSE IF wakeup[p] > 0 THEN wakeup[p] - 1
                ELSE wakeup[p]) \in Unset..MaxSleep
    BY <1>0, BoundsAssumption DEF TypeOK, Unset
  <2>3. wakeup' \in [Pid -> Unset..MaxSleep]
    BY <2>2 DEF Tick
  <2> QED
    BY <2>1, <2>3
\* The clean-up takes only the dead, and switches to nobody.
<1>4. /\ Runnable(tstate') \cap Live = {} \/ ~ MayReschedule
      /\ MayReschedule => Control /\ mode = "user"
  <2>1. MayReschedule => Control /\ mode = "user"
    BY DEF MayReschedule, IInv, ChainInv, ExitModes, HaltModes
  <2>2. ASSUME MayReschedule, NEW p \in Runnable(tstate') \cap Live PROVE FALSE
    <3>1. p \in Live \ {current} /\ p \in Pid /\ tstate'[p] = "READY" /\ Suspended(p)
      BY <1>0, <2>1, <2>2, LiveFacts DEF Runnable, Control
    <3>2. p \notin R
      BY <1>1, <3>1 DEF Suspended
    <3> QED
      BY <1>2, <3>1, <3>2 DEF Suspended
  <2> QED
    BY <2>1, <2>2
<1>5. /\ saved' = saved /\ current' = current
      /\ \/ procs' = procs /\ held' = held
         \/ procs' = Live /\ held' = held \ Terminated /\ Control /\ mode = "user"
  <2>1. CASE MayReschedule
    BY <1>4, <2>1, FirstOfNone DEF Tick
  <2>2. CASE ~ MayReschedule
    BY <2>2 DEF Tick
  <2> QED
    BY <2>1, <2>2
<1>6. procs' \subseteq procs /\ Live \subseteq procs' /\ procs' \subseteq held' /\ held' \subseteq held
  BY <1>0, <1>5, LiveFacts DEF MemInv, Live
<1>7. TypeOK'
  BY <1>0, <1>3, <1>5, <1>6 DEF TypeOK
<1>8. MemInv'
  BY <1>0, <1>5, <1>6 DEF MemInv, Control
<1>9. Quiet
  BY <1>0, <1>1, <1>2, <1>5, <1>6 DEF TypeOK, Quiet, Live, Terminated
<1>10. \A p \in Live : Suspended(p) => p \notin R /\ Suspended(p)'
  BY <1>0, <1>1, <1>2, <1>5, <1>9, LiveFacts DEF Suspended, Quiet
<1>11. CASE mode \notin ExitModes \cup HaltModes
  <2>1. Control
    BY <1>11 DEF IInv, ChainInv
  <2>2. Bereft = {}
    BY <1>1, <1>10, <2>1 DEF Control
  <2>3. mode = "wait" => current \notin Due
    BY <1>1, <2>1 DEF Control
  <2>4. Control'
    <3>1. tstate[current] = "READY" => tstate'[current] = "READY"
      BY <1>0, <1>2
    <3>2. \A p \in Live : waitPid'[p] = waitPid[p]
      BY <1>0, <1>2, <2>2, LiveFacts
    <3>3. mode = "wait" => tstate'[current] = "BLOCKED" /\ wakeup'[current] = Unset
      BY <1>0, <1>2, <2>1, <2>2, <2>3 DEF Control
    <3> QED
      BY <1>0, <1>9, <1>10, <2>1, <3>1, <3>2, <3>3 DEF Control, Quiet
  <2>5. Linked'
    BY <1>0, <1>2, <1>9, <2>2, LiveFacts DEF Linked, Quiet
  <2> QED
    BY <1>0, <1>7, <1>8, <1>9, <1>11, <2>4, <2>5 DEF IInv, ChainInv, ExitModes, HaltModes
<1>12. CASE mode \in ExitModes
  <2>1. HandOver
    BY <1>12 DEF IInv, ChainInv
  <2>2. HandOver'
    <3>1. CASE Live = {}
      BY <1>0, <1>9, <2>1, <3>1 DEF HandOver, Quiet
    <3>2. CASE Live # {}
      <4>1. PICK h \in Live : Heir(h) /\ \A p \in Live \ {h} : p < h /\ Suspended(p)
        BY <2>1, <3>2 DEF HandOver
      <4>2. Heir(h)'
        <5>1. h \in Pid /\ h \notin Due
          BY <1>0, <1>1, <4>1, LiveFacts DEF Heir
        <5> QED
          BY <1>0, <1>1, <1>2, <1>5, <4>1, <5>1 DEF Heir
      <4> QED
        BY <1>0, <1>9, <1>10, <2>1, <4>1, <4>2 DEF HandOver, Quiet
    <3> QED
      BY <3>1, <3>2
  <2>3. Linked'
    <3>1. ASSUME NEW c \in Live, NEW p \in Live, waitPid[p] = c PROVE waitPid'[p] = c
      BY <1>0, <1>1, <1>2, <3>1, LiveFacts
    <3>2. \A p \in Live : waitPid'[p] = waitPid[p] \/ waitPid'[p] = 0
      BY <1>0, <1>2, LiveFacts
    <3> QED
      BY <1>0, <1>9, <3>1, <3>2 DEF Linked, Quiet
  <2> QED
    BY <1>0, <1>7, <1>8, <1>12, <1>9, <2>2, <2>3 DEF IInv, ChainInv, ExitModes, HaltModes
<1>13. CASE mode = "idle"
  <2>1. Live = {}
    BY <1>13 DEF IInv, ChainInv
  <2>2. Linked'
    BY <1>9, <2>1 DEF Linked, Quiet
  <2> QED
    BY <1>0, <1>7, <1>8, <1>9, <1>13, <2>1, <2>2 DEF IInv, ChainInv, Quiet, ExitModes, HaltModes
<1> QED
  BY <1>0, <1>11, <1>12, <1>13 DEF HaltModes

-----------------------------------------------------------------------------
(* Every step, and the theorems.                                           *)

\* What a step does to the jobs.
JobStep ==
  \/ Quiet
  \/ /\ current \in Live /\ nextPid \in Pid /\ \A q \in Live : q < nextPid
     /\ Live' = Live \cup {nextPid} /\ current' = nextPid
  \/ ExitMark /\ Live' = Live \ {current}
  \/ /\ Live' = Live /\ current \notin Live
     /\ current' \in Live /\ \A q \in Live : q <= current'
  \/ mode # "dead" /\ Killed

LEMMA StepIInv ==
  ASSUME IInv, [Next]_vars
  PROVE  /\ IInv' /\ JobStep
         /\ mode' \in HaltModes /\ mode \notin HaltModes => Live' = {} \/ mode = "loaded"
<1> USE DEF JobStep
<1>1. CASE Exec
  BY <1>1, ExecIInv DEF Exec, HaltModes
<1>2. CASE ExecFails
  BY <1>2, ExecFailsIInv DEF ExecFails
<1>3. CASE ExitMark
  BY <1>3, ExitMarkIInv DEF ExitMark, Enter, HaltModes
<1>4. CASE ExitWake
  BY <1>4, ExitWakeIInv DEF ExitWake, HaltModes
<1>5. CASE ExitLoad
  BY <1>5, ExitLoadIInv DEF ExitLoad, HaltModes
<1>6. CASE ExitSwitch
  BY <1>6, ExitSwitchIInv DEF ExitSwitch, HaltModes
<1>7. CASE ExitReturn
  BY <1>7, ExitReturnIInv DEF ExitReturn, Leave, HaltModes
<1>8. CASE \E t \in 1..MaxSleep : SleepBlock(t)
  BY <1>8, SleepBlockIInv DEF SleepBlock, Enter, HaltModes
<1>9. CASE SleepReturn
  BY <1>9, SleepReturnIInv DEF SleepReturn, Leave, HaltModes
<1>10. CASE \E p \in Pid : WaitEnded(p)
  <2>1. Enter("reap") /\ target' = target
        /\ UNCHANGED <<procs, tstate, waitPid, wakeup, saved, current, nextPid, held>>
    BY <1>10 DEF WaitEnded
  <2> QED
    BY <2>1, CallIInv DEF Enter, HaltModes
<1>11. CASE \E p \in Pid : WaitBlock(p)
  <2>1. mode' \in {"wait", "user"}
    BY <1>11 DEF WaitBlock, Enter
  <2> QED
    BY <1>11, <2>1, WaitBlockIInv DEF HaltModes
<1>12. CASE WaitPoll \/ UNCHANGED vars
  <2>1. UNCHANGED vars
    BY <1>12, WaitPollStutters
  <2> QED
    BY <2>1 DEF vars, IInv, TypeOK, MemInv, ChainInv, Control, HandOver, Linked, Quiet,
                Suspended, Heir, Live, Terminated
<1>13. CASE ReapUnlink
  BY <1>13, ReapUnlinkIInv DEF ReapUnlink, HaltModes
<1>14. CASE ReapFree
  BY <1>14, ReapFreeIInv DEF ReapFree, HaltModes
<1>15. CASE ReapDone \/ SyscallReturn
  <2>1. mode \in {"syscall", "reap"} /\ Leave
        /\ UNCHANGED <<procs, tstate, waitPid, wakeup, saved, current, nextPid, held>>
    BY <1>15 DEF ReapDone, SyscallReturn
  <2> QED
    BY <2>1, CallIInv DEF Leave, HaltModes
<1>16. CASE SyscallEnter
  <2>1. Enter("syscall") /\ target' = target
        /\ UNCHANGED <<procs, tstate, waitPid, wakeup, saved, current, nextPid, held>>
    BY <1>16 DEF SyscallEnter
  <2> QED
    BY <2>1, CallIInv DEF Enter, HaltModes
<1>17. CASE Fault \/ CtrlC
  <2>1. mode # "dead" /\ SyscallKillCurrentProcess
    BY <1>17 DEF Fault, CtrlC, InterruptsOn
  <2> QED
    BY <2>1, KillIInv DEF Killed, HaltModes
<1>18. CASE Tick
  <2>1. mode' = mode
    BY <1>18 DEF Tick
  <2> QED
    BY <1>18, <2>1, TickIInv
<1> QED
  BY <1>1, <1>2, <1>3, <1>4, <1>5, <1>6, <1>7, <1>8, <1>9, <1>10, <1>11, <1>12,
     <1>13, <1>14, <1>15, <1>16, <1>17, <1>18
  DEF Next, Exit, Sleep, WaitPid, Reap

LEMMA IInvHolds == Spec => []IInv
<1>1. IInv /\ [Next]_vars => IInv'
  BY StepIInv
<1> QED
  BY InitIInv, <1>1, PTL DEF Spec

\* Every variable keeps its type: the scheduler's choice of a thread, the
\* timer's countdown and the pid counter included.
THEOREM TypeCorrect == Spec => []TypeOK
BY IInvHolds, PTL DEF IInv

\* No clean-up, of WAITPID or of the timer, frees the memory of a listed
\* process or the kernel stack the processor is on.
THEOREM MemorySafe == Spec => []NoUseAfterFree
<1>1. IInv => NoUseAfterFree
  BY DEF IInv, MemInv, NoUseAfterFree
<1> QED
  BY IInvHolds, <1>1, PTL

\* The live processes form one chain through every call, interrupt and kill.
THEOREM ChainHolds == Spec => []LinearChain
<1>1. IInv => LinearChain
  <2> SUFFICES ASSUME IInv, mode # "dead" PROVE LinearChain
    BY DEF LinearChain
  <2>0. TypeOK /\ Linked
    BY DEF IInv, ChainInv
  <2>1. ASSUME NEW p \in Live, NEW q \in Live, Suspended(p), Suspended(q),
               p # current, q # current, p < q, waitPid[p] = waitPid[q]
        PROVE  FALSE
    <3>1. p \in 1..MaxPid /\ q \in 1..MaxPid /\ waitPid[p] \in 1..MaxPid
      BY <2>0, <2>1, LiveFacts DEF Suspended, Pid
    <3>2. waitPid[p] <= q
      BY <2>0, <2>1, <3>1, BoundsAssumption DEF Linked
    <3> QED
      BY <2>1, <3>1, <3>2, BoundsAssumption DEF Suspended
  <2>2. \A p \in Live \ {current}, q \in Live \ {current} :
          Suspended(p) /\ Suspended(q) /\ waitPid[p] = waitPid[q] => p = q
    <3>1. \A p, q \in Live : p < q \/ q < p \/ p = q
      BY <2>0, LiveFacts, BoundsAssumption DEF Pid
    <3> QED
      BY <2>1, <3>1
  <2>3. CASE mode \notin ExitModes \cup HaltModes
    <3>1. Control
      BY <2>3 DEF IInv, ChainInv
    <3>2. \A p \in Live : ~ Heir(p)
      BY <2>3 DEF Heir, ExitModes
    <3> QED
      BY <2>2, <3>1, <3>2 DEF Control, LinearChain
  <2>4. CASE mode \in ExitModes
    <3>1. HandOver
      BY <2>4 DEF IInv, ChainInv
    <3>2. ASSUME NEW h \in Live, Heir(h), \A p \in Live \ {h} : p < h /\ Suspended(p)
          PROVE  LinearChain
      <4>1. \A p \in Live \ {h} : /\ ~ Heir(p) /\ waitPid[p] # waitPid[h]
                                  /\ Suspended(p) /\ p <= h
        BY <2>0, <3>1, <3>2, LiveFacts, BoundsAssumption DEF Heir, Suspended, HandOver, Pid
      <4>2. h <= h /\ mode # "user"
        BY <2>0, <2>4, LiveFacts, BoundsAssumption DEF Pid, ExitModes
      <4> QED
        BY <2>2, <3>2, <4>1, <4>2 DEF LinearChain
    <3>3. CASE Live = {}
      BY <2>4, <3>3 DEF LinearChain, ExitModes
    <3> QED
      BY <3>1, <3>2, <3>3 DEF HandOver
  <2>5. CASE mode = "idle"
    BY <2>5 DEF IInv, ChainInv, LinearChain
  <2> QED
    BY <2>3, <2>4, <2>5 DEF HaltModes
<1> QED
  BY IInvHolds, <1>1, PTL

\* The timer interrupt switches to nobody, whoever it wakes.
THEOREM TimerKeepsProcess == Spec => TickNeverSwitches
<1>1. IInv /\ [Next]_vars => [Tick => current' = current]_vars
  BY TickIInv DEF Quiet
<1> QED
  BY IInvHolds, <1>1, PTL DEF Spec, TickNeverSwitches

\* No step but a kill inside the hand-over halts the machine with a process
\* left.
THEOREM HaltIsLast == Spec => HaltLeavesNobody
<1>1. IInv /\ [Next]_vars =>
        [mode' \in HaltModes /\ mode \notin HaltModes => Live' = {} \/ mode = "loaded"]_vars
  BY StepIInv
<1> QED
  BY IInvHolds, <1>1, PTL DEF Spec, HaltLeavesNobody

\* The scheduler implements the stack of jobs: EXEC pushes, EXIT and the kill
\* path pop the newest, and everything else leaves the stack alone.
THEOREM ImplementsJobStack == Spec => JobStackSpec
<1> DEFINE Holder == IF current \in Live THEN current ELSE NoThread
<1>1. Init => Jobs!Init
  <2> SUFFICES ASSUME Init PROVE Live = {Shell} /\ Holder = Shell
    BY DEF Jobs!Init
  <2>1. Live = {Shell}
    BY BoundsAssumption DEF Init, Live, Terminated, Pid, Shell
  <2> QED
    BY <2>1 DEF Init
<1>2. IInv /\ [Next]_vars => [Jobs!Next]_<<Live, Holder>>
  <2> SUFFICES ASSUME IInv, [Next]_vars PROVE [Jobs!Next]_<<Live, Holder>>
    OBVIOUS
  <2>0. IInv' /\ JobStep /\ TypeOK /\ Live \subseteq Pid /\ \A p \in Pid : p \in Nat /\ p # 0
    BY StepIInv, LiveFacts, BoundsAssumption DEF IInv, Pid
  <2>1. CASE Quiet
    BY <2>1 DEF Quiet
  <2>2. CASE /\ current \in Live /\ nextPid \in Pid /\ \A q \in Live : q < nextPid
             /\ Live' = Live \cup {nextPid} /\ current' = nextPid
    <3>1. Jobs!Start(nextPid)
      BY <2>2 DEF Jobs!Start
    <3> QED
      BY <2>2, <3>1 DEF Jobs!Next
  <2>3. CASE ExitMark /\ Live' = Live \ {current}
    <3>1. current \in Live /\ \A q \in Live : q <= current
      BY <2>3 DEF IInv, ChainInv, Control, ExitMark, Enter, ExitModes, HaltModes
    <3>2. Holder' = NoThread
      BY <2>3 DEF ExitMark
    <3>3. Jobs!Finish
      BY <2>3, <3>1, <3>2 DEF Jobs!Finish, Jobs!Newest, Jobs!Nobody, NoThread
    <3> QED
      BY <3>3 DEF Jobs!Next
  <2>4. CASE /\ Live' = Live /\ current \notin Live
             /\ current' \in Live /\ \A q \in Live : q <= current'
    <3>1. Jobs!Resume
      BY <2>4 DEF Jobs!Resume, Jobs!Newest, Jobs!Nobody, NoThread
    <3> QED
      BY <3>1 DEF Jobs!Next
  <2>5. CASE Killed /\ mode # "dead"
    <3>1. CASE current \in Live
      <4>1. Control
        BY <2>5, <3>1 DEF IInv, ChainInv, HandOver, ExitModes, HaltModes
      <4>2. current \in Jobs!Newest(Live)
        BY <3>1, <4>1 DEF Control, Jobs!Newest
      <4>3. Holder' \in {Jobs!Nobody} \cup Jobs!Newest(Live \ {current})
        BY <2>5 DEF Killed, Jobs!Newest, Jobs!Nobody, NoThread
      <4>4. Jobs!Finish
        BY <2>5, <4>2, <4>3 DEF Killed, Jobs!Finish
      <4> QED
        BY <4>4 DEF Jobs!Next
    <3>2. CASE current \notin Live
      <4>1. Live' = Live
        BY <2>5, <3>2 DEF Killed
      <4>2. CASE current' = current
        BY <4>1, <4>2
      <4>3. CASE current' \in Live' /\ \A q \in Live' : q <= current'
        <5>1. Jobs!Resume
          BY <3>2, <4>1, <4>3 DEF Jobs!Resume, Jobs!Newest, Jobs!Nobody, NoThread
        <5> QED
          BY <5>1 DEF Jobs!Next
      <4> QED
        BY <2>5, <4>2, <4>3 DEF Killed
    <3> QED
      BY <3>1, <3>2
  <2> QED
    BY <2>0, <2>1, <2>2, <2>3, <2>4, <2>5 DEF JobStep
<1> QED
  BY IInvHolds, <1>1, <1>2, PTL DEF Spec, JobStackSpec, Jobs!Spec
=============================================================================
