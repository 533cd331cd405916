------------------------------ MODULE Scheduler -----------------------------
(***************************************************************************)
(* Processes of the kernel and who runs on its one processor:              *)
(* src/Kernel/proc/process.c, the timer interrupt of arch/pit.c, the       *)
(* system calls EXIT, EXEC, SLEEP and WAITPID and the kill path of         *)
(* arch/syscall.c, the exception entry of arch/idt.c, and Ctrl+C of        *)
(* keyboard.c.                                                             *)
(*                                                                         *)
(* A process has exactly one thread (PeLoadProgram creates it), and the    *)
(* code writes the two TERMINATED states together, so tstate stands for    *)
(* both.  The running thread's state is READY: the code never writes       *)
(* RUNNING.                                                                *)
(*                                                                         *)
(* System calls enter with interrupts enabled (HalSti) except EXEC, which  *)
(* disables them, so a call is a sequence of steps between which the timer *)
(* or Ctrl+C may strike; `mode` is how far the call has got.  An interrupt *)
(* handler itself runs with interrupts off and is one step.                *)
(***************************************************************************)
EXTENDS Integers

CONSTANTS
  MaxPid,    \* bound: process ids are 1..MaxPid; the shell is 1
  MaxSleep   \* bound: the longest SLEEP, in ticks

ASSUME BoundsAssumption ==
  /\ MaxPid \in Nat \ {0}
  /\ MaxSleep \in Nat \ {0}

Pid      == 1..MaxPid
Shell    == 1
NoThread == 0
Unset    == -1   \* wakeup_tick = 0

VARIABLES
  procs,     \* g_process_list: inserted at the head, so by falling pid
  tstate,    \* KThread.state and, where TERMINATED, KProcess.state
  waitPid,   \* KThread.wait_pid, 0 when it waits for nobody
  wakeup,    \* ticks left until wakeup_tick; 0 once reached, or Unset
  saved,     \* KThread.has_saved_frame and what saved_frame holds
  current,   \* g_current_thread
  nextPid,   \* g_next_pid
  held,      \* processes whose kernel stack and page tables are allocated
  mode,      \* what the processor executes
  target,    \* the process or thread a local pointer of the call refers to
  kstack     \* whose kernel stack the processor is on, 0 in user mode

vars == <<procs, tstate, waitPid, wakeup, saved, current, nextPid, held,
          mode, target, kstack>>

\* user:     user code of current
\* syscall:  a call that leaves the scheduler's state alone
\* marked .. leaving: EXIT, see ExitMark to ExitReturn
\* sleep, wait: inside SLEEP and WAITPID;  reap, free: WAITPID's clean-up
\* idle:     EXIT's "while (1) HalHlt()", interrupts on
\* dead:     the kill path's "while (1) HalHlt()", interrupts off
ExitModes == {"marked", "woken", "loaded"}
HaltModes == {"idle", "dead"}
Modes == {"user", "syscall", "leaving", "sleep", "wait", "reap", "free"}
           \cup ExitModes \cup HaltModes

TypeOK ==
  /\ procs \subseteq Pid
  /\ held \subseteq Pid
  /\ tstate \in [Pid -> {"READY", "BLOCKED", "TERMINATED"}]
  /\ waitPid \in [Pid -> Pid \cup {0}]
  /\ wakeup \in [Pid -> Unset..MaxSleep]
  /\ saved \in [Pid -> {"none", "entry", "call"}]
  /\ current \in Pid \cup {NoThread}
  /\ nextPid \in 1..(MaxPid + 1)
  /\ mode \in Modes
  /\ target \in Pid \cup {NoThread}
  /\ kstack \in Pid \cup {0}

Terminated == {p \in procs : tstate[p] = "TERMINATED"}
Live       == procs \ Terminated

-----------------------------------------------------------------------------
(* Helpers of the scheduler.                                               *)

\* KeLaunchShell: the shell enters user mode with its entry frame still
\* marked as saved.
Init ==
  /\ procs = {Shell}
  /\ tstate = [p \in Pid |-> "READY"]
  /\ waitPid = [p \in Pid |-> 0]
  /\ wakeup = [p \in Pid |-> Unset]
  /\ saved = [p \in Pid |-> IF p = Shell THEN "entry" ELSE "none"]
  /\ current = Shell
  /\ nextPid = Shell + 1
  /\ held = {Shell}
  /\ mode = "user"
  /\ target = NoThread
  /\ kstack = 0

\* The first of a set of processes in list order.
First(S) ==
  IF S = {} THEN NoThread ELSE CHOOSE p \in S : \A q \in S : q <= p

\* The threads PsScheduleNext accepts when the thread states are ts.
Runnable(ts) ==
  {p \in procs : ts[p] = "READY" /\ p # current /\ saved[p] # "none"}

PsScheduleNext(ts) == First(Runnable(ts))

\* The threads an ending process wakes.
Waiters_AnyPid(ts, pid) == {p \in procs : ts[p] = "BLOCKED" /\ waitPid[p] # 0}
Waiters_PidUnset(ts, pid) == {p \in procs : ts[p] = "BLOCKED" /\ waitPid[p] = 0}
Waiters(ts, pid) == {p \in procs : ts[p] = "BLOCKED" /\ waitPid[p] = pid}

\* The thread states, and wait_pid, once the threads of S have been woken.
Readied_Running(ts, S) == [p \in Pid |-> IF p \in S THEN "RUNNING" ELSE ts[p]]
Readied(ts, S) == [p \in Pid |-> IF p \in S THEN "READY" ELSE ts[p]]
Unwaited(S)    == [p \in Pid |-> IF p \in S THEN 0 ELSE waitPid[p]]

\* The thread n is loaded into the processor's frame and becomes current.
SwitchTo(n) ==
  /\ saved' = [saved EXCEPT ![n] = "none"]
  /\ current' = n

\* g_current_thread after PsCleanupTerminated has freed the processes of S.
Forget(S) == IF current \in S THEN NoThread ELSE current

\* Interrupts are enabled: not inside the halt loop of the kill path, which
\* runs in an interrupt or exception handler.
InterruptsOn == mode # "dead"

\* Entering the kernel on the caller's own kernel stack.
Enter(m) ==
  /\ mode = "user"
  /\ mode' = m
  /\ kstack' = current

\* Leaving it for the user mode of the current thread.
Leave ==
  /\ mode' = "user"
  /\ kstack' = 0
  /\ target' = NoThread

-----------------------------------------------------------------------------
(* SYS_EXEC.  Interrupts are off from the first line to the iretq.         *)

\* PeLoadProgram creates the child, the caller is blocked on it, and the
\* processor goes to the child at once.
Exec ==
  /\ mode = "user"
  /\ nextPid <= MaxPid
  /\ procs' = procs \cup {nextPid}
  /\ held' = held \cup {nextPid}
  /\ nextPid' = nextPid + 1
  /\ tstate' = [tstate EXCEPT ![nextPid] = "READY", ![current] = "BLOCKED"]
  /\ waitPid' = [waitPid EXCEPT ![nextPid] = 0, ![current] = nextPid]
  /\ wakeup' = [wakeup EXCEPT ![nextPid] = Unset, ![current] = Unset]
  /\ saved' = [saved EXCEPT ![nextPid] = "none", ![current] = "call"]
  /\ current' = nextPid
  /\ UNCHANGED <<mode, target, kstack>>

\* PeLoadProgram fails after PsCreateProcess took a pid.  PsDestroyProcess
\* unlinks the process; if it already had page tables they stay allocated.
ExecFails ==
  /\ mode = "user"
  /\ nextPid <= MaxPid
  /\ nextPid' = nextPid + 1
  /\ \E left \in SUBSET {nextPid} : held' = held \cup left
  /\ UNCHANGED <<procs, tstate, waitPid, wakeup, saved, current, mode, target,
                 kstack>>

-----------------------------------------------------------------------------
(* SYS_EXIT, with interrupts enabled throughout.                           *)

ExitMark ==
  /\ Enter("marked")
  /\ tstate' = [tstate EXCEPT ![current] = "TERMINATED"]
  /\ UNCHANGED <<procs, waitPid, wakeup, saved, current, nextPid, held, target>>

ExitWake ==
  /\ mode = "marked"
  /\ LET W == Waiters(tstate, current) IN
       /\ tstate' = Readied(tstate, W)
       /\ waitPid' = Unwaited(W)
  /\ mode' = "woken"
  /\ UNCHANGED <<procs, wakeup, saved, current, nextPid, held, target, kstack>>

\* The next thread is chosen, its frame is copied and marked as taken; the
\* current thread is still the one that exits.
ExitLoad ==
  /\ mode = "woken"
  /\ LET next == PsScheduleNext(tstate) IN
       IF next = NoThread
       THEN mode' = "idle" /\ UNCHANGED <<saved, target>>
       ELSE /\ mode' = "loaded"
            /\ target' = next
            /\ saved' = [saved EXCEPT ![next] = "none"]
  /\ UNCHANGED <<procs, tstate, waitPid, wakeup, current, nextPid, held, kstack>>

ExitSwitch ==
  /\ mode = "loaded"
  /\ current' = target
  /\ mode' = "leaving"
  /\ UNCHANGED <<procs, tstate, waitPid, wakeup, saved, nextPid, held, target,
                 kstack>>

\* Back to user mode, up to here on the kernel stack of the dead process.
ExitReturn ==
  /\ mode = "leaving"
  /\ Leave
  /\ UNCHANGED <<procs, tstate, waitPid, wakeup, saved, current, nextPid, held>>

-----------------------------------------------------------------------------
(* SYS_SLEEP, with interrupts enabled throughout.                          *)

SleepBlock(ticks) ==
  /\ Enter("sleep")
  /\ wakeup' = [wakeup EXCEPT ![current] = ticks]
  /\ tstate' = [tstate EXCEPT ![current] = "BLOCKED"]
  /\ saved' = [saved EXCEPT ![current] = "call"]
  /\ UNCHANGED <<procs, waitPid, current, nextPid, held, target>>

\* With nobody else to run the call undoes its own blocking and returns.
SleepReturn ==
  /\ mode = "sleep"
  /\ LET next == PsScheduleNext(tstate) IN
       IF next = NoThread
       THEN /\ tstate' = [tstate EXCEPT ![current] = "READY"]
            /\ saved' = [saved EXCEPT ![current] = "none"]
            /\ UNCHANGED current
       ELSE SwitchTo(next) /\ UNCHANGED tstate
  /\ Leave
  /\ UNCHANGED <<procs, waitPid, wakeup, nextPid, held>>

-----------------------------------------------------------------------------
(* SYS_WAITPID, with interrupts enabled throughout.  A pid that is not in  *)
(* the list makes it return 0 with nothing changed.                        *)

\* The process has ended and is still listed: clean up, return 0.
WaitEnded(pid) ==
  /\ pid \in Terminated
  /\ Enter("reap")
  /\ UNCHANGED <<procs, tstate, waitPid, wakeup, saved, current, nextPid, held,
                 target>>

\* The process is live: block on it, and give way to a runnable thread or
\* halt until there is one.
WaitBlock(pid) ==
  /\ pid \in Live
  /\ mode = "user"
  /\ tstate' = [tstate EXCEPT ![current] = "BLOCKED"]
  /\ wakeup' = [wakeup EXCEPT ![current] = Unset]
  /\ waitPid' = [waitPid EXCEPT ![current] = pid]
  /\ LET next  == PsScheduleNext(tstate)
         frame == [saved EXCEPT ![current] = "call"] IN
       IF next = NoThread
       THEN /\ saved' = frame
            /\ target' = pid
            /\ Enter("wait")
            /\ UNCHANGED current
       ELSE /\ saved' = [frame EXCEPT ![next] = "none"]
            /\ current' = next
            /\ UNCHANGED <<target, mode, kstack>>
  /\ UNCHANGED <<procs, nextPid, held>>

\* A turn of the halt loop, after an interrupt.
WaitPoll ==
  /\ mode = "wait"
  /\ LET next == PsScheduleNext(tstate) IN
       IF target \notin Live
       THEN /\ procs' = Live
            /\ held' = held \ Terminated
            /\ tstate' = [tstate EXCEPT ![current] = "READY"]
            /\ saved' = [saved EXCEPT ![current] = "none"]
            /\ waitPid' = [waitPid EXCEPT ![current] = 0]
            /\ Leave /\ UNCHANGED current
       ELSE /\ IF next = NoThread
               THEN UNCHANGED <<saved, current, mode, target, kstack>>
               ELSE SwitchTo(next) /\ Leave
            /\ UNCHANGED <<procs, held, tstate, waitPid>>
  /\ UNCHANGED <<wakeup, nextPid>>

\* PsCleanupTerminated run by WAITPID: each ended process is unlinked and
\* then freed, and an interrupt may come in between.
ReapUnlink ==
  /\ mode = "reap"
  /\ \E p \in Terminated :
       /\ \A q \in Terminated : q <= p
       /\ target' = p
       /\ procs' = procs \ {p}
  /\ mode' = "free"
  /\ UNCHANGED <<tstate, waitPid, wakeup, saved, current, nextPid, held, kstack>>

ReapFree ==
  /\ mode = "free"
  /\ held' = held \ {target}
  /\ current' = Forget({target})
  /\ mode' = "reap"
  /\ UNCHANGED <<procs, tstate, waitPid, wakeup, saved, nextPid, target, kstack>>

ReapDone ==
  /\ mode = "reap"
  /\ Terminated = {}
  /\ Leave
  /\ UNCHANGED <<procs, tstate, waitPid, wakeup, saved, current, nextPid, held>>

-----------------------------------------------------------------------------
(* Every other system call that runs with interrupts enabled (MMAP, CHDIR, *)
(* the network calls, the console): it may be interrupted, and a kill      *)
(* abandons it half done.                                                  *)

SyscallEnter ==
  /\ Enter("syscall")
  /\ UNCHANGED <<procs, tstate, waitPid, wakeup, saved, current, nextPid, held,
                 target>>

SyscallReturn ==
  /\ mode = "syscall"
  /\ Leave
  /\ UNCHANGED <<procs, tstate, waitPid, wakeup, saved, current, nextPid, held>>

-----------------------------------------------------------------------------
(* Interrupts and exceptions: one step each, interrupts are off in them.   *)

\* SyscallKillCurrentProcess.  The interrupted kernel code, if any, is
\* abandoned: the handler's iretq goes to the user mode of the next thread.
SyscallKillCurrentProcess ==
  LET ended == [tstate EXCEPT ![current] = "TERMINATED"]
      W     == Waiters(ended, current)
      next  == PsScheduleNext(Readied(ended, W))
  IN  /\ tstate' = Readied(ended, W)
      /\ waitPid' = Unwaited(W)
      /\ IF next = NoThread
         THEN /\ mode' = "dead"
              /\ kstack' = IF mode = "user" THEN current ELSE kstack
              /\ UNCHANGED <<saved, current, target>>
         ELSE SwitchTo(next) /\ Leave
      /\ UNCHANGED <<procs, wakeup, nextPid, held>>

\* An exception in user mode.
Fault ==
  /\ mode = "user"
  /\ SyscallKillCurrentProcess

\* The keyboard interrupt for C with Ctrl held.  The shell is not killed.
CtrlC ==
  /\ InterruptsOn
  /\ current > Shell
  /\ SyscallKillCurrentProcess

\* PitIrqHandler: sleepers whose time has come, and waiters whose process
\* is gone, become READY.
Due == {p \in Live : tstate[p] = "BLOCKED" /\ wakeup[p] \in 0..1}
Bereft_LiveToo ==
  {p \in Live \ Due : tstate[p] = "BLOCKED" /\ waitPid[p] # 0}
Bereft ==
  {p \in Live \ Due : /\ tstate[p] = "BLOCKED"
                      /\ waitPid[p] # 0
                      /\ waitPid[p] \notin Live}

\* Only an interrupt of user mode goes on to clean up and to reschedule.
MayReschedule_AnyMode == current \in Live
MayReschedule == current \in Live /\ mode = "user"

Tick ==
  /\ InterruptsOn
  /\ tstate' = Readied(tstate, Due \cup Bereft)
  /\ waitPid' = Unwaited(Bereft)
  /\ wakeup' = [p \in Pid |-> IF p \in Due THEN Unset
                             ELSE IF wakeup[p] > 0 THEN wakeup[p] - 1
                             ELSE wakeup[p]]
  /\ IF MayReschedule
     THEN LET next == First(Runnable(tstate') \cap Live) IN
          /\ procs' = Live
          /\ held' = held \ Terminated
          /\ IF next = NoThread
             THEN UNCHANGED <<saved, current>>
             ELSE /\ current' = next
                  /\ saved' = [p \in Pid |->
                        IF p = next THEN "none"
                        ELSE IF p = current /\ tstate'[p] = "READY" THEN "call"
                        ELSE saved[p]]
     ELSE UNCHANGED <<procs, held, saved, current>>
  /\ UNCHANGED <<nextPid, mode, target, kstack>>

-----------------------------------------------------------------------------
Exit    == ExitMark \/ ExitWake \/ ExitLoad \/ ExitSwitch \/ ExitReturn
Sleep   == (\E t \in 1..MaxSleep : SleepBlock(t)) \/ SleepReturn
Reap    == ReapUnlink \/ ReapFree \/ ReapDone
WaitPid == (\E p \in Pid : WaitEnded(p) \/ WaitBlock(p)) \/ WaitPoll \/ Reap

Next ==
  \/ Exec \/ ExecFails \/ Exit \/ Sleep \/ WaitPid
  \/ SyscallEnter \/ SyscallReturn
  \/ Fault \/ CtrlC \/ Tick

Spec == Init /\ [][Next]_vars

\* Inside a call the processor keeps executing: nothing but an interrupt
\* handler, which ends, takes it away.
FairSpec ==
  /\ Spec
  /\ WF_vars(ExitWake) /\ WF_vars(ExitLoad)
  /\ WF_vars(ExitSwitch) /\ WF_vars(ExitReturn)

-----------------------------------------------------------------------------
(* Properties.                                                             *)

\* p has given way to the process it started and is whole: it waits for a
\* live, younger process, no timer is set on it, and the frame it will be
\* resumed with is the one of its own EXEC, never a stale one.
Suspended(p) ==
  /\ tstate[p] = "BLOCKED"
  /\ waitPid[p] \in Live
  /\ p < waitPid[p]
  /\ wakeup[p] = Unset
  /\ saved[p] = "call"

\* p is next in line while the process it waits for is inside EXIT.
Heir(p) ==
  \/ /\ mode = "marked"
     /\ tstate[p] = "BLOCKED" /\ waitPid[p] = current
     /\ wakeup[p] = Unset /\ saved[p] = "call"
  \/ /\ mode \in {"marked", "woken"}
     /\ tstate[p] = "READY" /\ waitPid[p] = 0
     /\ saved[p] = "call"
  \/ /\ mode = "loaded"
     /\ tstate[p] = "READY" /\ waitPid[p] = 0
     /\ saved[p] = "none" /\ target = p

\* The live processes form one chain: each is suspended on the next and only
\* the last can run, so there is never a second runnable thread.  EXEC, EXIT,
\* the wake-ups of the timer and the kill path keep it between them.
LinearChain ==
  mode # "dead" =>
    /\ \A p \in Live \ {current} : Suspended(p) \/ Heir(p)
    /\ \A p, q \in Live \ {current} :
         /\ waitPid[p] = waitPid[q] => p = q
         /\ Heir(p) => q <= p
    /\ mode = "user" => current \in Live /\ tstate[current] = "READY"

\* Memory that is in use is not freed: of no listed process, and not the
\* kernel stack the processor is on, which after EXIT belongs to a process
\* that is dead already.  This is why the clean-up waits for user mode.
NoUseAfterFree ==
  /\ current \in procs
  /\ procs \subseteq held
  /\ mode # "user" => kstack \in held
  /\ mode = "loaded" => target \in procs

\* The timer never takes the processor from a process: PitIrqHandler has the
\* code for it, and the chain leaves it nobody to switch to.
TickNeverSwitches == [][Tick => current' = current]_vars

\* The machine halts for want of a thread only when no process is left,
\* unless Ctrl+C struck an EXIT that had already taken its heir's frame.
HaltLeavesNobody ==
  [][mode' \in HaltModes /\ mode \notin HaltModes => Live' = {} \/ mode = "loaded"]_vars

\* What both log lines of the halt loops say of them: there is no thread left
\* ("[ISR] No thread after kill, halting").
HaltMeansNoThread == mode \in HaltModes => Live = {}

\* When a program ends, the one that started it runs again, except that it
\* may be killed by a Ctrl+C meant for its child, or the machine may halt.
ExecReturns ==
  \A p \in Pid :
    (mode = "marked" /\ p \in Live /\ waitPid[p] = current)
      ~> ((mode = "user" /\ current = p) \/ p \notin Live \/ mode = "dead")

\* SYS_SLEEP returns to the caller only when its time has come.
SleepSleeps ==
  [][mode = "sleep" /\ mode' = "user" /\ current' = current
       => wakeup[current] = Unset]_vars

\* Jobs are a stack, see JobStack: a process holds the processor while it is
\* current and live.
Jobs == INSTANCE JobStack WITH
  Job <- Pid, Root <- Shell,
  jobs <- Live, holder <- IF current \in Live THEN current ELSE NoThread

JobStackSpec == Jobs!Spec
=============================================================================
