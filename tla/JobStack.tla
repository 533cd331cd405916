------------------------------ MODULE JobStack ------------------------------
(***************************************************************************)
(* What the process subsystem promises to the shell and to the programs it *)
(* starts: jobs form a stack.  Starting a program suspends the one that    *)
(* started it, only the newest job can end, and when it has ended control  *)
(* goes back to the newest job that is left.  While the kernel hands       *)
(* control over nobody holds the processor.                                *)
(***************************************************************************)
EXTENDS Integers

CONSTANTS
  Job,      \* the process ids, natural numbers other than 0
  Root      \* the id of the first process, the shell

VARIABLES
  jobs,     \* the processes that have been started and have not ended
  holder    \* the job that holds the processor, or Nobody

Nobody == 0

Newest(S) == {p \in S : \A q \in S : q <= p}   \* empty, or one job

Init ==
  /\ jobs = {Root}
  /\ holder = Root

\* The job in control starts a newer one and is suspended in its favour.
Start(p) ==
  /\ holder \in jobs
  /\ \A q \in jobs : q < p
  /\ jobs' = jobs \cup {p}
  /\ holder' = p

\* The newest job ends: its successor takes over at once, or nobody does yet.
Finish ==
  \E p \in Newest(jobs) :
    /\ jobs' = jobs \ {p}
    /\ holder' \in {Nobody} \cup Newest(jobs \ {p})

\* The hand-over ends.
Resume ==
  /\ holder = Nobody
  /\ holder' \in Newest(jobs)
  /\ UNCHANGED jobs

Next == (\E p \in Job : Start(p)) \/ Finish \/ Resume

Spec == Init /\ [][Next]_<<jobs, holder>>
=============================================================================
