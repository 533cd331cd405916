------------------------------ MODULE MCFat32 ------------------------------
(* Two long names with one 8.3 form, which may be exchanged, and a name that is its
   own.  In a "crowded" behaviour the calls look at the first entry of a directory
   only, files are empty, no write fails, and calls go on after MKDIR has made a second
   entry of a name. *)
EXTENDS Fat32, TLC

CONSTANTS letter1, letter2, note

MCNames == {letter1, letter2, note}
MCShort == [n \in MCNames |-> IF n = note THEN "NOTE" ELSE "LETTER"]
MCLong == {letter1, letter2}
Exchange == Permutations(MCLong)

VARIABLE crowded

Crowd == INSTANCE Fat32 WITH MaxListed <- 1, MaxFaults <- 0, Lengths <- {0},
                             Tolerated <- Tolerated \cup {"twice"}

MCInit == Init /\ crowded \in BOOLEAN

MCNext == /\ UNCHANGED crowded
          /\ \/ ~crowded /\ Next
             \/ crowded /\ Crowd!Next

MCSpec == MCInit /\ [][MCNext]_<<vars, crowded>>
============================================================================
