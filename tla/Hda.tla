-------------------------------- MODULE Hda --------------------------------
(***************************************************************************)
(* The one sound stream of hda.c.  AUDIO_PLAY and AUDIO_STOP run with       *)
(* interrupts on, one step at a time; the timer calls HdaPoll at each tick. *)
(* Time is counted in slices of a tick, in one of which the stream plays    *)
(* one unit of sound; a call takes any time.  The stream obeys at once: the *)
(* loops that wait for it do not run out.                                   *)
(***************************************************************************)
EXTENDS Integers

CONSTANTS Sizes,   \* how many slices a sound may last
          Rate,    \* slices in a tick
          MaxTime  \* bound on time

HdaAssumption == Sizes \subseteq Nat \ {0} /\ Rate \in Nat \ {0} /\ MaxTime \in Nat

VARIABLES
    run, pos, len, bcis,                                \* the stream: RUN, LPIB, CBL, BCIS
    playing, bytes_to_play, start_tick, duration_ticks, \* g_hda
    time,
    pc, size,  \* the call under way, and the argument of HdaPlayBuffer
    orphan,    \* history: a call was killed with the stream started and not yet marked
    rushed,    \* history: for this sound, HdaPoll ran with the mark set and the rest not
    cut        \* history: the poll stopped this sound before its end

stream == <<run, pos, len, bcis>>
g_hda == <<playing, bytes_to_play, start_tick, duration_ticks>>
past == <<orphan, rushed, cut>>
vars == <<stream, g_hda, time, pc, size, past>>

Init == /\ run = FALSE /\ pos = 0 /\ len = 0 /\ bcis = FALSE
        /\ playing = FALSE /\ bytes_to_play = 0 /\ start_tick = 0 /\ duration_ticks = 0
        /\ time = 0 /\ pc = "none" /\ size = 0
        /\ orphan = FALSE /\ rushed = FALSE /\ cut = FALSE

-----------------------------------------------------------------------------
(* HdaPlayBuffer and HdaStop.  "stop" is HdaStop called by HdaPlayBuffer, which
   has size # 0; AUDIO_STOP calls it with nothing to play after it. *)

PlayBuffer(n) ==
    /\ pc = "none" /\ size' = n
    /\ pc' = IF playing THEN "stop" ELSE "prepare"
    /\ UNCHANGED <<stream, g_hda, time, past>>

Stop == /\ pc = "none" /\ pc' = "stop" /\ UNCHANGED <<stream, g_hda, time, size, past>>

ClearRun == /\ pc = "stop" /\ pc' = "reset" /\ run' = FALSE
            /\ UNCHANGED <<pos, len, bcis, g_hda, time, size, past>>

Reset(next) == /\ pc' = next /\ run' = FALSE /\ pos' = 0 /\ bcis' = FALSE /\ orphan' = FALSE
               /\ UNCHANGED <<len, g_hda, time, size, rushed, cut>>

ResetStopped == pc = "reset" /\ Reset("unmark")

Unmark == /\ pc = "unmark" /\ playing' = FALSE
          /\ pc' = IF size = 0 THEN "none" ELSE "prepare"
          /\ UNCHANGED <<stream, bytes_to_play, start_tick, duration_ticks, time, size, past>>

(* The sound is copied, the stream reset. *)
Prepare == pc = "prepare" /\ Reset("length")

SetLength == /\ pc = "length" /\ pc' = "start" /\ len' = size /\ bcis' = FALSE
             /\ rushed' = FALSE /\ cut' = FALSE
             /\ UNCHANGED <<run, pos, g_hda, time, size, orphan>>

Start == /\ pc = "start" /\ pc' = "mark" /\ run' = TRUE
         /\ UNCHANGED <<pos, len, bcis, g_hda, time, size, past>>

Mark == /\ pc = "mark" /\ pc' = "bytes" /\ playing' = TRUE
        /\ UNCHANGED <<stream, bytes_to_play, start_tick, duration_ticks, time, size, past>>

SetBytes == /\ pc = "bytes" /\ pc' = "tick" /\ bytes_to_play' = size
            /\ UNCHANGED <<stream, playing, start_tick, duration_ticks, time, size, past>>

Ticks == time \div Rate

SetTick == /\ pc = "tick" /\ pc' = "duration" /\ start_tick' = Ticks
           /\ UNCHANGED <<stream, playing, bytes_to_play, duration_ticks, time, size, past>>

(* Two ticks more than the whole ones the sound takes. *)
Duration_OneMore(n) == n \div Rate + 1
Duration(n) == n \div Rate + 2

SetDuration == /\ pc = "duration" /\ pc' = "none" /\ size' = 0
               /\ duration_ticks' = Duration(size)
               /\ UNCHANGED <<stream, playing, bytes_to_play, start_tick, time, past>>

Call == \/ \E n \in Sizes : PlayBuffer(n)
        \/ Stop \/ ClearRun \/ ResetStopped \/ Unmark
        \/ Prepare \/ SetLength \/ Start \/ Mark \/ SetBytes \/ SetTick \/ SetDuration

(* Ctrl+C ends the process and leaves its call as it is. *)
Kill == /\ pc # "none" /\ pc' = "none" /\ size' = 0
        /\ orphan' = (orphan \/ pc = "mark")
        /\ rushed' = (rushed \/ pc \in {"bytes", "tick", "duration"})
        /\ UNCHANGED <<stream, g_hda, time, cut>>

-----------------------------------------------------------------------------
(* HdaPoll, with what the stream did in the slice before it. *)
Poll_MarkOnly(at, done, tick) ==
    IF playing /\ (done \/ at >= bytes_to_play \/ tick >= start_tick + duration_ticks)
    THEN playing' = FALSE /\ pos' = at /\ bcis' = FALSE /\ UNCHANGED <<run, cut, rushed>>
    ELSE pos' = at /\ bcis' = done /\ UNCHANGED <<run, playing, cut, rushed>>

Poll(at, done, tick) ==
    LET finished == \/ done
                    \/ at >= bytes_to_play
                    \/ tick >= start_tick + duration_ticks
    IN  IF playing /\ finished
        THEN /\ run' = FALSE /\ pos' = 0 /\ bcis' = FALSE /\ playing' = FALSE
             /\ cut' = (cut \/ (run /\ ~done))
             /\ rushed' = (rushed \/ pc \in {"bytes", "tick", "duration"})
        ELSE /\ pos' = at /\ bcis' = done /\ UNCHANGED <<run, playing, cut, rushed>>

(* A slice of time: the stream goes round its buffer, and says when it ends. *)
Pass == LET at   == IF ~run THEN pos ELSE IF pos + 1 = len THEN 0 ELSE pos + 1
            done == bcis \/ (run /\ pos + 1 = len)
        IN  /\ time < MaxTime /\ time' = time + 1
            /\ IF time' % Rate = 0 THEN Poll(at, done, time' \div Rate)
               ELSE pos' = at /\ bcis' = done /\ UNCHANGED <<run, playing, cut, rushed>>
            /\ UNCHANGED <<len, bytes_to_play, start_tick, duration_ticks, pc, size, orphan>>

Next == Call \/ Kill \/ Pass

Spec == Init /\ [][Next]_vars

-----------------------------------------------------------------------------
(* A stream that runs is marked as playing, or HdaPoll never stops it and it
   repeats its buffer until the next call; but for the step between the two in
   HdaPlayBuffer, and a kill there. *)
RunIsWatched == run /\ ~playing => pc = "mark" \/ orphan

(* HdaPoll stops a sound only at its end, although sizes are rounded down to ticks
   and a stream starts anywhere in one; but for a poll (or a kill) after a stream
   was marked and before its size, tick and duration are set. *)
PlaysToTheEnd == cut => rushed
============================================================================
