---------------------------- MODULE MCMoodColors ----------------------------
(* MoodColors for TLC: what the screen may show. *)
EXTENDS MoodColors, TLC

Rgb(r, g, b) == [r |-> r, g |-> g, b |-> b]

(* The last hue bucket; white and a hue on the border of two, as full.        *)
MCScreens == {<<Rgb(200, 0, 1)>>,
              <<Rgb(255, 255, 255), Rgb(90, 60, 0)>>}

(* The timer's thread and the event thread do the same. *)
Twins == Permutations(Threads)
=============================================================================
