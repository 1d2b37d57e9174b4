---------------------------- MODULE MCMeanColors ----------------------------
(* MeanColors for TLC: the bucket of the first hues, its colour in the enum   *)
(* and the colour furthest from it, and a pixel that averages all ways: from  *)
(* above, from below, and odd sums.                                           *)
EXTENDS MeanColors, TLC

MCStart == <<255, 0, 0>>
MCCompared == {<<0, 255, 255>>, <<199, 10, 1>>}
MCPixels == {<<199, 10, 1>>}

(* The timer's thread and the event thread do the same. *)
Twins == Permutations(Threads)
=============================================================================
