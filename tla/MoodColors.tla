----------------------------- MODULE MoodColors -----------------------------
(***************************************************************************)
(* How the MoodLed application finds the mood of the screen (MoodLed.java, *)
(* ScreenAnalyzer.java, Colors.java): a refresh counts every pixel of its  *)
(* captures in the buckets of an enum, takes the fullest bucket, empties   *)
(* all of them and shows what it found.                                    *)
(*                                                                         *)
(* The buckets are static and nothing locks them, while three threads      *)
(* refresh: the main thread once, in the constructor, then the timer's     *)
(* every two seconds and Swing's event thread for the button.  A refresh is*)
(* modelled one read or write of a shared count at a time.  The mean colour*)
(* that each bucket also keeps decides nothing here: it is MeanColors.     *)
(***************************************************************************)
EXTENDS Integers, Sequences

CONSTANTS Main,         \* the main thread, which runs the constructor
          Threads,      \* the timer's thread and the event thread
          Screens,      \* what a refresh may capture: sequences of pixels
          MaxRefreshes  \* bound: refreshes begun

Level == 0 .. 255
Pixel == [r : Level, g : Level, b : Level]

ASSUME MoodAssumption == /\ Main \notin Threads
                         /\ Screens \subseteq Seq(Pixel)
                         /\ MaxRefreshes \in Nat

(* Colors.values(): WHITE, GRAY, BLACK, then eighteen hues of 20 degrees. *)
Last   == 20
Bucket == 0 .. Last
White  == 0
Gray   == 1
Black  == 2

All == Threads \cup {Main}

VARIABLES
  count,      \* the count of each bucket
  chooser,    \* the bucket whose colour the colour chooser has, or -1
  tip,        \* the bucket whose mood the tray icon tells, or -1
  pc,         \* where each thread is in its refresh, or "idle"
  pixels,     \* what each thread has still to count of its captures
  cur,        \* the bucket each thread's loop is at
  tmp,        \* the count each thread has read and not used yet
  best,       \* the fullest bucket each thread has found
  built,      \* the constructor has returned
  begun,      \* refreshes begun
  own,        \* pixels that each thread's refresh has counted in each bucket
  lone        \* no other thread has been refreshing since the refresh began

shared == <<count, chooser, tip>>
local  == <<pc, pixels, cur, tmp, best>>
vars   == <<shared, local, built, begun, own, lone>>

-----------------------------------------------------------------------------
(* The bucket of a pixel. *)

(* The brightest and the darkest of the three components. *)
Cmax(p) == CHOOSE m \in {p.r, p.g, p.b} : m >= p.r /\ m >= p.g /\ m >= p.b
Cmin(p) == CHOOSE m \in {p.r, p.g, p.b} : m <= p.r /\ m <= p.g /\ m <= p.b
Chroma(p) == Cmax(p) - Cmin(p)

(* Color.RGBtoHSB: the hue, counted in sixths of the circle times the chroma. *)
Hue6(p) ==
  IF p.r = Cmax(p)
  THEN p.g - p.b + (IF p.g < p.b THEN 6 * Chroma(p) ELSE 0)
  ELSE IF p.g = Cmax(p) THEN 2 * Chroma(p) + p.b - p.r
                           ELSE 4 * Chroma(p) + p.r - p.g

(* Mutant of HueIndex: the array is taken to have a bucket for 360 degrees too.*)
HueIndexUp(p) == (3 * Hue6(p)) \div Chroma(p) + 4

(* (int) (h / 20 + 3), h in degrees *)
HueIndex(p) == (3 * Hue6(p)) \div Chroma(p) + 3

(* A hue on the border of two buckets is rounded to either by the floating    *)
(* point of the code; every other result is exact.                            *)
OnBorder(p) == Hue6(p) > 0 /\ (3 * Hue6(p)) % Chroma(p) = 0

(* Colors.count: brightness past 97%, brightness or saturation below 5%. *)
BucketsOf(p) ==
  IF 100 * Cmax(p) > 97 * 255 THEN {White}
  ELSE IF 100 * Cmax(p) < 5 * 255 THEN {Black}
  ELSE IF 100 * Chroma(p) < 5 * Cmax(p) THEN {Gray}
  ELSE {HueIndex(p)} \cup (IF OnBorder(p) THEN {HueIndex(p) - 1} ELSE {})

-----------------------------------------------------------------------------
(* A refresh. *)

At(t, l)   == pc[t] = l
Goto(t, l) == pc' = [pc EXCEPT ![t] = l]

AfterCounting(rest) == IF rest = <<>> THEN "max" ELSE "count"

(* ScreenAnalyzer captures the monitors, one after the other: the pixels of   *)
(* all of them, at once here, are the refresh's input.  The constructor's     *)
(* refresh comes before the timer and the button exist.                       *)
Begin(t, screen) ==
  /\ At(t, "idle") /\ built = (t # Main) /\ begun < MaxRefreshes
  /\ begun' = begun + 1
  /\ pixels' = [pixels EXCEPT ![t] = screen]
  /\ own' = [own EXCEPT ![t] = [b \in Bucket |-> 0]]
  /\ cur' = [cur EXCEPT ![t] = 1] /\ best' = [best EXCEPT ![t] = 0]
  /\ Goto(t, AfterCounting(screen))
  /\ lone' = [u \in All |-> IF u = t THEN \A v \in All \ {t} : At(v, "idle") ELSE FALSE]
  /\ UNCHANGED <<shared, tmp, built>>

(* count++ reads the count of the pixel's bucket, ... *)
ReadCount(t) ==
  /\ At(t, "count")
  /\ \E b \in BucketsOf(Head(pixels[t])) :
       /\ cur' = [cur EXCEPT ![t] = b]
       /\ tmp' = [tmp EXCEPT ![t] = count[b]]
  /\ Goto(t, "add")
  /\ UNCHANGED <<shared, pixels, best, built, begun, own, lone>>

(* ... and writes it back. *)
WriteCount(t) ==
  /\ At(t, "add")
  /\ count' = [count EXCEPT ![cur[t]] = tmp[t] + 1]
  /\ own' = [own EXCEPT ![t][cur[t]] = @ + 1]
  /\ pixels' = [pixels EXCEPT ![t] = Tail(@)]
  /\ cur' = [cur EXCEPT ![t] = 1]
  /\ Goto(t, AfterCounting(pixels'[t]))
  /\ UNCHANGED <<chooser, tip, tmp, best, built, begun, lone>>

(* Collections.max: ColorComparator reads the count of the next bucket, ... *)
ReadNext(t) ==
  /\ At(t, "max")
  /\ tmp' = [tmp EXCEPT ![t] = count[cur[t]]]
  /\ Goto(t, "compare")
  /\ UNCHANGED <<shared, pixels, cur, best, built, begun, own, lone>>

(* Mutant of Fuller: a bucket as full as the candidate takes its place. *)
AsFull(n, candidate) == n >= candidate

Fuller(n, candidate) == n > candidate

(* ... then that of the candidate, which it may replace. *)
Compare(t) ==
  /\ At(t, "compare")
  /\ best' = [best EXCEPT ![t] = IF Fuller(tmp[t], count[@]) THEN cur[t] ELSE @]
  /\ cur' = [cur EXCEPT ![t] = IF @ = Last THEN 0 ELSE @ + 1]
  /\ Goto(t, IF cur[t] = Last THEN "reset" ELSE "max")
  /\ UNCHANGED <<shared, pixels, tmp, built, begun, own, lone>>

(* Mutant of ResetCount: only the bucket that is shown is emptied. *)
ResetBest(t) ==
  /\ At(t, "reset")
  /\ count' = [count EXCEPT ![best[t]] = 0]
  /\ Goto(t, "colour")
  /\ UNCHANGED <<chooser, tip, pixels, cur, tmp, best, built, begun, own, lone>>

(* Mutant of ResetCount: the loop goes one bucket too far. *)
ResetPastEnd(t) ==
  /\ At(t, "reset")
  /\ count' = [count EXCEPT ![cur[t]] = 0]
  /\ cur' = [cur EXCEPT ![t] = @ + 1]
  /\ Goto(t, IF cur[t] > Last THEN "colour" ELSE "reset")
  /\ UNCHANGED <<chooser, tip, pixels, tmp, best, built, begun, own, lone>>

(* resetCount empties one bucket after the other. *)
ResetCount(t) ==
  /\ At(t, "reset")
  /\ count' = [count EXCEPT ![cur[t]] = 0]
  /\ cur' = [cur EXCEPT ![t] = IF @ = Last THEN 0 ELSE @ + 1]
  /\ Goto(t, IF cur[t] = Last THEN "colour" ELSE "reset")
  /\ UNCHANGED <<chooser, tip, pixels, tmp, best, built, begun, own, lone>>

(* The constructor only sets the chooser's colour; updateColor goes on. *)
SetColor(t) ==
  /\ At(t, "colour")
  /\ chooser' = best[t]
  /\ built' = (built \/ t = Main)
  /\ Goto(t, IF t = Main THEN "idle" ELSE "mood")
  /\ UNCHANGED <<count, tip, pixels, cur, tmp, best, begun, own, lone>>

SetToolTip(t) ==
  /\ At(t, "mood")
  /\ tip' = best[t]
  /\ Goto(t, "idle")
  /\ UNCHANGED <<count, chooser, pixels, cur, tmp, best, built, begun, own, lone>>

Step(t) == \/ ReadCount(t) \/ WriteCount(t) \/ ReadNext(t) \/ Compare(t)
           \/ ResetCount(t) \/ SetColor(t) \/ SetToolTip(t)

-----------------------------------------------------------------------------

Init == /\ count = [b \in Bucket |-> 0]
        /\ chooser = -1 /\ tip = -1
        /\ pc = [t \in All |-> "idle"]
        /\ pixels = [t \in All |-> <<>>]
        /\ cur = [t \in All |-> 0] /\ tmp = [t \in All |-> 0] /\ best = [t \in All |-> 0]
        /\ built = FALSE /\ begun = 0
        /\ own = [t \in All |-> [b \in Bucket |-> 0]]
        /\ lone = [t \in All |-> FALSE]

Next == \E t \in All : (\E screen \in Screens : Begin(t, screen)) \/ Step(t)

Spec == Init /\ [][Next]_vars

-----------------------------------------------------------------------------
(* Invariants. *)

Counting == {"count", "add"}
Scanning == {"max", "compare"}
Showing  == {"colour", "mood"}

TypeOK ==
  /\ count \in [Bucket -> Nat]
  /\ chooser \in Bucket \cup {-1} /\ tip \in Bucket \cup {-1}
  /\ pc \in [All -> {"idle", "reset"} \cup Counting \cup Scanning \cup Showing]
  /\ pixels \in [All -> Seq(Pixel)]
  /\ \A t \in All : pc[t] \in Counting => pixels[t] # <<>>
  /\ cur \in [All -> Bucket] /\ tmp \in [All -> Nat] /\ best \in [All -> Bucket]
  /\ built \in BOOLEAN /\ begun \in Nat
  /\ own \in [All -> [Bucket -> Nat]]
  /\ lone \in [All -> BOOLEAN]

(* The enum's array has a bucket for the hue of every pixel: the index of     *)
(* Colors.count is used unchecked.                                            *)
IndexInRange ==
  \A t \in All : At(t, "count") => BucketsOf(Head(pixels[t])) \subseteq Bucket

(* A thread that has still to empty bucket b. *)
WillReset(t, b) == \/ pc[t] \in Counting \cup Scanning
                   \/ At(t, "reset") /\ cur[t] <= b

(* Refreshes that overlap lose counts and bring back counts that another has  *)
(* reset; but what they leave is always emptied by one of them, so the first  *)
(* refresh after an overlap starts from zero (resetCount, count++).           *)
NoResidue == \A b \in Bucket : count[b] # 0 => \E t \in All : WillReset(t, b)

(* b is the fullest of the buckets S for thread t's own pixels, and the first *)
(* of those as full.                                                          *)
IsFullest(t, b, S) ==
  \A c \in S : own[t][c] < own[t][b] \/ (own[t][c] = own[t][b] /\ b <= c)

(* Whatever overlaps there were before, a refresh that overlaps no other      *)
(* leaves the fullest bucket of its own captures in the colour chooser, and   *)
(* in the tray icon too (getPredominantColor, updateColor).                   *)
ShowsPredominant ==
  \A t \in All : lone[t] /\ At(t, "idle") =>
                    /\ chooser \in Bucket /\ IsFullest(t, chooser, Bucket)
                    /\ t # Main => tip = chooser

(* The inductive invariant. *)

(* A refresh is alone, and the last, until another begins. *)
LoneIsAlone == \A t \in All : lone[t] => \A u \in All \ {t} : At(u, "idle")

(* The counts are those of the one refresh that runs, when it is alone. *)
LoneCounts ==
  \A t \in All : lone[t] /\ pc[t] \in Counting \cup Scanning =>
    /\ count = own[t]
    /\ pc[t] \in {"add", "compare"} => tmp[t] = count[cur[t]]

(* A scan starts at the second bucket with the first for its candidate. *)
ScanStarts ==
  \A t \in All :
    /\ pc[t] \in Scanning => cur[t] # 0
    /\ pc[t] \in Counting => best[t] = 0

(* The candidate is the fullest of the buckets that the scan is past. *)
LoneBest ==
  \A t \in All : lone[t] =>
    /\ pc[t] \in Scanning => /\ best[t] \in 0 .. cur[t] - 1
                             /\ IsFullest(t, best[t], 0 .. cur[t] - 1)
    /\ pc[t] \in {"reset"} \cup Showing => IsFullest(t, best[t], Bucket)
    /\ pc[t] = "mood" => t # Main /\ chooser = best[t]

IInv == /\ TypeOK /\ NoResidue /\ ShowsPredominant
        /\ LoneIsAlone /\ LoneCounts /\ ScanStarts /\ LoneBest
=============================================================================
