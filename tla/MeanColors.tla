----------------------------- MODULE MeanColors -----------------------------
(***************************************************************************)
(* The colour that each bucket of MoodLed's Colors enum keeps and the      *)
(* application shows: every pixel counted in the bucket is averaged into   *)
(* it, and resetCount, which empties the bucket, leaves the colour of the  *)
(* screens before.                                                         *)
(*                                                                         *)
(* The buckets do not share colours, so one is enough.  Its colour is an   *)
(* unlocked reference to an immutable Color: the averaging reads it three  *)
(* times, once for each component, then replaces it.                       *)
(***************************************************************************)
EXTENDS Integers

CONSTANTS Threads,    \* the threads that refresh
          Start,      \* the bucket's colour in the enum
          Compared,   \* colours to compare it with
          Pixels,     \* the colours of pixels that fall in it
          MaxPixels   \* bound: pixels counted

Channel == 1 .. 3  \* red, green, blue
Level == 0 .. 255
Color == [Channel -> Level]

ASSUME MeanAssumption ==
  /\ Start \in Color /\ Compared \subseteq Color /\ Pixels \subseteq Color
  /\ MaxPixels \in Nat

(* A component of a colour, with two facts of its history: the level it would *)
(* have if the bucket had started with a colour of Compared, and how many     *)
(* pixels are mixed in it.                                                    *)
Shade == [level : Level, other : Level, mixed : Nat]

VARIABLES
  color,    \* the bucket's colour, a shade for each component
  pc,       \* the component each thread reads next, 4 to write, 0 when not counting
  rgbColor, \* the pixel each thread counts
  mean,     \* the shades of the new Color each thread has computed
  counted,  \* pixels begun
  alone     \* pixels counted since two threads last counted at once

vars == <<color, pc, rgbColor, mean, counted, alone>>

-----------------------------------------------------------------------------

(* Mutants of Average: the pixel weighs a quarter; the sum is not halved.     *)
AverageSlowly(a, v) == (3 * a + v) \div 4
AverageSum(a, v) == a + v

Average(a, v) == (a + v) \div 2

Mix(s, v) == [level |-> Average(s.level, v), other |-> Average(s.other, v),
              mixed |-> s.mixed + 1]

Others(t) == Threads \ {t}
Quiet(t) == \A u \in Others(t) : pc[u] = 0

(* Colors.count is called for a pixel of the bucket. *)
Count(t, p) ==
  /\ pc[t] = 0 /\ counted < MaxPixels
  /\ counted' = counted + 1
  /\ pc' = [pc EXCEPT ![t] = 1]
  /\ rgbColor' = [rgbColor EXCEPT ![t] = p]
  /\ alone' = IF Quiet(t) THEN alone ELSE 0
  /\ UNCHANGED <<color, mean>>

(* c.color.getRed(), then getGreen() and getBlue(), each averaged. *)
ReadChannel(t) ==
  /\ pc[t] \in Channel
  /\ mean' = [mean EXCEPT ![t][pc[t]] = Mix(color[pc[t]], rgbColor[t][pc[t]])]
  /\ pc' = [pc EXCEPT ![t] = @ + 1]
  /\ UNCHANGED <<color, rgbColor, counted, alone>>

(* Mutant of NewColor: blue is not averaged anew. *)
NewColorEarly(t) ==
  /\ pc[t] = 3
  /\ color' = mean[t]
  /\ pc' = [pc EXCEPT ![t] = 0]
  /\ alone' = IF Quiet(t) THEN alone + 1 ELSE 0
  /\ UNCHANGED <<rgbColor, mean, counted>>

(* c.color = new Color(...) *)
NewColor(t) ==
  /\ pc[t] = 4
  /\ color' = mean[t]
  /\ pc' = [pc EXCEPT ![t] = 0]
  /\ alone' = IF Quiet(t) THEN alone + 1 ELSE 0
  /\ UNCHANGED <<rgbColor, mean, counted>>

Init ==
  /\ \E other \in Compared :
       color = [c \in Channel |-> [level |-> Start[c], other |-> other[c], mixed |-> 0]]
  /\ pc = [t \in Threads |-> 0]
  /\ rgbColor = [t \in Threads |-> [c \in Channel |-> 0]]
  /\ mean = [t \in Threads |-> [c \in Channel |-> [level |-> 0, other |-> 0, mixed |-> 0]]]
  /\ counted = 0 /\ alone = 0

Next == \E t \in Threads : \/ \E p \in Pixels : Count(t, p)
                           \/ ReadChannel(t)
                           \/ NewColor(t)

Spec == Init /\ [][Next]_vars

-----------------------------------------------------------------------------

(* In particular new Color is never given a component that it throws on. *)
TypeOK ==
  /\ color \in [Channel -> Shade]
  /\ pc \in [Threads -> 0 .. 4]
  /\ rgbColor \in [Threads -> Color]
  /\ mean \in [Threads -> [Channel -> Shade]]
  /\ counted \in Nat /\ alone \in Nat

(* A level and the one from another start are at most d apart. *)
Near(s, d) == s.level - s.other <= d /\ s.other - s.level <= d

(* The colour is never reset, and a thread that overlaps another may write    *)
(* back one from long before; still, eight pixels counted with no overlap     *)
(* leave nothing of it but a rounding of one level, whatever the bucket had   *)
(* (Colors.count, resetCount).  A plain screen is shown so too: from its own  *)
(* colour as the other start, the mean stays there.                           *)
Forgets == alone >= 8 => \A c \in Channel : Near(color[c], 1)

(* The inductive invariant: what n pixels leave of a difference, and that the *)
(* pixels counted alone are in the colour, and with one more in the next.     *)
Left == <<256, 128, 64, 32, 16, 8, 4, 2, 1>>
Faded(s) == Near(s, IF s.mixed < 8 THEN Left[s.mixed + 1] ELSE 1)

Fading ==
  /\ \A c \in Channel : Faded(color[c]) /\ alone <= color[c].mixed
  /\ \A t \in Threads : \A c \in Channel :
       c < pc[t] => Faded(mean[t][c]) /\ alone < mean[t][c].mixed

(* While threads overlap no pixel is counted as alone. *)
OverlapIsZero ==
  \A t, u \in Threads : t # u /\ pc[t] # 0 /\ pc[u] # 0 => alone = 0

MeanInv == TypeOK /\ Fading /\ OverlapIsZero
=============================================================================
