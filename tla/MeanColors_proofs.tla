-------------------------- MODULE MeanColors_proofs --------------------------
(***************************************************************************)
(* What a bucket's colour keeps of the screens before, for any threads,    *)
(* pixels, starts and number of pixels.                                    *)
(***************************************************************************)
EXTENDS MeanColors, TLAPS

USE MeanAssumption

-----------------------------------------------------------------------------
(* Lemmas about the mean. *)

(* The mean of two levels is a level. *)
LEMMA AverageType ==
  ASSUME NEW a \in Level, NEW v \in Level
  PROVE  Average(a, v) \in Level
BY DEF Average, Level

(* A pixel halves the distance of two levels. *)
LEMMA AverageHalves ==
  ASSUME NEW a \in Level, NEW b \in Level, NEW v \in Level, NEW d \in Nat, a - b <= 2 * d
  PROVE  Average(a, v) - Average(b, v) <= d
BY DEF Average, Level

(* A shade mixed with a pixel is a shade, and has one pixel more. *)
LEMMA MixType ==
  ASSUME NEW s \in Shade, NEW v \in Level
  PROVE  Mix(s, v) \in Shade /\ Mix(s, v).mixed = s.mixed + 1
BY AverageType DEF Mix, Shade

(* The distance fades as Left tells. *)
LEMMA MixFades ==
  ASSUME NEW s \in Shade, NEW v \in Level, Faded(s)
  PROVE  Faded(Mix(s, v))
<1> DEFINE Gap(n) == IF n < 8 THEN Left[n + 1] ELSE 1
<1>1. s.mixed \in Nat /\ s.level \in Level /\ s.other \in Level
  BY DEF Shade
<1>2. \A n \in Nat : Gap(n) \in Nat /\ Gap(n) <= 2 * Gap(n + 1)
  <2> SUFFICES ASSUME NEW n \in Nat
               PROVE  Gap(n) \in Nat /\ Gap(n) <= 2 * Gap(n + 1)
    OBVIOUS
  <2>1. CASE n >= 8
    BY <2>1
  <2>2. CASE n < 8
    <3>1. n \in {0, 1, 2, 3, 4, 5, 6, 7}
      BY <2>2
    <3> QED
      BY <3>1 DEF Left
  <2> QED
    BY <2>1, <2>2
<1>3. PICK g \in Nat, d \in Nat : g = Gap(s.mixed) /\ d = Gap(s.mixed + 1) /\ g <= 2 * d
  <2>1. s.mixed + 1 \in Nat
    BY <1>1
  <2> HIDE DEF Gap
  <2> QED
    BY <1>1, <1>2, <2>1
<1>4. PICK a \in Level, b \in Level : a = s.level /\ b = s.other
  BY <1>1
<1>5. a - b <= g /\ b - a <= g
  BY <1>3, <1>4 DEF Faded, Near
<1>6. g <= 2 * d
  BY <1>3
<1> HIDE DEF Gap
<1>7. a - b <= 2 * d /\ b - a <= 2 * d
  BY <1>5, <1>6 DEF Level
<1>8. /\ Average(a, v) - Average(b, v) <= d
      /\ Average(b, v) - Average(a, v) <= d
  BY <1>7, AverageHalves
<1>9. /\ Mix(s, v).level = Average(a, v) /\ Mix(s, v).other = Average(b, v)
      /\ Mix(s, v).mixed = s.mixed + 1
  BY <1>4 DEF Mix
<1>10. Near(Mix(s, v), d)
  BY <1>8, <1>9 DEF Near
<1> QED
  BY <1>3, <1>9, <1>10 DEF Faded, Gap

-----------------------------------------------------------------------------
(* The inductive invariant. *)

LEMMA InitInv == Init => MeanInv
<1> SUFFICES ASSUME Init PROVE MeanInv
  OBVIOUS
<1>1. PICK other \in Compared :
        color = [c \in Channel |-> [level |-> Start[c], other |-> other[c], mixed |-> 0]]
  BY DEF Init
<1>2. \A c \in Channel : Start[c] \in Level /\ other[c] \in Level
  BY DEF Color
<1>3. \A c \in Channel : color[c] \in Shade /\ Faded(color[c]) /\ color[c].mixed = 0
  <2> SUFFICES ASSUME NEW c \in Channel
               PROVE  color[c] \in Shade /\ Faded(color[c]) /\ color[c].mixed = 0
    OBVIOUS
  <2>1. color[c] = [level |-> Start[c], other |-> other[c], mixed |-> 0]
    BY <1>1
  <2>2. /\ color[c].level = Start[c] /\ color[c].other = other[c] /\ color[c].mixed = 0
        /\ Start[c] \in 0 .. 255 /\ other[c] \in 0 .. 255
    BY <1>2, <2>1 DEF Level
  <2>3. Near(color[c], 256)
    <3>1. \A a, b \in 0 .. 255 : a - b <= 256
      OBVIOUS
    <3>2. PICK a \in 0 .. 255, b \in 0 .. 255 : a = color[c].level /\ b = color[c].other
      BY <2>2
    <3>3. a - b <= 256 /\ b - a <= 256
      BY <3>1
    <3> QED
      BY <3>2, <3>3 DEF Near
  <2>4. (IF color[c].mixed < 8 THEN Left[color[c].mixed + 1] ELSE 1) = 256
    BY <2>2 DEF Left
  <2>5. color[c] \in Shade
    BY <1>2, <2>1 DEF Shade
  <2> QED
    BY <2>2, <2>3, <2>4, <2>5 DEF Faded
<1>4. TypeOK
  BY <1>1, <1>3 DEF Init, TypeOK, Color, Level, Shade
<1>5. Fading
  BY <1>3 DEF Init, Fading, Channel
<1>6. OverlapIsZero
  BY DEF Init, OverlapIsZero
<1> QED
  BY <1>4, <1>5, <1>6 DEF MeanInv

LEMMA CountInv ==
  ASSUME MeanInv, NEW t \in Threads, NEW p \in Pixels, Count(t, p)
  PROVE  MeanInv'
<1> USE DEF MeanInv
<1>1. TypeOK'
  BY DEF TypeOK, Count
<1>2. alone' <= alone /\ alone' \in Nat
  BY DEF TypeOK, Count
<1>3. \A u \in Threads : pc'[u] = pc[u] \/ (u = t /\ pc'[u] = 1)
  BY DEF TypeOK, Count
<1>4. Fading'
  <2>1. \A c \in Channel : Faded(color'[c]) /\ alone' <= color'[c].mixed
    BY <1>2 DEF Count, Fading, TypeOK, Shade
  <2>2. ASSUME NEW u \in Threads, NEW c \in Channel, c < pc'[u]
        PROVE  Faded(mean'[u][c]) /\ alone' < mean'[u][c].mixed
    <3>1. c < pc[u] /\ mean' = mean
      BY <1>3, <2>2 DEF Count, Channel
    <3>2. mean[u][c].mixed \in Nat
      BY DEF TypeOK, Shade
    <3> QED
      BY <1>2, <3>1, <3>2 DEF Fading, TypeOK
  <2> QED
    BY <2>1, <2>2 DEF Fading, Faded, Near
<1>5. OverlapIsZero'
  BY DEF Count, OverlapIsZero, TypeOK, Quiet, Others
<1> QED
  BY <1>1, <1>4, <1>5

LEMMA ReadInv ==
  ASSUME MeanInv, NEW t \in Threads, ReadChannel(t)
  PROVE  MeanInv'
<1> USE DEF MeanInv
<1> DEFINE n == pc[t]
           shade == Mix(color[n], rgbColor[t][n])
<1>1. n \in Channel /\ color[n] \in Shade /\ rgbColor[t][n] \in Level
  BY DEF ReadChannel, TypeOK, Color
<1>2. shade \in Shade /\ shade.mixed = color[n].mixed + 1
  BY <1>1, MixType
<1>3. Faded(shade)
  BY <1>1, MixFades DEF Fading
<1> HIDE DEF shade
<1>4. mean' = [mean EXCEPT ![t][n] = shade]
  BY DEF ReadChannel, shade
<1>5. \A u \in Threads : \A c \in Channel :
        mean'[u][c] = IF u = t /\ c = n THEN shade ELSE mean[u][c]
  BY <1>1, <1>4 DEF TypeOK
<1>6. pc' = [pc EXCEPT ![t] = n + 1]
  BY DEF ReadChannel
<1>7. TypeOK'
  <2>1. mean' \in [Threads -> [Channel -> Shade]]
    BY <1>1, <1>2, <1>4 DEF TypeOK
  <2>2. pc' \in [Threads -> 0 .. 4]
    BY <1>1, <1>6 DEF TypeOK, Channel
  <2> QED
    BY <2>1, <2>2 DEF ReadChannel, TypeOK
<1>8. Fading'
  <2>1. \A c \in Channel : Faded(color'[c]) /\ alone' <= color'[c].mixed
    BY DEF ReadChannel, Fading
  <2>2. ASSUME NEW u \in Threads, NEW c \in Channel, c < pc'[u]
        PROVE  Faded(mean'[u][c]) /\ alone' < mean'[u][c].mixed
    <3>1. CASE u = t /\ c = n
      <4>1. alone \in Nat /\ color[n].mixed \in Nat /\ alone <= color[n].mixed
        BY <1>1 DEF TypeOK, Shade, Fading
      <4>2. alone' = alone /\ mean'[u][c] = shade
        BY <1>5, <3>1 DEF ReadChannel
      <4> QED
        BY <1>2, <1>3, <4>1, <4>2
    <3>2. CASE ~(u = t /\ c = n)
      <4>1. c < pc[u]
        BY <1>1, <1>6, <2>2, <3>2 DEF TypeOK, Channel
      <4> QED
        BY <1>5, <3>2, <4>1 DEF Fading, ReadChannel
    <3> QED
      BY <3>1, <3>2
  <2> QED
    BY <2>1, <2>2 DEF Fading, Faded, Near
<1>9. OverlapIsZero'
  BY <1>1, <1>6 DEF ReadChannel, OverlapIsZero, TypeOK, Channel
<1> QED
  BY <1>7, <1>8, <1>9

LEMMA NewColorInv ==
  ASSUME MeanInv, NEW t \in Threads, NewColor(t)
  PROVE  MeanInv'
<1> USE DEF MeanInv
<1>1. /\ color' = mean[t] /\ pc[t] = 4 /\ mean' = mean
      /\ pc' = [pc EXCEPT ![t] = 0]
      /\ alone' = IF Quiet(t) THEN alone + 1 ELSE 0
  BY DEF NewColor
<1>2. TypeOK'
  BY <1>1 DEF NewColor, TypeOK
<1>3. alone \in Nat /\ alone' \in Nat
  BY <1>1 DEF TypeOK
<1>4. \A c \in Channel : mean[t][c].mixed \in Nat /\ Faded(mean[t][c]) /\ alone < mean[t][c].mixed
  BY <1>1 DEF TypeOK, Shade, Fading, Channel
<1>5. Fading'
  <2>1. \A c \in Channel : Faded(color'[c]) /\ alone' <= color'[c].mixed
    BY <1>1, <1>3, <1>4
  <2>2. ASSUME NEW u \in Threads, NEW c \in Channel, c < pc'[u]
        PROVE  Faded(mean'[u][c]) /\ alone' < mean'[u][c].mixed
    <3>1. u # t /\ pc[u] = pc'[u]
      BY <1>1, <2>2 DEF TypeOK, Channel
    <3>2. pc[u] # 0
      BY <2>2, <3>1 DEF Channel
    <3>3. alone' = 0
      BY <1>1, <3>1, <3>2 DEF Quiet, Others
    <3>4. mean[u][c].mixed \in Nat /\ Faded(mean[u][c]) /\ alone < mean[u][c].mixed
      BY <2>2, <3>1 DEF TypeOK, Shade, Fading
    <3> QED
      BY <1>1, <1>3, <3>3, <3>4
  <2> QED
    BY <2>1, <2>2 DEF Fading, Faded, Near
<1>6. OverlapIsZero'
  BY <1>1 DEF OverlapIsZero, TypeOK, Quiet, Others
<1> QED
  BY <1>2, <1>5, <1>6

LEMMA NextInv == MeanInv /\ [Next]_vars => MeanInv'
<1> SUFFICES ASSUME MeanInv, [Next]_vars
             PROVE  MeanInv'
  OBVIOUS
<1>1. ASSUME NEW t \in Threads, NEW p \in Pixels, Count(t, p)
      PROVE  MeanInv'
  BY <1>1, CountInv
<1>2. ASSUME NEW t \in Threads, ReadChannel(t)
      PROVE  MeanInv'
  BY <1>2, ReadInv
<1>3. ASSUME NEW t \in Threads, NewColor(t)
      PROVE  MeanInv'
  BY <1>3, NewColorInv
<1>4. CASE UNCHANGED vars
  BY <1>4 DEF vars, MeanInv, TypeOK, Fading, Faded, Near, OverlapIsZero
<1> QED
  BY <1>1, <1>2, <1>3, <1>4 DEF Next

-----------------------------------------------------------------------------
(* The theorems. *)

(* What n pixels leave of a difference between two starts, for any threads,   *)
(* interleaving and pixels (Colors.count).                                    *)
THEOREM MeanInvariance == Spec => []MeanInv
BY InitInv, NextInv, PTL DEF Spec

(* Every component stays a level, so that new Color never throws.             *)
THEOREM TypeCorrect == Spec => []TypeOK
<1>1. MeanInv => TypeOK
  BY DEF MeanInv
<1> QED
  BY <1>1, MeanInvariance, PTL

(* Eight pixels counted without an overlap leave at most one level of the     *)
(* colour that the bucket had, whatever screens and overlaps it comes from.   *)
THEOREM ColoursForget == Spec => []Forgets
<1>1. MeanInv => Forgets
  <2> SUFFICES ASSUME MeanInv, alone >= 8, NEW c \in Channel
               PROVE  Near(color[c], 1)
    BY DEF Forgets
  <2>1. color[c].mixed \in Nat /\ alone \in Nat /\ alone <= color[c].mixed
    BY DEF MeanInv, TypeOK, Shade, Fading
  <2>2. ~(color[c].mixed < 8)
    BY <2>1
  <2>3. Faded(color[c])
    BY DEF MeanInv, Fading
  <2> QED
    BY <2>2, <2>3 DEF Faded
<1> QED
  BY <1>1, MeanInvariance, PTL
=============================================================================
