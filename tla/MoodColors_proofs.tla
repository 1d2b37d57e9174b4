-------------------------- MODULE MoodColors_proofs --------------------------
(***************************************************************************)
(* Proofs about MoodColors, for every set of threads, all captures of the  *)
(* screen and any number of refreshes.                                     *)
(***************************************************************************)
EXTENDS MoodColors, SequenceTheorems, TLAPS

(* One of three numbers is the largest, and one the smallest. *)
LEMMA LargestOfThree ==
  ASSUME NEW x \in Int, NEW y \in Int, NEW z \in Int
  PROVE  \E m \in {x, y, z} : m >= x /\ m >= y /\ m >= z
<1>1. CASE x >= y /\ x >= z
  BY <1>1
<1>2. CASE y >= x /\ y >= z
  BY <1>2
<1>3. CASE z >= x /\ z >= y
  BY <1>3
<1>4. QED
  BY <1>1, <1>2, <1>3

(* The same for the smallest. *)
LEMMA SmallestOfThree ==
  ASSUME NEW x \in Int, NEW y \in Int, NEW z \in Int
  PROVE  \E m \in {x, y, z} : m <= x /\ m <= y /\ m <= z
<1>1. CASE x <= y /\ x <= z
  BY <1>1
<1>2. CASE y <= x /\ y <= z
  BY <1>2
<1>3. CASE z <= x /\ z <= y
  BY <1>3
<1>4. QED
  BY <1>1, <1>2, <1>3

(* The brightest and the darkest components are components. *)
LEMMA Extremes ==
  ASSUME NEW p \in Pixel
  PROVE  /\ p.r \in 0 .. 255 /\ p.g \in 0 .. 255 /\ p.b \in 0 .. 255
         /\ Cmax(p) \in 0 .. 255 /\ Cmin(p) \in 0 .. 255
         /\ Cmax(p) = p.r \/ Cmax(p) = p.g \/ Cmax(p) = p.b
         /\ Cmax(p) >= p.r /\ Cmax(p) >= p.g /\ Cmax(p) >= p.b
         /\ Cmin(p) <= p.r /\ Cmin(p) <= p.g /\ Cmin(p) <= p.b
<1>1. p.r \in 0 .. 255 /\ p.g \in 0 .. 255 /\ p.b \in 0 .. 255
  BY DEF Pixel, Level
<1>2. \E m \in {p.r, p.g, p.b} : m >= p.r /\ m >= p.g /\ m >= p.b
  <2>1. p.r \in Int /\ p.g \in Int /\ p.b \in Int
    BY <1>1
  <2>2. QED BY <2>1, LargestOfThree
<1>3. \E m \in {p.r, p.g, p.b} : m <= p.r /\ m <= p.g /\ m <= p.b
  <2>1. p.r \in Int /\ p.g \in Int /\ p.b \in Int
    BY <1>1
  <2>2. QED BY <2>1, SmallestOfThree
<1>4. /\ Cmax(p) \in {p.r, p.g, p.b}
      /\ Cmax(p) >= p.r /\ Cmax(p) >= p.g /\ Cmax(p) >= p.b
  BY <1>2, Zenon DEF Cmax
<1>5. /\ Cmin(p) \in {p.r, p.g, p.b}
      /\ Cmin(p) <= p.r /\ Cmin(p) <= p.g /\ Cmin(p) <= p.b
  BY <1>3, Zenon DEF Cmin
<1>6. QED
  BY <1>1, <1>4, <1>5

(* The difference of two components is no more than the chroma. *)
LEMMA Differences ==
  ASSUME NEW p \in Pixel
  PROVE  /\ Chroma(p) \in Nat
         /\ p.g - p.b \in Int /\ p.g - p.b <= Chroma(p) /\ p.b - p.g <= Chroma(p)
         /\ p.b - p.r \in Int /\ p.b - p.r <= Chroma(p) /\ p.r - p.b <= Chroma(p)
         /\ p.r - p.g \in Int /\ p.r - p.g <= Chroma(p) /\ p.g - p.r <= Chroma(p)
<1> DEFINE x == p.r
           y == p.g
           z == p.b
           hi == Cmax(p)
           lo == Cmin(p)
<1>1. x \in Int /\ y \in Int /\ z \in Int /\ hi \in Int /\ lo \in Int
  BY Extremes
<1>2. hi >= x /\ hi >= y /\ hi >= z /\ lo <= x /\ lo <= y /\ lo <= z
  BY Extremes
<1> HIDE DEF x, y, z, hi, lo
<1>3. /\ hi - lo \in Nat
      /\ y - z \in Int /\ y - z <= hi - lo /\ z - y <= hi - lo
      /\ z - x \in Int /\ z - x <= hi - lo /\ x - z <= hi - lo
      /\ x - y \in Int /\ x - y <= hi - lo /\ y - x <= hi - lo
  BY <1>1, <1>2
<1>4. QED
  BY <1>3 DEF Chroma, x, y, z, hi, lo

(* The hue of a pixel that has one is an angle below 360 degrees. *)
LEMMA HueBounds ==
  ASSUME NEW p \in Pixel, Chroma(p) > 0
  PROVE  /\ Chroma(p) \in Nat
         /\ Hue6(p) \in Nat
         /\ Hue6(p) < 6 * Chroma(p)
<1> DEFINE d == Chroma(p)
           x == p.r
           y == p.g
           z == p.b
<1>1. /\ d \in Nat /\ d > 0 /\ x \in Int /\ y \in Int /\ z \in Int
      /\ y - z <= d /\ z - y <= d /\ z - x <= d /\ x - z <= d
      /\ x - y <= d /\ y - x <= d
  BY Differences, Extremes
<1>2. \/ Hue6(p) = y - z + (IF y < z THEN 6 * d ELSE 0)
      \/ Hue6(p) = 2 * d + z - x
      \/ Hue6(p) = 4 * d + x - y
  BY DEF Hue6
<1> HIDE DEF d, x, y, z
<1>3. Hue6(p) \in Nat /\ Hue6(p) < 6 * d
  BY <1>1, <1>2
<1>4. QED
  BY <1>1, <1>3 DEF d

(* A quotient of a number below eighteen times the divisor. *)
LEMMA Eighteenths ==
  ASSUME NEW n \in Nat, NEW d \in Nat, d > 0, n < 18 * d
  PROVE  n \div d \in 0 .. 17
OBVIOUS

(* The enum has a bucket for every pixel. *)
LEMMA BucketExists ==
  ASSUME NEW p \in Pixel
  PROVE  BucketsOf(p) \subseteq Bucket
<1>1. CASE 100 * Cmax(p) > 97 * 255
  BY <1>1 DEF BucketsOf, White, Bucket, Last
<1>2. CASE ~(100 * Cmax(p) > 97 * 255) /\ 100 * Cmax(p) < 5 * 255
  BY <1>2 DEF BucketsOf, Black, Bucket, Last
<1>3. CASE /\ ~(100 * Cmax(p) > 97 * 255) /\ ~(100 * Cmax(p) < 5 * 255)
           /\ 100 * Chroma(p) < 5 * Cmax(p)
  BY <1>3 DEF BucketsOf, Gray, Bucket, Last
<1>4. CASE /\ ~(100 * Cmax(p) > 97 * 255) /\ ~(100 * Cmax(p) < 5 * 255)
           /\ ~(100 * Chroma(p) < 5 * Cmax(p))
  <2>1. Chroma(p) > 0
    <3>1. Cmax(p) \in Int /\ Chroma(p) \in Int
      BY Extremes, Differences
    <3>2. QED BY <1>4, <3>1
  <2>2. /\ 3 * Hue6(p) \in Nat /\ Chroma(p) \in Nat
        /\ 3 * Hue6(p) < 18 * Chroma(p)
    BY <2>1, HueBounds
  <2>3. (3 * Hue6(p)) \div Chroma(p) \in 0 .. 17
    BY <2>1, <2>2, Eighteenths
  <2>4. HueIndex(p) \in 3 .. 20
    BY <2>3 DEF HueIndex
  <2>5. BucketsOf(p) \subseteq {HueIndex(p), HueIndex(p) - 1}
    BY <1>4 DEF BucketsOf
  <2>6. QED
    BY <2>4, <2>5 DEF Bucket, Last
<1>5. QED
  BY <1>1, <1>2, <1>3, <1>4
-----------------------------------------------------------------------------
(* Type correctness. *)

(* The bucket after one that is not the last. *)
LEMMA NextBucket ==
  /\ 0 \in Bucket /\ 1 \in Bucket /\ Last \in Bucket
  /\ \A b \in Bucket : b # Last => b + 1 \in Bucket
  /\ \A b \in Bucket : b + 1 # 0
BY DEF Bucket, Last

(* The buckets are the numbers to 20. *)
LEMMA BucketBounds ==
  /\ Bucket = 0 .. 20
  /\ \A b \in Bucket : b \in Nat /\ b <= 20
BY DEF Bucket, Last

(* The application starts with every variable of its type. *)
LEMMA InitType == Init => TypeOK
<1> SUFFICES ASSUME Init PROVE TypeOK
  OBVIOUS
<1>1. count \in [Bucket -> Nat] /\ own \in [All -> [Bucket -> Nat]]
  BY DEF Init
<1>2. pixels \in [All -> Seq(Pixel)]
  BY EmptySeq DEF Init
<1>3. cur \in [All -> Bucket] /\ tmp \in [All -> Nat] /\ best \in [All -> Bucket]
  BY DEF Init, Bucket, Last
<1>4. QED
  BY <1>1, <1>2, <1>3 DEF Init, TypeOK, Counting, Scanning, Showing

(* Every step keeps every variable in its type. *)
LEMMA NextType == TypeOK /\ [Next]_vars => TypeOK'
<1> SUFFICES ASSUME TypeOK, [Next]_vars PROVE TypeOK'
  OBVIOUS
<1> USE DEF At, Goto, shared, Counting, Scanning, Showing, TypeOK
<1>1. ASSUME NEW t \in All, NEW screen \in Screens, Begin(t, screen)
      PROVE  TypeOK'
  <2>1. screen \in Seq(Pixel)
    BY MoodAssumption
  <2>2. pixels' \in [All -> Seq(Pixel)] /\ own' \in [All -> [Bucket -> Nat]]
    BY <1>1, <2>1 DEF Begin
  <2>3. cur' \in [All -> Bucket] /\ best' \in [All -> Bucket]
    BY <1>1, NextBucket DEF Begin
  <2>4. /\ pc' \in [All -> {"idle", "reset"} \cup Counting \cup Scanning \cup Showing]
        /\ \A u \in All : pc'[u] \in Counting => pixels'[u] # <<>>
    BY <1>1 DEF Begin, AfterCounting
  <2>5. lone' \in [All -> BOOLEAN]
    BY <1>1, Zenon DEF Begin
  <2>6. QED
    BY <1>1, <2>2, <2>3, <2>4, <2>5 DEF Begin
<1>2. ASSUME NEW t \in All, ReadCount(t)
      PROVE  TypeOK'
  <2>1. Head(pixels[t]) \in Pixel
    BY <1>2, HeadTailProperties DEF ReadCount
  <2>2. PICK b \in Bucket : /\ cur' = [cur EXCEPT ![t] = b]
                            /\ tmp' = [tmp EXCEPT ![t] = count[b]]
    BY <1>2, <2>1, BucketExists DEF ReadCount
  <2>3. QED
    BY <1>2, <2>2 DEF ReadCount
<1>3. ASSUME NEW t \in All, WriteCount(t)
      PROVE  TypeOK'
  <2>1. Tail(pixels[t]) \in Seq(Pixel)
    BY <1>3, HeadTailProperties DEF WriteCount
  <2>2. pixels' \in [All -> Seq(Pixel)]
    BY <1>3, <2>1 DEF WriteCount
  <2>3. count' \in [Bucket -> Nat] /\ own' \in [All -> [Bucket -> Nat]]
    BY <1>3 DEF WriteCount
  <2>4. cur' \in [All -> Bucket]
    BY <1>3, NextBucket DEF WriteCount
  <2>5. /\ pc' \in [All -> {"idle", "reset"} \cup Counting \cup Scanning \cup Showing]
        /\ \A u \in All : pc'[u] \in Counting => pixels'[u] # <<>>
    BY <1>3, <2>1 DEF WriteCount, AfterCounting
  <2>6. QED
    BY <1>3, <2>2, <2>3, <2>4, <2>5 DEF WriteCount
<1>4. ASSUME NEW t \in All, ReadNext(t)
      PROVE  TypeOK'
  BY <1>4 DEF ReadNext
<1>5. ASSUME NEW t \in All, Compare(t)
      PROVE  TypeOK'
  <2>1. cur' \in [All -> Bucket] /\ best' \in [All -> Bucket]
    BY <1>5, NextBucket DEF Compare
  <2>2. QED
    BY <1>5, <2>1 DEF Compare
<1>6. ASSUME NEW t \in All, ResetCount(t)
      PROVE  TypeOK'
  <2>1. cur' \in [All -> Bucket]
    BY <1>6, NextBucket DEF ResetCount
  <2>2. QED
    BY <1>6, <2>1 DEF ResetCount
<1>7. ASSUME NEW t \in All, SetColor(t)
      PROVE  TypeOK'
  BY <1>7 DEF SetColor
<1>8. ASSUME NEW t \in All, SetToolTip(t)
      PROVE  TypeOK'
  BY <1>8 DEF SetToolTip
<1>9. CASE UNCHANGED vars
  BY <1>9 DEF vars, local
<1>10. QED
  BY <1>1, <1>2, <1>3, <1>4, <1>5, <1>6, <1>7, <1>8, <1>9 DEF Next, Step
-----------------------------------------------------------------------------
(* What overlapping refreshes leave in the buckets. *)

(* A bucket that is not empty will be emptied, after every step. *)
LEMMA NextNoResidue == TypeOK /\ NoResidue /\ [Next]_vars => NoResidue'
<1> SUFFICES ASSUME TypeOK, NoResidue, [Next]_vars,
                    NEW b \in Bucket, count'[b] # 0
             PROVE  \E t \in All : WillReset(t, b)'
  BY DEF NoResidue
<1> USE DEF At, Goto, shared, WillReset, Counting, Scanning
<1>1. ASSUME NEW t \in All, NEW screen \in Screens, Begin(t, screen)
      PROVE  \E u \in All : WillReset(u, b)'
  <2>1. PICK u \in All : WillReset(u, b)
    BY <1>1 DEF Begin, NoResidue
  <2>2. u # t
    BY <1>1, <2>1 DEF Begin
  <2>3. pc'[u] = pc[u] /\ cur'[u] = cur[u]
    BY <1>1, <2>2 DEF Begin, TypeOK
  <2>4. QED BY <2>1, <2>3
<1>2. ASSUME NEW t \in All, ReadCount(t)
      PROVE  \E u \in All : WillReset(u, b)'
  BY <1>2 DEF ReadCount, TypeOK
<1>3. ASSUME NEW t \in All, WriteCount(t)
      PROVE  \E u \in All : WillReset(u, b)'
  BY <1>3 DEF WriteCount, AfterCounting, TypeOK
<1>4. ASSUME NEW t \in All, ReadNext(t)
      PROVE  \E u \in All : WillReset(u, b)'
  BY <1>4 DEF ReadNext, TypeOK
<1>5. ASSUME NEW t \in All, Compare(t)
      PROVE  \E u \in All : WillReset(u, b)'
  <2>1. CASE cur[t] = Last
    <3>1. pc'[t] = "reset" /\ cur'[t] = 0
      BY <1>5, <2>1 DEF Compare, TypeOK
    <3>2. QED BY <3>1 DEF Bucket, Last
  <2>2. CASE cur[t] # Last
    BY <1>5, <2>2 DEF Compare, TypeOK
  <2>3. QED BY <2>1, <2>2
<1>6. ASSUME NEW t \in All, ResetCount(t)
      PROVE  \E u \in All : WillReset(u, b)'
  <2>1. b # cur[t] /\ count[b] # 0
    BY <1>6 DEF ResetCount, TypeOK
  <2>2. PICK u \in All : WillReset(u, b)
    BY <2>1 DEF NoResidue
  <2>3. CASE u # t
    <3>1. pc'[u] = pc[u] /\ cur'[u] = cur[u]
      BY <1>6, <2>3 DEF ResetCount, TypeOK
    <3>2. QED BY <2>2, <3>1
  <2>4. CASE u = t
    <3>1. cur[t] <= b /\ cur[t] # b /\ cur[t] \in Bucket
      BY <1>6, <2>1, <2>2, <2>4 DEF ResetCount, TypeOK
    <3>2. cur[t] # Last /\ cur[t] + 1 <= b
      BY <3>1 DEF Bucket, Last
    <3>3. pc'[t] = "reset" /\ cur'[t] = cur[t] + 1
      BY <1>6, <3>2 DEF ResetCount, TypeOK
    <3>4. QED BY <3>2, <3>3
  <2>5. QED BY <2>3, <2>4
<1>7. ASSUME NEW t \in All, SetColor(t)
      PROVE  \E u \in All : WillReset(u, b)'
  <2>1. PICK u \in All : WillReset(u, b)
    BY <1>7 DEF SetColor, NoResidue
  <2>2. u # t
    BY <1>7, <2>1 DEF SetColor
  <2>3. pc'[u] = pc[u] /\ cur'[u] = cur[u]
    BY <1>7, <2>2 DEF SetColor, TypeOK
  <2>4. QED BY <2>1, <2>3
<1>8. ASSUME NEW t \in All, SetToolTip(t)
      PROVE  \E u \in All : WillReset(u, b)'
  <2>1. PICK u \in All : WillReset(u, b)
    BY <1>8 DEF SetToolTip, NoResidue
  <2>2. u # t
    BY <1>8, <2>1 DEF SetToolTip
  <2>3. pc'[u] = pc[u] /\ cur'[u] = cur[u]
    BY <1>8, <2>2 DEF SetToolTip, TypeOK
  <2>4. QED BY <2>1, <2>3
<1>9. CASE UNCHANGED vars
  BY <1>9 DEF vars, local, NoResidue
<1>10. QED
  BY <1>1, <1>2, <1>3, <1>4, <1>5, <1>6, <1>7, <1>8, <1>9 DEF Next, Step
-----------------------------------------------------------------------------
(* Refreshes that overlap no other. *)

(* While a thread is in a refresh no other thread's refresh is lone. *)
LEMMA StepAlone ==
  ASSUME TypeOK, LoneIsAlone, NEW t \in All, Step(t)
  PROVE  /\ lone' = lone
         /\ ~At(t, "idle")
         /\ \A u \in All \ {t} : ~lone[u] /\ pc'[u] = pc[u]
<1> USE DEF At, Goto
<1>1. ~At(t, "idle") /\ lone' = lone
  BY DEF Step, ReadCount, WriteCount, ReadNext, Compare, ResetCount, SetColor, SetToolTip
<1>2. \E l : pc' = [pc EXCEPT ![t] = l]
  BY DEF Step, ReadCount, WriteCount, ReadNext, Compare, ResetCount, SetColor, SetToolTip
<1>3. \A u \in All \ {t} : pc'[u] = pc[u]
  BY <1>2 DEF TypeOK
<1>4. QED
  BY <1>1, <1>3 DEF LoneIsAlone

(* A refresh that begins is lone if no other runs, and no other is. *)
LEMMA BeginAlone ==
  ASSUME TypeOK, NEW t \in All, NEW screen \in Screens, Begin(t, screen)
  PROVE  /\ lone'[t] => \A u \in All : At(u, "idle")
         /\ \A u \in All \ {t} : ~lone'[u] /\ pc'[u] = pc[u]
         /\ pc'[t] \in {"count", "max"}
BY DEF Begin, At, Goto, AfterCounting, TypeOK

(* Every step keeps a lone refresh alone. *)
LEMMA NextLoneIsAlone == TypeOK /\ LoneIsAlone /\ [Next]_vars => LoneIsAlone'
<1> SUFFICES ASSUME TypeOK, LoneIsAlone, [Next]_vars,
                    NEW u \in All, lone'[u], NEW v \in All \ {u}
             PROVE  At(v, "idle")'
  BY DEF LoneIsAlone
<1>1. ASSUME NEW t \in All, NEW screen \in Screens, Begin(t, screen)
      PROVE  At(v, "idle")'
  BY <1>1, BeginAlone DEF At
<1>2. ASSUME NEW t \in All, Step(t)
      PROVE  At(v, "idle")'
  BY <1>2, StepAlone DEF At, LoneIsAlone
<1>3. CASE UNCHANGED vars
  BY <1>3 DEF vars, local, At, LoneIsAlone
<1>4. QED
  BY <1>1, <1>2, <1>3 DEF Next

(* While a lone refresh counts and scans, the counts are its own. *)
LEMMA NextLoneCounts == IInv /\ [Next]_vars => LoneCounts'
<1> SUFFICES ASSUME IInv, [Next]_vars,
                    NEW u \in All, lone'[u], pc'[u] \in Counting \cup Scanning
             PROVE  /\ count' = own'[u]
                    /\ pc'[u] \in {"add", "compare"} => tmp'[u] = count'[cur'[u]]
  BY DEF LoneCounts
<1> DEFINE Goal == /\ count' = own'[u]
                   /\ pc'[u] \in {"add", "compare"} => tmp'[u] = count'[cur'[u]]
<1> USE DEF At, Goto, shared, Counting, Scanning
<1>0. TypeOK /\ LoneIsAlone
  BY DEF IInv
<1>1. ASSUME NEW t \in All, NEW screen \in Screens, Begin(t, screen)
      PROVE  Goal
  <2>1. u = t /\ \A v \in All : At(v, "idle")
    BY <1>0, <1>1, BeginAlone
  <2>2. \A b \in Bucket : count[b] = 0
    BY <2>1 DEF IInv, NoResidue, WillReset
  <2>3. count = [b \in Bucket |-> 0]
    BY <1>0, <2>2 DEF TypeOK
  <2>4. own'[t] = [b \in Bucket |-> 0] /\ count' = count
    BY <1>0, <1>1 DEF Begin, TypeOK
  <2>5. pc'[t] \in {"count", "max"}
    BY <1>0, <1>1, BeginAlone
  <2>6. QED
    BY <2>1, <2>3, <2>4, <2>5
<1>2. ASSUME NEW t \in All, Step(t)
      PROVE  Goal
  <2>1. u = t /\ lone[t] /\ ~At(t, "idle")
    BY <1>0, <1>2, StepAlone
  <2>2. pc[t] \in Counting \cup Scanning =>
          /\ count = own[t]
          /\ pc[t] \in {"add", "compare"} => tmp[t] = count[cur[t]]
    BY <2>1 DEF IInv, LoneCounts
  <2>3. CASE ReadCount(t)
    BY <1>0, <2>1, <2>2, <2>3 DEF ReadCount, TypeOK
  <2>4. CASE WriteCount(t)
    <3>1. count' = [own[t] EXCEPT ![cur[t]] = @ + 1]
      BY <1>0, <2>2, <2>4 DEF WriteCount, TypeOK
    <3>2. own'[t] = [own[t] EXCEPT ![cur[t]] = @ + 1]
      BY <1>0, <2>4 DEF WriteCount, TypeOK
    <3>3. pc'[t] \in {"count", "max"}
      BY <1>0, <2>4 DEF WriteCount, AfterCounting, TypeOK
    <3>4. QED BY <2>1, <3>1, <3>2, <3>3
  <2>5. CASE ReadNext(t)
    BY <1>0, <2>1, <2>2, <2>5 DEF ReadNext, TypeOK
  <2>6. CASE Compare(t)
    BY <1>0, <2>1, <2>2, <2>6 DEF Compare, TypeOK
  <2>7. CASE ResetCount(t)
    BY <1>0, <2>1, <2>7 DEF ResetCount, TypeOK
  <2>8. CASE SetColor(t)
    BY <1>0, <2>1, <2>8 DEF SetColor, TypeOK
  <2>9. CASE SetToolTip(t)
    BY <1>0, <2>1, <2>9 DEF SetToolTip, TypeOK
  <2>10. QED
    BY <1>2, <2>3, <2>4, <2>5, <2>6, <2>7, <2>8, <2>9 DEF Step
<1>3. CASE UNCHANGED vars
  BY <1>3 DEF vars, local, IInv, LoneCounts
<1>4. QED
  BY <1>1, <1>2, <1>3 DEF Next
(* Every step keeps a scan started right. *)
LEMMA NextScanStarts == TypeOK /\ ScanStarts /\ [Next]_vars => ScanStarts'
<1> SUFFICES ASSUME TypeOK, ScanStarts, [Next]_vars, NEW u \in All
             PROVE  /\ pc'[u] \in Scanning => cur'[u] # 0
                    /\ pc'[u] \in Counting => best'[u] = 0
  BY DEF ScanStarts
<1> DEFINE Goal == /\ pc'[u] \in Scanning => cur'[u] # 0
                   /\ pc'[u] \in Counting => best'[u] = 0
<1> USE DEF At, Goto, shared, Counting, Scanning, ScanStarts, TypeOK
<1>1. ASSUME NEW t \in All, NEW screen \in Screens, Begin(t, screen)
      PROVE  Goal
  BY <1>1 DEF Begin
<1>2. ASSUME NEW t \in All, ReadCount(t)
      PROVE  Goal
  BY <1>2 DEF ReadCount
<1>3. ASSUME NEW t \in All, WriteCount(t)
      PROVE  Goal
  <2>1. CASE u = t
    <3>1. cur'[u] = 1 /\ best'[u] = best[u] /\ pc[u] = "add"
      BY <1>3, <2>1 DEF WriteCount
    <3>2. QED BY <3>1
  <2>2. CASE u # t
    <3>1. cur'[u] = cur[u] /\ best'[u] = best[u] /\ pc'[u] = pc[u]
      BY <1>3, <2>2 DEF WriteCount
    <3>2. QED BY <3>1
  <2>3. QED BY <2>1, <2>2
<1>4. ASSUME NEW t \in All, ReadNext(t)
      PROVE  Goal
  BY <1>4 DEF ReadNext
<1>5. ASSUME NEW t \in All, Compare(t)
      PROVE  Goal
  <2>1. cur[t] + 1 # 0
    <3>1. cur[t] \in Bucket
      OBVIOUS
    <3>2. QED BY <3>1, NextBucket
  <2>2. QED
    BY <1>5, <2>1 DEF Compare
<1>6. ASSUME NEW t \in All, ResetCount(t)
      PROVE  Goal
  BY <1>6 DEF ResetCount
<1>7. ASSUME NEW t \in All, SetColor(t)
      PROVE  Goal
  BY <1>7 DEF SetColor, Showing
<1>8. ASSUME NEW t \in All, SetToolTip(t)
      PROVE  Goal
  BY <1>8 DEF SetToolTip, Showing
<1>9. CASE UNCHANGED vars
  BY <1>9 DEF vars, local
<1>10. QED
  BY <1>1, <1>2, <1>3, <1>4, <1>5, <1>6, <1>7, <1>8, <1>9 DEF Next, Step

(* A scan that starts has the fullest of one bucket for its candidate. *)
LEMMA FirstIsFullest ==
  ASSUME NEW t \in All, own[t] \in [Bucket -> Nat]
  PROVE  IsFullest(t, 0, 0 .. 0)
<1>1. own[t][0] \in Nat
  BY NextBucket
<1>2. \A c \in 0 .. 0 : c = 0
  OBVIOUS
<1>3. QED
  BY <1>1, <1>2 DEF IsFullest

(* The buckets that a scan is past are buckets. *)
LEMMA BelowBucket ==
  ASSUME NEW c \in Bucket, c # 0, NEW b \in 0 .. c - 1
  PROVE  /\ c \in Nat /\ c > 0 /\ b \in 0 .. c
         /\ \A d \in 0 .. c : d \in Bucket
<1>1. c \in Nat /\ c > 0 /\ c <= 20 /\ Bucket = 0 .. 20
  BY BucketBounds
<1>2. b \in 0 .. c
  BY <1>1
<1>3. ASSUME NEW d \in 0 .. c
      PROVE  d \in Bucket
  BY <1>1
<1>4. QED
  BY <1>1, <1>2, <1>3

(* One comparison takes the candidate past one more bucket. *)
LEMMA CompareBest ==
  ASSUME NEW t \in All, own[t] \in [Bucket -> Nat],
         NEW c \in Bucket, c # 0,
         NEW b \in 0 .. c - 1, IsFullest(t, b, 0 .. c - 1),
         NEW n, n = IF own[t][c] > own[t][b] THEN c ELSE b
  PROVE  n \in 0 .. c /\ IsFullest(t, n, 0 .. c)
<1>1. /\ c \in Nat /\ c > 0 /\ b \in 0 .. c
      /\ \A d \in 0 .. c : d \in Bucket
  BY BelowBucket
<1>2. \A d \in 0 .. c : own[t][d] \in Nat
  BY <1>1
<1>3. CASE own[t][c] > own[t][b]
  <2>1. n = c
    BY <1>3
  <2>2. ASSUME NEW d \in 0 .. c
        PROVE  own[t][d] < own[t][c] \/ (own[t][d] = own[t][c] /\ c <= d)
    <3>1. CASE d = c
      BY <3>1, <1>1
    <3>2. CASE d # c
      <4>1. d \in 0 .. c - 1
        BY <1>1, <3>2
      <4>2. own[t][d] <= own[t][b]
        BY <4>1, <1>1, <1>2 DEF IsFullest
      <4>3. QED BY <4>2, <1>1, <1>2, <1>3
    <3>3. QED BY <3>1, <3>2
  <2>3. QED BY <1>1, <2>1, <2>2 DEF IsFullest
<1>4. CASE ~(own[t][c] > own[t][b])
  <2>1. n = b
    BY <1>4
  <2>2. ASSUME NEW d \in 0 .. c
        PROVE  own[t][d] < own[t][b] \/ (own[t][d] = own[t][b] /\ b <= d)
    <3>1. CASE d = c
      BY <3>1, <1>1, <1>2, <1>4
    <3>2. CASE d # c
      <4>1. d \in 0 .. c - 1
        BY <1>1, <3>2
      <4>2. QED BY <4>1 DEF IsFullest
    <3>3. QED BY <3>1, <3>2
  <2>3. QED BY <1>1, <2>1, <2>2 DEF IsFullest
<1>5. QED
  BY <1>3, <1>4
(* Every step keeps the candidate of a lone refresh the fullest so far. *)
LEMMA NextLoneBest == IInv /\ [Next]_vars => LoneBest'
<1> SUFFICES ASSUME IInv, [Next]_vars, NEW u \in All, lone'[u]
             PROVE  (/\ pc[u] \in Scanning => /\ best[u] \in 0 .. cur[u] - 1
                                              /\ IsFullest(u, best[u], 0 .. cur[u] - 1)
                     /\ pc[u] \in {"reset"} \cup Showing => IsFullest(u, best[u], Bucket)
                     /\ pc[u] = "mood" => u # Main /\ chooser = best[u])'
  BY DEF LoneBest
<1> DEFINE Scan == pc[u] \in Scanning =>
                     /\ best[u] \in 0 .. cur[u] - 1
                     /\ IsFullest(u, best[u], 0 .. cur[u] - 1)
           Show == pc[u] \in {"reset"} \cup Showing => IsFullest(u, best[u], Bucket)
           Mood == pc[u] = "mood" => u # Main /\ chooser = best[u]
           Goal == Scan' /\ Show' /\ Mood'
<1> USE DEF At, Goto, shared, Counting, Scanning, Showing
<1>0. TypeOK /\ LoneIsAlone /\ ScanStarts
  BY DEF IInv
<1>1. ASSUME NEW t \in All, NEW screen \in Screens, Begin(t, screen)
      PROVE  Goal
  <2>1. u = t /\ pc'[u] \in {"count", "max"}
    BY <1>0, <1>1, BeginAlone
  <2>2. /\ cur'[u] = 1 /\ best'[u] = 0
        /\ own'[u] = [b \in Bucket |-> 0]
    BY <1>0, <1>1, <2>1 DEF Begin, TypeOK
  <2>3. IsFullest(u, 0, 0 .. 0)'
    BY <2>2, NextBucket DEF IsFullest
  <2>4. QED
    BY <2>1, <2>2, <2>3
<1>2. ASSUME NEW t \in All, Step(t)
      PROVE  Goal
  <2>1. u = t /\ lone[u] /\ ~At(u, "idle")
    BY <1>0, <1>2, StepAlone
  <2>2. Scan /\ Show /\ Mood
    BY <2>1 DEF IInv, LoneBest
  <2>3. CASE ReadCount(u)
    BY <1>0, <2>3 DEF ReadCount, TypeOK
  <2>4. CASE WriteCount(u)
    <3>1. cur'[u] = 1 /\ best'[u] = 0 /\ pc'[u] \in {"count", "max"}
      BY <1>0, <2>4 DEF WriteCount, AfterCounting, TypeOK, ScanStarts
    <3>2. own'[u] \in [Bucket -> Nat]
      BY <1>0, NextType DEF TypeOK
    <3>3. IsFullest(u, 0, 0 .. 0)'
      <4>1. own'[u][0] \in Nat
        BY <3>2, NextBucket
      <4>2. \A c \in 0 .. 0 : c = 0
        OBVIOUS
      <4>3. QED BY <4>1, <4>2 DEF IsFullest
    <3>4. QED BY <3>1, <3>3
  <2>5. CASE ReadNext(u)
    <3>1. /\ cur'[u] = cur[u] /\ best'[u] = best[u] /\ own' = own
          /\ pc[u] = "max" /\ pc'[u] = "compare"
      BY <1>0, <2>5 DEF ReadNext, TypeOK
    <3>2. QED BY <2>2, <3>1 DEF IsFullest
  <2>6. CASE Compare(u)
    <3>1. /\ own[u] \in [Bucket -> Nat] /\ cur[u] \in Bucket
          /\ pc[u] = "compare" /\ cur[u] # 0
          /\ count = own[u] /\ tmp[u] = own[u][cur[u]]
      BY <1>0, <2>1, <2>6 DEF Compare, TypeOK, ScanStarts, IInv, LoneCounts
    <3>2. best[u] \in 0 .. cur[u] - 1 /\ IsFullest(u, best[u], 0 .. cur[u] - 1)
      BY <2>2, <3>1
    <3>3. best'[u] = IF own[u][cur[u]] > own[u][best[u]] THEN cur[u] ELSE best[u]
      BY <1>0, <2>6, <3>1 DEF Compare, Fuller, TypeOK
    <3>4. best'[u] \in 0 .. cur[u] /\ IsFullest(u, best'[u], 0 .. cur[u])
      BY <3>1, <3>2, <3>3, CompareBest
    <3>5. own' = own
      BY <2>6 DEF Compare
    <3>6. IsFullest(u, best[u], 0 .. cur[u] - 1)' <=> IsFullest(u, best'[u], 0 .. cur'[u] - 1)
      BY <3>5 DEF IsFullest
    <3>7. IsFullest(u, best[u], Bucket)' <=> IsFullest(u, best'[u], Bucket)
      BY <3>5 DEF IsFullest
    <3>8. CASE cur[u] = Last
      <4>1. pc'[u] = "reset"
        BY <1>0, <2>6, <3>8 DEF Compare, TypeOK
      <4>2. IsFullest(u, best'[u], Bucket)
        BY <3>4, <3>8 DEF Bucket
      <4>3. QED BY <3>7, <4>1, <4>2
    <3>9. CASE cur[u] # Last
      <4>1. pc'[u] = "max" /\ cur'[u] = cur[u] + 1
        BY <1>0, <2>6, <3>9 DEF Compare, TypeOK
      <4>2. cur'[u] - 1 = cur[u]
        BY <3>1, <4>1 DEF Bucket
      <4>3. QED BY <3>4, <3>6, <4>1, <4>2
    <3>10. QED BY <3>8, <3>9
  <2>7. CASE ResetCount(u)
    <3>1. /\ best' = best /\ own' = own
          /\ pc[u] = "reset" /\ pc'[u] \in {"reset", "colour"}
      BY <1>0, <2>7 DEF ResetCount, TypeOK
    <3>2. QED BY <2>2, <3>1 DEF IsFullest
  <2>8. CASE SetColor(u)
    <3>1. /\ best' = best /\ own' = own /\ chooser' = best[u]
          /\ pc[u] = "colour"
          /\ pc'[u] = IF u = Main THEN "idle" ELSE "mood"
      BY <1>0, <2>8 DEF SetColor, TypeOK
    <3>2. QED BY <2>2, <3>1 DEF IsFullest
  <2>9. CASE SetToolTip(u)
    BY <1>0, <2>9 DEF SetToolTip, TypeOK
  <2>10. QED
    BY <1>2, <2>1, <2>3, <2>4, <2>5, <2>6, <2>7, <2>8, <2>9 DEF Step
<1>3. CASE UNCHANGED vars
  <2>1. pc' = pc /\ best' = best /\ cur' = cur /\ own' = own /\ lone' = lone /\ chooser' = chooser
    BY <1>3 DEF vars, local
  <2>2. Scan /\ Show /\ Mood
    BY <2>1 DEF IInv, LoneBest
  <2>3. QED BY <2>1, <2>2 DEF IsFullest
<1>4. QED
  BY <1>1, <1>2, <1>3 DEF Next
(* Every step keeps what a lone refresh has shown its fullest bucket. *)
LEMMA NextShowsPredominant == IInv /\ [Next]_vars => ShowsPredominant'
<1> SUFFICES ASSUME IInv, [Next]_vars, NEW u \in All, lone'[u], pc'[u] = "idle"
             PROVE  /\ chooser' \in Bucket /\ IsFullest(u, chooser, Bucket)'
                    /\ u # Main => tip' = chooser'
  BY DEF ShowsPredominant, At
<1> DEFINE Goal == /\ chooser' \in Bucket /\ IsFullest(u, chooser, Bucket)'
                   /\ u # Main => tip' = chooser'
<1> USE DEF At, Goto, Showing
<1>0. TypeOK /\ LoneIsAlone
  BY DEF IInv
<1>1. ASSUME NEW t \in All, NEW screen \in Screens, Begin(t, screen)
      PROVE  Goal
  BY <1>0, <1>1, BeginAlone
<1>2. ASSUME NEW t \in All, Step(t)
      PROVE  Goal
  <2>1. u = t /\ lone[u] /\ ~At(u, "idle")
    BY <1>0, <1>2, StepAlone
  <2>2. CASE SetColor(u)
    <3>1. u = Main /\ chooser' = best[u] /\ own' = own /\ pc[u] = "colour"
      BY <1>0, <2>2 DEF SetColor, TypeOK
    <3>2. IsFullest(u, best[u], Bucket) /\ best[u] \in Bucket
      BY <1>0, <2>1, <3>1 DEF IInv, LoneBest, TypeOK
    <3>3. QED BY <3>1, <3>2 DEF IsFullest
  <2>3. CASE SetToolTip(u)
    <3>1. tip' = best[u] /\ chooser' = chooser /\ own' = own /\ pc[u] = "mood"
      BY <2>3 DEF SetToolTip
    <3>2. IsFullest(u, best[u], Bucket) /\ best[u] \in Bucket /\ chooser = best[u]
      BY <1>0, <2>1, <3>1 DEF IInv, LoneBest, TypeOK
    <3>3. QED BY <3>1, <3>2 DEF IsFullest
  <2>4. CASE \/ ReadCount(u) \/ WriteCount(u) \/ ReadNext(u) \/ Compare(u)
             \/ ResetCount(u)
    <3>1. pc'[u] # "idle"
      BY <1>0, <2>4 DEF ReadCount, WriteCount, AfterCounting, ReadNext, Compare,
                        ResetCount, TypeOK
    <3>2. QED BY <3>1
  <2>5. QED
    BY <1>2, <2>1, <2>2, <2>3, <2>4 DEF Step
<1>3. CASE UNCHANGED vars
  <2>1. pc' = pc /\ own' = own /\ lone' = lone /\ chooser' = chooser /\ tip' = tip
    BY <1>3 DEF vars, local, shared
  <2>2. QED BY <2>1 DEF IInv, ShowsPredominant, IsFullest
<1>4. QED
  BY <1>1, <1>2, <1>3 DEF Next

-----------------------------------------------------------------------------
(* The theorems. *)

(* The application starts in the inductive invariant. *)
LEMMA InitIInv == Init => IInv
<1> SUFFICES ASSUME Init PROVE IInv
  OBVIOUS
<1>1. TypeOK
  BY InitType
<1>2. NoResidue
  BY DEF Init, NoResidue
<1>3. \A t \in All : pc[t] = "idle" /\ ~lone[t]
  BY DEF Init
<1>4. ShowsPredominant /\ LoneIsAlone /\ LoneCounts /\ LoneBest
  BY <1>3 DEF ShowsPredominant, LoneIsAlone, LoneCounts, LoneBest
<1>5. ScanStarts
  BY <1>3 DEF ScanStarts, Scanning, Counting
<1>6. QED
  BY <1>1, <1>2, <1>4, <1>5 DEF IInv

(* IInv holds in every reachable state of the application. *)
THEOREM Invariance == Spec => []IInv
<1>1. IInv /\ [Next]_vars => IInv'
  BY NextType, NextNoResidue, NextShowsPredominant, NextLoneIsAlone, NextLoneCounts,
     NextScanStarts, NextLoneBest DEF IInv
<1>2. QED
  BY <1>1, InitIInv, PTL DEF Spec

(* The enum has a bucket for every colour a pixel can have, and so the        *)
(* unchecked index of Colors.count is one of its array.                       *)
THEOREM IndexIsSafe == Spec => []IndexInRange
<1>1. IInv => IndexInRange
  <2> SUFFICES ASSUME IInv, NEW t \in All, pc[t] = "count"
               PROVE  BucketsOf(Head(pixels[t])) \subseteq Bucket
    BY DEF IndexInRange, At
  <2>1. pixels[t] \in Seq(Pixel) /\ pixels[t] # <<>>
    BY DEF IInv, TypeOK, Counting
  <2>2. QED
    BY <2>1, HeadTailProperties, BucketExists
<1>2. QED
  BY <1>1, Invariance, PTL

(* Whatever overlapping refreshes do to each other's counts, one of them      *)
(* empties every bucket they leave (resetCount, count++).                     *)
THEOREM OverlapsLeaveNothing == Spec => []NoResidue
<1>1. IInv => NoResidue
  BY DEF IInv
<1>2. QED
  BY <1>1, Invariance, PTL

(* A refresh that overlaps no other shows the fullest bucket of its captures, *)
(* for any captures and after any overlaps (getPredominantColor, updateColor).*)
THEOREM LoneRefreshIsRight == Spec => []ShowsPredominant
<1>1. IInv => ShowsPredominant
  BY DEF IInv
<1>2. QED
  BY <1>1, Invariance, PTL

(* Counts, buckets and pixels keep their types, for any captures.             *)
THEOREM TypeCorrect == Spec => []TypeOK
<1>1. IInv => TypeOK
  BY DEF IInv
<1>2. QED
  BY <1>1, Invariance, PTL
=============================================================================
