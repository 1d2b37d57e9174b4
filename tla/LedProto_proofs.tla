--------------------------- MODULE LedProto_proofs ---------------------------
(***************************************************************************)
(* Theorems about LedProto, for every set of duty cycles and every content *)
(* of an uninitialised packet.                                             *)
(***************************************************************************)
EXTENDS LedProto, TLAPS

(* The 16-bit arithmetic bounds the width of any duty cycle. *)
LEMMA WidthType ==
  ASSUME NEW d \in Nat
  PROVE  Width(d) \in 0 .. 838
<1> DEFINE low == d % Word
           t   == (low * 100) % Word
<1>1. low \in Nat /\ low <= 65535
  BY SMT DEF Word
<1> HIDE DEF low
<1>2. t \in Nat /\ t <= 65535
  BY <1>1, SMT DEF Word
<1> HIDE DEF t
<1>3. (128 * t) \div 10000 \in Nat /\ (128 * t) \div 10000 <= 838
  BY <1>2, SMT
<1>4. Width(d) = (128 * t) \div 10000
  BY DEF Width, Ticks, Period, low, t
<1>5. QED
  BY <1>3, <1>4, SMT

(* For a percentage nothing is lost: the width is that share of the period.   *)
LEMMA WidthOfPercent ==
  ASSUME NEW d \in 0 .. 100
  PROVE  Width(d) = (Period * d) \div 100
<1>1. d % Word = d
  BY SMT DEF Word
<1>2. (d * 100) % Word = d * 100
  BY SMT DEF Word
<1>3. (128 * (d * 100)) \div 10000 = (128 * d) \div 100
  BY SMT
<1>4. Width(d) = (128 * d) \div 100
  BY <1>1, <1>2, <1>3 DEF Width, Ticks, Period
<1>5. QED
  BY <1>4 DEF Period

-----------------------------------------------------------------------------
(* What one packet does. *)

(* The PWM has a width for every channel after a packet, and an RGB packet of *)
(* percents gives each colour its share.                                      *)
LEMMA PacketShown ==
  ASSUME chan \in [Channel -> 0 .. 838],
         NEW cmd \in {"ON", "OFF", "RGB"}, NEW data \in [Colour -> Nat],
         eval_pkt(cmd, data)
  PROVE  /\ chan' \in [Channel -> 0 .. 838]
         /\ \A c \in Colour :
              /\ cmd = "ON" => chan'[ChannelOf(c)] = Period
              /\ cmd = "OFF" => chan'[ChannelOf(c)] = 0
              /\ cmd = "RGB" => chan'[ChannelOf(c)] = Width(data[c])
<1>1. CASE cmd = "RGB" /\ LED_set_duty_cycle(data)
  <2>1. \A c \in Colour : Width(data[c]) \in 0 .. 838
    BY WidthType
  <2>2. chan' = [chan EXCEPT ![0] = Width(data["green"]), ![2] = Width(data["red"]),
                             ![3] = Width(data["blue"])]
    BY <1>1 DEF LED_set_duty_cycle
  <2> HIDE DEF Width
  <2>3. chan' \in [Channel -> 0 .. 838]
    BY <2>1, <2>2 DEF Channel, Colour
  <2>4. \A c \in Colour : chan'[ChannelOf(c)] = Width(data[c])
    BY <2>2 DEF Channel, Colour, ChannelOf
  <2>5. QED
    BY <1>1, <2>3, <2>4
<1>2. CASE cmd = "ON" /\ LED_switch_ON
  BY <1>2 DEF LED_switch_ON, Channel, Colour, ChannelOf, Period
<1>3. CASE cmd = "OFF" /\ LED_switch_OFF
  BY <1>3 DEF LED_switch_OFF, Channel, Colour, ChannelOf
<1>4. QED
  BY <1>1, <1>2, <1>3 DEF eval_pkt

-----------------------------------------------------------------------------
(* The invariants. *)

(* The channel of each colour is enabled. *)
LEMMA ColoursAreActive == \A c \in Colour : ChannelOf(c) \in Active
BY DEF Colour, ChannelOf, Active

(* Every step shows a packet, and it is the request's unless the request is   *)
(* out of range.                                                              *)
LEMMA StepShowsPacket ==
  ASSUME TypeOK, Next
  PROVE  /\ request' \in Requests
         /\ \E d \in [Colour -> Nat] :
              /\ eval_pkt(request'.cmd, d)
              /\ request'.cmd = "RGB" /\ Percents(request'.data) => d = request'.data
<1> DEFINE Values == Duty \cup Junk
<1>0. Values \subseteq Nat
  BY DutyAssumption
<1>1. \A data \in [Colour -> Duty] : data \in [Colour -> Values] /\ data \in [Colour -> Nat]
  BY <1>0
<1>2. \A data \in [Colour -> Junk] : data \in [Colour -> Values] /\ data \in [Colour -> Nat]
  BY <1>0
<1>3. ASSUME NEW cmd \in {"ON", "OFF"}, Switch(cmd)
      PROVE  /\ request' \in Requests
             /\ \E d \in [Colour -> Nat] : eval_pkt(request'.cmd, d) /\ request'.cmd # "RGB"
  <2>1. PICK d \in [Colour -> Junk] :
          request' = [cmd |-> cmd, data |-> d] /\ eval_pkt(cmd, d)
    BY <1>3 DEF Switch
  <2>2. request'.cmd = cmd /\ cmd # "RGB"
    BY <2>1
  <2>3. QED
    BY <1>2, <2>1, <2>2 DEF Requests
<1>4. ASSUME NEW data \in [Colour -> Duty], set_rgb(data)
      PROVE  /\ request' \in Requests
             /\ \E d \in [Colour -> Nat] :
                  /\ eval_pkt(request'.cmd, d)
                  /\ Percents(request'.data) => d = request'.data
  <2>1. request' = [cmd |-> "RGB", data |-> data] /\ request'.data = data /\ request'.cmd = "RGB"
    BY <1>4 DEF set_rgb
  <2>2. request' \in Requests
    BY <1>1, <2>1 DEF Requests
  <2>3. CASE Accepted(data)
    BY <1>1, <1>4, <2>1, <2>2, <2>3 DEF set_rgb
  <2>4. CASE ~Accepted(data)
    <3>1. ~Percents(data)
      BY <2>4 DEF Accepted, Percents
    <3>2. PICK d \in [Colour -> Junk] : eval_pkt("RGB", d)
      BY <1>4, <2>4 DEF set_rgb
    <3>3. QED
      BY <1>2, <2>1, <2>2, <3>1, <3>2
  <2>5. QED
    BY <2>3, <2>4
<1>5. ASSUME NEW data \in [Colour -> Duty], Option_s(data)
      PROVE  /\ request' \in Requests
             /\ \E d \in [Colour -> Nat] :
                  eval_pkt(request'.cmd, d) /\ d = request'.data
  <2>1. /\ request' = [cmd |-> "RGB", data |-> data] /\ request'.data = data
        /\ request'.cmd = "RGB" /\ eval_pkt("RGB", data)
    BY <1>5 DEF Option_s
  <2>2. QED
    BY <1>1, <2>1 DEF Requests
<1>6. QED
  BY <1>3, <1>4, <1>5 DEF Next

(* The next state's LEDs match the next state's request. *)
LEMMA NextShows ==
  ASSUME TypeOK, Next
  PROVE  TypeOK' /\ ShowsRequest'
<1>1. PICK d \in [Colour -> Nat] :
        /\ eval_pkt(request'.cmd, d)
        /\ request'.cmd = "RGB" /\ Percents(request'.data) => d = request'.data
  BY StepShowsPacket
<1>2. request' \in Requests /\ request'.cmd \in {"ON", "OFF", "RGB"}
  BY StepShowsPacket DEF Requests
<1>3. /\ chan' \in [Channel -> 0 .. 838]
      /\ \A c \in Colour :
           /\ request'.cmd = "ON" => chan'[ChannelOf(c)] = Period
           /\ request'.cmd = "OFF" => chan'[ChannelOf(c)] = 0
           /\ request'.cmd = "RGB" => chan'[ChannelOf(c)] = Width(d[c])
  BY <1>1, <1>2, PacketShown DEF TypeOK
<1>4. ASSUME request'.cmd = "RGB", Percents(request'.data), NEW c \in Colour
      PROVE  chan'[ChannelOf(c)] = (Period * request'.data[c]) \div 100
  <2>1. d[c] = request'.data[c] /\ request'.data[c] \in 0 .. 100
    BY <1>1, <1>4 DEF Percents
  <2>2. Width(request'.data[c]) = (Period * request'.data[c]) \div 100
    BY <2>1, WidthOfPercent
  <2>3. QED
    BY <1>3, <1>4, <2>1, <2>2
<1>5. \A c \in Colour : Output(ChannelOf(c))' = chan'[ChannelOf(c)]
  BY ColoursAreActive DEF Output
<1>6. QED
  BY <1>2, <1>3, <1>4, <1>5 DEF TypeOK, ShowsRequest

(* The LEDs start dark, as an OFF request leaves them. *)
LEMMA InitShows == Init => TypeOK /\ ShowsRequest
<1> SUFFICES ASSUME Init PROVE TypeOK /\ ShowsRequest
  OBVIOUS
<1>1. PICK d \in [Colour -> Junk] : request = [cmd |-> "OFF", data |-> d]
  BY DEF Init
<1>2. d \in [Colour -> Duty \cup Junk] /\ request.cmd = "OFF"
  BY <1>1
<1>3. request \in Requests
  BY <1>1, <1>2 DEF Requests
<1>4. chan = [c \in Channel |-> 0] /\ \A c \in Colour : ChannelOf(c) \in Channel
  BY DEF Init, Channel, ChannelOf
<1>5. \A c \in Colour : Output(ChannelOf(c)) = 0
  BY <1>4 DEF Output
<1>6. QED
  BY <1>2, <1>3, <1>4, <1>5 DEF TypeOK, ShowsRequest

(* The LEDs always show the newest request that is in range: no bit of the    *)
(* 16-bit arithmetic and no channel is lost, for any duty cycles and garbage. *)
THEOREM RequestIsShown == Spec => [](TypeOK /\ ShowsRequest)
<1>1. TypeOK /\ ShowsRequest /\ [Next]_vars => (TypeOK /\ ShowsRequest)'
  <2> SUFFICES ASSUME TypeOK, ShowsRequest, [Next]_vars PROVE TypeOK' /\ ShowsRequest'
    OBVIOUS
  <2>1. CASE Next
    BY <2>1, NextShows
  <2>2. CASE UNCHANGED vars
    BY <2>2 DEF vars, TypeOK, ShowsRequest, Output
  <2>3. QED
    BY <2>1, <2>2
<1>2. QED
  BY InitShows, <1>1, PTL DEF Spec

(* The widths and the newest request keep their types, for any arguments.     *)
THEOREM TypeCorrect == Spec => []TypeOK
  BY RequestIsShown, PTL
=============================================================================
