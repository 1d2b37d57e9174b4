------------------------------ MODULE LedProto ------------------------------
(***************************************************************************)
(* What a command does to the LEDs: from the arguments the user gives the  *)
(* library or the test program, through the packet, to the widths that     *)
(* eval_pkt (app/proto.c) gives the PWM channels of timer 4.  How a packet *)
(* gets to eval_pkt, whole and in order, is the subject of UsbFirmware.    *)
(***************************************************************************)
EXTENDS Naturals

CONSTANTS Duty,  \* the duty cycles users give: uint32_t
          Junk   \* what the words of an uninitialised packet hold: uint32_t

ASSUME DutyAssumption == Duty \subseteq Nat /\ Junk \subseteq Nat

VARIABLES chan,    \* width of each PWM channel in ticks, 0 when it is disabled
          request  \* the user's newest request

vars == <<chan, request>>

Channel == 0 .. 3
Period  == 128                                  \* pwmcfg.period
Word    == 65536                                \* 2^16, past a pwmcnt_t
Active  == {0, 2, 3}                            \* pwmcfg's channels that are not disabled
Colour  == {"red", "green", "blue"}

Requests == [cmd : {"ON", "OFF", "RGB"}, data : [Colour -> Duty \cup Junk]]

(* The channel of each colour; 1 is the orange one, which is not connected. *)
ChannelOf(colour) == IF colour = "green" THEN 0 ELSE IF colour = "red" THEN 2 ELSE 3

-----------------------------------------------------------------------------
(* The PWM of one channel: pwmcnt_t is 16 bits wide. *)

(* Mutant of Ticks: the product keeps its upper bits. *)
TicksWide(duty) == duty * 100

(* PWM_PERCENTAGE_TO_WIDTH counts in hundredths of a percent. *)
Ticks(duty) == (duty * 100) % Word

(* set_duty_cycle, whose argument has lost its upper 16 bits in               *)
(* LED_set_duty_cycle.                                                        *)
Width(duty) == (Period * Ticks(duty % Word)) \div 10000

(* Mutant of LED_set_duty_cycle: red and green are swapped. *)
LED_set_duty_cycle_swapped(data) ==
  chan' = [chan EXCEPT ![0] = Width(data["red"]),
                       ![2] = Width(data["green"]),
                       ![3] = Width(data["blue"])]

LED_set_duty_cycle(data) ==
  chan' = [chan EXCEPT ![0] = Width(data["green"]),
                       ![2] = Width(data["red"]),
                       ![3] = Width(data["blue"])]

LED_switch_OFF == chan' = [chan EXCEPT ![0] = 0, ![2] = 0, ![3] = 0]
LED_switch_ON  == chan' = [chan EXCEPT ![0] = Period, ![2] = Period, ![3] = Period]

(* An unknown command switches the LEDs off. *)
eval_pkt(cmd, data) == \/ cmd = "RGB" /\ LED_set_duty_cycle(data)
                       \/ cmd = "ON" /\ LED_switch_ON
                       \/ cmd \notin {"RGB", "ON"} /\ LED_switch_OFF

-----------------------------------------------------------------------------
(* The requests. *)

(* What the library accepts. *)
Accepted(data) == \A c \in Colour : data[c] <= 100

(* switch_on and switch_off of the library, -n and -f of the test program:    *)
(* the packet's data are whatever the stack held.                             *)
Switch(cmd) == \E d \in [Colour -> Junk] :
                 /\ request' = [cmd |-> cmd, data |-> d]
                 /\ eval_pkt(cmd, d)

(* set_rgb sends the packet even when it has not filled it. *)
set_rgb(data) == /\ request' = [cmd |-> "RGB", data |-> data]
                 /\ \/ Accepted(data) /\ eval_pkt("RGB", data)
                    \/ /\ ~Accepted(data)
                       /\ \E d \in [Colour -> Junk] : eval_pkt("RGB", d)

(* -s of the test program takes any values. *)
Option_s(data) == /\ request' = [cmd |-> "RGB", data |-> data]
                  /\ eval_pkt("RGB", data)

(* The channels start disabled (pwmStart). *)
Init == /\ chan = [c \in Channel |-> 0]
        /\ \E d \in [Colour -> Junk] : request = [cmd |-> "OFF", data |-> d]

Next == \/ \E cmd \in {"ON", "OFF"} : Switch(cmd)
        \/ \E data \in [Colour -> Duty] : set_rgb(data) \/ Option_s(data)

Spec == Init /\ [][Next]_vars

-----------------------------------------------------------------------------

(* What the pin of a channel shows: one that pwmcfg leaves disabled is dark,  *)
(* whatever width it is given.  The comment of pwmcfg (main.c:39) counts only *)
(* the first and the last as enabled.                                         *)
Output(c) == IF c \in Active THEN chan[c] ELSE 0

(* A colour given in percents. *)
Percents(data) == \A c \in Colour : data[c] \in 0 .. 100

(* 838 ticks is the width of 65535 hundredths of a percent. *)
TypeOK == /\ chan \in [Channel -> 0 .. 838]
          /\ request \in Requests

(* A valid request is shown exactly, whatever was shown before: no colour of  *)
(* an earlier packet, and no lost bit of the 16-bit arithmetic, is left over, *)
(* and the channel of each colour is one that main.c enables.                 *)
ShowsRequest ==
  \A c \in Colour :
    LET width == Output(ChannelOf(c)) IN
      /\ request.cmd = "ON" => width = Period
      /\ request.cmd = "OFF" => width = 0
      /\ request.cmd = "RGB" /\ Percents(request.data) =>
           width = (Period * request.data[c]) \div 100
=============================================================================
