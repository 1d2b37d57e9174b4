------------------------- MODULE UsbFirmware_proofs -------------------------
(***************************************************************************)
(* Theorems about UsbFirmware, for every report size and every bound.      *)
(* IInv is inductive: each of its conjuncts has a lemma that every step    *)
(* keeps it, with one case per action that can disturb it.                 *)
(***************************************************************************)
EXTENDS UsbFirmware, SequenceTheorems, TLAPS

USE FirmwareAssumption

-----------------------------------------------------------------------------
(* Lemmas about the data. *)

(* A report is a packet, and a sequence of units. *)
LEMMA UnitsType ==
  ASSUME NEW id \in 0 .. MaxReports
  PROVE  /\ Units(id) \in Packet
         /\ Units(id) \in Seq(Unit)
         /\ Len(Units(id)) = ReportSize
         /\ \A k \in 1 .. ReportSize : Units(id)[k] = [id |-> id, k |-> k]
<1>1. \A k \in 1 .. ReportSize : [id |-> id, k |-> k] \in Unit
  BY DEF Unit
<1>2. QED
  BY <1>1 DEF Units, Packet

(* The static buffers start as a packet of zeroes. *)
LEMMA ZeroesType == Zeroes \in Packet
  BY DEF Zeroes, Packet, Unit

(* The FIFO entries are entries. *)
LEMMA EntryType ==
  /\ \A id \in 1 .. MaxReports : Data(id) \in Entry
  /\ Done \in Entry
  /\ \A c \in {0, 1} : Setup(c) \in Entry
  BY DEF Data, Done, Setup, Entry

(* Reading the oldest FIFO entry. *)
LEMMA FifoTail ==
  ASSUME TypeOK, rxFifo # <<>>
  PROVE  /\ Len(rxFifo) \in Nat \ {0}
         /\ Head(rxFifo) = rxFifo[1]
         /\ Head(rxFifo) \in Entry
         /\ Tail(rxFifo) \in Seq(Entry)
         /\ Len(Tail(rxFifo)) = Len(rxFifo) - 1
         /\ \A i \in 1 .. Len(Tail(rxFifo)) : Tail(rxFifo)[i] = rxFifo[i + 1]
  BY HeadTailProperties, EmptySeq DEF TypeOK

(* Taking the oldest unit of the queue. *)
LEMMA QueueTail ==
  ASSUME TypeOK, queue # <<>>
  PROVE  /\ Len(queue) \in Nat \ {0}
         /\ Head(queue) = queue[1]
         /\ Head(queue) \in Unit
         /\ Tail(queue) \in Seq(Unit)
         /\ Len(Tail(queue)) = Len(queue) - 1
         /\ \A i \in 1 .. Len(Tail(queue)) : Tail(queue)[i] = queue[i + 1]
  BY HeadTailProperties, EmptySeq DEF TypeOK

(* Copying a report behind the units of the queue. *)
LEMMA QueueConcat ==
  ASSUME TypeOK, NEW id \in 0 .. MaxReports
  PROVE  LET q == queue \o Units(id) IN
         /\ Len(queue) \in Nat
         /\ q \in Seq(Unit)
         /\ Len(q) = Len(queue) + ReportSize
         /\ \A i \in 1 .. Len(queue) : q[i] = queue[i]
         /\ \A i \in Len(queue) + 1 .. Len(queue) + ReportSize :
              q[i] = [id |-> id, k |-> i - Len(queue)]
<1>1. queue \in Seq(Unit) /\ Units(id) \in Seq(Unit) /\ Len(Units(id)) = ReportSize
  BY UnitsType DEF TypeOK
<1>2. /\ queue \o Units(id) \in Seq(Unit)
      /\ Len(queue \o Units(id)) = Len(queue) + ReportSize
      /\ \A i \in 1 .. Len(queue) + ReportSize : (queue \o Units(id))[i] =
            IF i <= Len(queue) THEN queue[i] ELSE Units(id)[i - Len(queue)]
  BY <1>1, ConcatProperties
<1>3. Len(queue) \in Nat
  BY <1>1, LenProperties
<1>4. QED
  BY <1>2, <1>3, UnitsType

(* A reception of report id in the FIFO, behind what it holds. *)
LEMMA FifoReceive ==
  ASSUME TypeOK, NEW id \in 1 .. MaxReports
  PROVE  LET f == rxFifo \o <<Data(id), Done>> IN
         /\ Len(rxFifo) \in Nat
         /\ f \in Seq(Entry)
         /\ Len(f) = Len(rxFifo) + 2
         /\ \A i \in 1 .. Len(rxFifo) : f[i] = rxFifo[i]
         /\ f[Len(rxFifo) + 1] = Data(id)
         /\ f[Len(rxFifo) + 2] = Done
<1>1. /\ <<Data(id), Done>> \in Seq(Entry) /\ Len(<<Data(id), Done>>) = 2
      /\ rxFifo \in Seq(Entry) /\ Len(rxFifo) \in Nat
  BY EntryType, LenProperties DEF TypeOK
<1>2. QED
  BY <1>1, ConcatProperties

(* A SETUP packet in the FIFO, behind what it holds. *)
LEMMA FifoSetup ==
  ASSUME TypeOK, NEW c \in {0, 1}
  PROVE  LET f == Append(rxFifo, Setup(c)) IN
         /\ Len(rxFifo) \in Nat
         /\ f \in Seq(Entry)
         /\ Len(f) = Len(rxFifo) + 1
         /\ \A i \in 1 .. Len(rxFifo) : f[i] = rxFifo[i]
         /\ f[Len(rxFifo) + 1] = Setup(c)
<1>1. rxFifo \in Seq(Entry) /\ Len(rxFifo) \in Nat /\ Setup(c) \in Entry
  BY EntryType, LenProperties DEF TypeOK
<1>2. QED
  BY <1>1, AppendProperties

-----------------------------------------------------------------------------
(* Type correctness. *)

(* The firmware starts with every variable of its type. *)
LEMMA InitType == Init => TypeOK
<1> SUFFICES ASSUME Init PROVE TypeOK
  OBVIOUS
<1>1. rxFifo \in Seq(Entry) /\ queue \in Seq(Unit) /\ inFifo \in Packet \cup {<<>>}
  BY EmptySeq DEF Init
<1>2. /\ configured \in BOOLEAN /\ receiving \in BOOLEAN /\ transmitting \in BOOLEAN
      /\ nak \in BOOLEAN /\ txPending \in BOOLEAN /\ txLeft \in BOOLEAN
  BY DEF Init
<1>3. /\ pktcnt \in {0, 1}
      /\ mpc = "poll" /\ r \in 0 .. ReportSize /\ pump = "idle"
      /\ sent \in 0 .. MaxReports /\ echoed \in 0 .. MaxReports
      /\ resets \in 0 .. MaxResets /\ configs \in 0 .. MaxConfigs
  BY DEF Init
<1>4. req \in Packet /\ ans \in Packet /\ shown \in Packet
  BY ZeroesType DEF Init
<1>5. QED
  BY <1>1, <1>2, <1>3, <1>4 DEF TypeOK

(* Every step keeps every variable in its type. *)
LEMMA NextType == IInv /\ [Next]_vars => TypeOK'
<1> SUFFICES ASSUME IInv, [Next]_vars PROVE TypeOK'
  OBVIOUS
<1>0. TypeOK /\ ReaderState
  BY DEF IInv
<1> USE <1>0 DEF TypeOK
<1>1. CASE Poll
  BY <1>1 DEF Poll, usbVars, outVars, inVars, hostVars
<1>2. CASE Notify
  BY <1>2 DEF Notify, usbVars, outVars, inVars, hostVars
<1>3. CASE Prepare
  BY <1>3 DEF Prepare, usbVars, inVars, hostVars
<1>4. CASE Start
  BY <1>4 DEF Start, StartReceive, inVars, hostVars
<1>5. CASE Take
  <2>1. CASE queue = <<>>
    BY <1>5, <2>1 DEF Take, usbVars, outVars, inVars, hostVars
  <2>2. CASE queue # <<>>
    <3>1. r + 1 \in 1 .. ReportSize
      BY <1>5 DEF Take, ReaderState
    <3>2. Head(queue) \in Unit /\ Tail(queue) \in Seq(Unit)
      BY <2>2, QueueTail
    <3>3. [req EXCEPT ![r + 1] = Head(queue)] \in Packet
      BY <3>1, <3>2 DEF Packet
    <3>4. QED
      BY <1>5, <2>2, <3>1, <3>2, <3>3 DEF Take, usbVars, outVars, inVars, hostVars
  <2>3. QED
    BY <2>1, <2>2
<1>6. CASE Eval
  BY <1>6 DEF Eval, usbVars, outVars, inVars, hostVars
<1>7. CASE Send
  BY <1>7 DEF Send, outVars, hostVars
<1>8. CASE PumpData
  <2>1. Head(rxFifo).arg \in 0 .. MaxReports /\ Tail(rxFifo) \in Seq(Entry)
    BY <1>8, FifoTail DEF PumpData, IInv, FifoShape
  <2>2. queue \o Units(Head(rxFifo).arg) \in Seq(Unit)
    BY <2>1, QueueConcat
  <2>3. QED
    BY <1>8, <2>1, <2>2 DEF PumpData, usbVars, inVars, hostVars
<1>9. CASE PumpCount
  BY <1>9 DEF PumpCount, usbVars, outVars, inVars, mainVars, hostVars
<1>10. CASE PumpDone
  <2>1. Tail(rxFifo) \in Seq(Entry)
    BY <1>10, FifoTail DEF PumpDone
  <2>2. QED
    BY <1>10, <2>1 DEF PumpDone, ep1out_cb, inVars, mainVars, hostVars
<1>11. CASE PumpSetup
  <2>1. Tail(rxFifo) \in Seq(Entry) /\ <<>> \in Seq(Unit)
    BY <1>11, FifoTail, EmptySeq DEF PumpSetup
  <2>2. CASE Deconfigure
    BY <1>11, <2>1, <2>2 DEF PumpSetup, Deconfigure, inVars, mainVars, hostVars
  <2>3. CASE Configure
    BY <1>11, <2>1, <2>3 DEF PumpSetup, Configure, StartReceive, ReadReturns, hostVars
  <2>4. QED
    BY <1>11, <2>2, <2>3 DEF PumpSetup, usb_event_cb
<1>12. CASE PumpIn
  BY <1>12 DEF PumpIn, usbVars, outVars, mainVars, hostVars
<1>13. CASE UseNull
  BY <1>13 DEF UseNull, usbVars, outVars, inVars, hostVars
<1>14. CASE HostOut
  <2>1. sent + 1 \in 1 .. MaxReports
    BY <1>14 DEF HostOut
  <2>2. rxFifo \o <<Data(sent + 1), Done>> \in Seq(Entry)
    BY <2>1, FifoReceive
  <2>3. QED
    BY <1>14, <2>1, <2>2 DEF HostOut, usbVars, inVars, mainVars
<1>15. CASE HostIn
  <2>1. inFifo \in Packet /\ 1 \in 1 .. ReportSize
    BY <1>15 DEF HostIn
  <2>2. inFifo[1].id \in 0 .. MaxReports
    BY <2>1 DEF Packet, Unit
  <2>3. QED
    BY <1>15, <2>2 DEF HostIn, outVars, mainVars
<1>16. ASSUME NEW c \in {0, 1}, SetConfiguration(c) PROVE TypeOK'
  BY <1>16, FifoSetup DEF SetConfiguration, usbVars, inVars, mainVars
<1>17. CASE BusReset
  <2>1. rxFifo' \in Seq(Entry) /\ inFifo' \in Packet \cup {<<>>}
    BY <1>17, EmptySeq DEF BusReset
  <2>2. /\ configured' \in BOOLEAN /\ receiving' \in BOOLEAN /\ transmitting' \in BOOLEAN
        /\ nak' \in BOOLEAN
    BY <1>17 DEF BusReset
  <2>3. /\ resets' \in 0 .. MaxResets
        /\ UNCHANGED <<pktcnt, txPending, txLeft, queue, mainVars, pump, sent, echoed,
                       configs>>
    BY <1>17 DEF BusReset
  <2>4. QED
    BY <2>1, <2>2, <2>3 DEF mainVars
<1>18. CASE UNCHANGED vars
  BY <1>18 DEF vars, usbVars, outVars, inVars, mainVars, hostVars
<1>19. QED
  BY <1>1, <1>2, <1>3, <1>4, <1>5, <1>6, <1>7, <1>8, <1>9, <1>10, <1>11, <1>12,
     <1>13, <1>14, <1>15, <1>16, <1>17, <1>18 DEF Next, Main, Pump, Host

-----------------------------------------------------------------------------
(* What the steps do to the RX FIFO, and its shape. *)

(* The positions of a FIFO are positive, and none exceeds its length. *)
LEMMA FifoDomain ==
  ASSUME TypeOK
  PROVE  /\ Len(rxFifo) \in Nat
         /\ DOMAIN rxFifo = 1 .. Len(rxFifo)
         /\ \A i \in 1 .. Len(rxFifo) : rxFifo[i].kind \in {"data", "done", "setup"}
<1>1. /\ Len(rxFifo) \in Nat /\ DOMAIN rxFifo = 1 .. Len(rxFifo)
      /\ \A i \in 1 .. Len(rxFifo) : rxFifo[i] \in Entry
  BY LenProperties, ElementOfSeq DEF TypeOK
<1>2. QED
  BY <1>1 DEF Entry

(* A completion follows its data. *)
LEMMA PumpDataFifo ==
  ASSUME IInv, PumpData
  PROVE  FifoShape' /\ Queued("data") /\ Queued("done") /\ Queued("done")' /\ ~Queued("data")'
<1>1. TypeOK /\ FifoShape /\ rxFifo # <<>> /\ rxFifo' = Tail(rxFifo) /\ rxFifo[1].kind = "data"
      /\ configured' = configured
  BY FifoTail DEF IInv, PumpData, usbVars
<1>2. /\ Len(rxFifo) \in Nat \ {0} /\ DOMAIN rxFifo = 1 .. Len(rxFifo)
      /\ DOMAIN rxFifo' = 1 .. Len(rxFifo) - 1 /\ Len(rxFifo') = Len(rxFifo) - 1
      /\ \A i \in 1 .. Len(rxFifo) - 1 : rxFifo'[i] = rxFifo[i + 1]
  BY <1>1, FifoTail, FifoDomain, LenProperties
<1>3. Len(rxFifo) >= 2 /\ rxFifo[2].kind = "done" /\ rxFifo'[1] = rxFifo[2]
  BY <1>1, <1>2 DEF FifoShape
<1>4. \A i \in 1 .. Len(rxFifo) - 1 : rxFifo'[i].kind # "data"
  BY <1>1, <1>2 DEF FifoShape
<1>5. FifoShape'
  BY <1>1, <1>2, <1>4 DEF FifoShape
<1>6. Queued("data") /\ Queued("done")
  BY <1>1, <1>2, <1>3 DEF Queued
<1>7. 1 \in DOMAIN rxFifo' /\ rxFifo'[1].kind = "done"
  BY <1>1, <1>2, <1>3
<1>8. Queued("done")' /\ ~Queued("data")'
  BY <1>2, <1>4, <1>7 DEF Queued
<1>9. QED
  BY <1>5, <1>6, <1>8

(* A completion is read when its data have been. *)
LEMMA PumpDoneFifo ==
  ASSUME IInv, PumpDone
  PROVE  FifoShape' /\ configured /\ Queued("done") /\ ~Queued("data") /\ ~Queued("done")' /\ ~Queued("data")'
<1>1. TypeOK /\ FifoShape /\ rxFifo # <<>> /\ rxFifo' = Tail(rxFifo) /\ rxFifo[1].kind = "done"
      /\ configured' = configured
  BY FifoTail DEF IInv, PumpDone
<1>2. /\ Len(rxFifo) \in Nat \ {0} /\ DOMAIN rxFifo = 1 .. Len(rxFifo)
      /\ DOMAIN rxFifo' = 1 .. Len(rxFifo) - 1 /\ Len(rxFifo') = Len(rxFifo) - 1
      /\ \A i \in 1 .. Len(rxFifo) - 1 : rxFifo'[i] = rxFifo[i + 1]
  BY <1>1, FifoTail, FifoDomain, LenProperties
<1>3. /\ \A i \in 1 .. Len(rxFifo) : rxFifo[i].kind # "data"
      /\ \A i \in 2 .. Len(rxFifo) : rxFifo[i].kind # "done"
  BY <1>1, <1>2 DEF FifoShape
<1>4. FifoShape'
  BY <1>1, <1>2, <1>3 DEF FifoShape
<1>5. configured
  BY <1>1, <1>2 DEF FifoShape
<1>6. Queued("done") /\ ~Queued("data") /\ ~Queued("done")' /\ ~Queued("data")'
  BY <1>1, <1>2, <1>3 DEF Queued
<1>7. QED
  BY <1>4, <1>5, <1>6

(* A SETUP packet is read when it is alone. *)
LEMMA PumpSetupFifo ==
  ASSUME IInv, PumpSetup
  PROVE  FifoShape' /\ ~Queued("done") /\ ~Queued("data") /\ ~Queued("done")' /\ ~Queued("data")'
<1>1. TypeOK /\ FifoShape /\ rxFifo # <<>> /\ rxFifo' = Tail(rxFifo) /\ rxFifo[1].kind = "setup"
  BY FifoTail DEF IInv, PumpSetup
<1>2. /\ Len(rxFifo) = 1 /\ DOMAIN rxFifo = 1 .. Len(rxFifo)
      /\ DOMAIN rxFifo' = 1 .. Len(rxFifo) - 1
  BY <1>1, FifoTail, FifoDomain, LenProperties DEF FifoShape
<1>3. QED
  BY <1>1, <1>2 DEF FifoShape, Queued

(* The endpoint accepts only with an empty FIFO. *)
LEMMA HostOutFifo ==
  ASSUME IInv, HostOut
  PROVE  FifoShape' /\ Queued("done")' /\ Queued("data")'
<1>1. /\ TypeOK /\ FifoShape /\ ~Queued("setup") /\ ~Queued("done")
      /\ configured /\ configured' = configured
      /\ sent + 1 \in 1 .. MaxReports
      /\ rxFifo' = rxFifo \o <<Data(sent + 1), Done>>
  BY DEF IInv, HostOut, Accepting, AcceptingIsBusy, usbVars, TypeOK
<1>2. Len(rxFifo) = 0
  <2>1. \A i \in 1 .. Len(rxFifo) : rxFifo[i].kind = "data"
    BY <1>1, FifoDomain DEF Queued
  <2>2. ~(Len(rxFifo) >= 1)
    BY <1>1, <2>1, FifoDomain DEF FifoShape
  <2>3. QED
    BY <1>1, <2>2, FifoDomain
<1>3. /\ rxFifo' \in Seq(Entry) /\ Len(rxFifo') = 2
      /\ rxFifo'[1] = Data(sent + 1) /\ rxFifo'[2] = Done
  BY <1>1, <1>2, FifoReceive
<1>4. DOMAIN rxFifo' = 1 .. 2
  BY <1>3, LenProperties
<1>5. FifoShape'
  BY <1>1, <1>3, <1>4 DEF FifoShape, Data, Done
<1>6. Queued("done")' /\ Queued("data")'
  BY <1>3, <1>4 DEF Queued, Data, Done
<1>7. QED
  BY <1>5, <1>6

(* A SETUP packet goes behind what the FIFO holds. *)
LEMMA SetConfigurationFifo ==
  ASSUME IInv, NEW c \in {0, 1}, SetConfiguration(c)
  PROVE  /\ FifoShape'
         /\ Queued("done")' <=> Queued("done")
         /\ Queued("data")' <=> Queued("data")
<1>1. /\ TypeOK /\ FifoShape /\ ~Queued("setup") /\ configured' = configured
      /\ rxFifo' = Append(rxFifo, Setup(c))
  BY DEF IInv, SetConfiguration, usbVars
<1>2. /\ Len(rxFifo) \in Nat /\ DOMAIN rxFifo = 1 .. Len(rxFifo)
      /\ Len(rxFifo') = Len(rxFifo) + 1 /\ DOMAIN rxFifo' = 1 .. Len(rxFifo) + 1
      /\ \A i \in 1 .. Len(rxFifo) : rxFifo'[i] = rxFifo[i]
      /\ rxFifo'[Len(rxFifo) + 1] = Setup(c)
  BY <1>1, FifoSetup, FifoDomain, LenProperties
<1>3. Setup(c).kind = "setup" /\ Setup(c).arg = c
  BY DEF Setup
<1>4. \A i \in 1 .. Len(rxFifo) : rxFifo[i].kind # "setup"
  BY <1>1, <1>2 DEF Queued
<1>5. FifoShape'
  BY <1>1, <1>2, <1>3, <1>4 DEF FifoShape
<1>6. /\ Queued("done")' <=> Queued("done")
      /\ Queued("data")' <=> Queued("data")
  BY <1>2, <1>3 DEF Queued
<1>7. QED
  BY <1>5, <1>6

(* Every step keeps the shape of the FIFO. *)
LEMMA NextFifoShape == IInv /\ [Next]_vars => FifoShape'
<1> SUFFICES ASSUME IInv, [Next]_vars PROVE FifoShape'
  OBVIOUS
<1>1. CASE UNCHANGED <<rxFifo, configured>>
  BY <1>1 DEF IInv, FifoShape
<1>2. CASE PumpData
  BY <1>2, PumpDataFifo
<1>3. CASE PumpDone
  BY <1>3, PumpDoneFifo
<1>4. CASE PumpSetup
  BY <1>4, PumpSetupFifo
<1>5. CASE HostOut
  BY <1>5, HostOutFifo
<1>6. ASSUME NEW c \in {0, 1}, SetConfiguration(c) PROVE FifoShape'
  BY <1>6, SetConfigurationFifo
<1>7. CASE BusReset
  BY <1>7 DEF BusReset, FifoShape
<1>8. QED
  BY <1>1, <1>2, <1>3, <1>4, <1>5, <1>6, <1>7
     DEF Next, Main, Pump, Host, Poll, Notify, Prepare, Start, Take, Eval, Send,
         PumpCount, PumpIn, UseNull, HostIn, vars, usbVars, outVars
-----------------------------------------------------------------------------
(* The conjuncts about the reception. *)

(* The actions that leave the reception, the queue and the FIFO alone. *)
LEMMA ReceptionUntouched ==
  ASSUME Poll \/ Notify \/ Eval \/ Send \/ PumpCount \/ PumpIn \/ UseNull \/ HostIn
         \/ UNCHANGED vars
  PROVE  UNCHANGED <<configured, receiving, nak, pktcnt, rxFifo, queue>>
  BY DEF Poll, Notify, Eval, Send, PumpCount, PumpIn, UseNull, HostIn, vars, usbVars, outVars

(* A queue is as long as its length says, and the FIFO conditions carry over. *)
LEMMA RoomType ==
  ASSUME TypeOK
  PROVE  Len(queue) \in Nat /\ (HasRoom <=> Len(queue) <= ReportSize)
<1>1. Len(queue) \in Nat
  BY LenProperties DEF TypeOK
<1>2. QED
  BY <1>1 DEF HasRoom, QueueSize

(* Every step keeps the busy bit true to the hardware. *)
LEMMA NextAcceptingIsBusy == IInv /\ [Next]_vars => AcceptingIsBusy'
<1> SUFFICES ASSUME IInv, [Next]_vars PROVE AcceptingIsBusy'
  OBVIOUS
<1>0. TypeOK /\ AcceptingIsBusy /\ NotifyWindow
  BY DEF IInv
<1> USE <1>0 DEF AcceptingIsBusy, BusyIsTrue
<1>1. CASE UNCHANGED <<configured, receiving, nak, pktcnt, rxFifo>>
  BY <1>1 DEF Queued
<1>2. CASE Prepare
  BY <1>2 DEF Prepare, usbVars, Queued
<1>3. CASE Start
  <2>1. /\ receiving' /\ nak' = (nak /\ receiving) /\ configured' = configured
        /\ pktcnt' = pktcnt /\ (Queued("done")' <=> Queued("done"))
    BY <1>3 DEF Start, StartReceive, Queued
  <2>2. configured /\ ~receiving => pktcnt = 1
    BY <1>3 DEF Start, NotifyWindow
  <2>3. QED
    BY <2>1, <2>2 DEF TypeOK
<1>4. CASE PumpData
  <2>1. Queued("done") /\ Queued("done")'
    BY <1>4, PumpDataFifo
  <2>2. UNCHANGED <<receiving, nak>>
    BY <1>4 DEF PumpData, usbVars
  <2>3. QED
    BY <2>1, <2>2
<1>5. CASE PumpDone
  <2>1. Queued("done") /\ ~Queued("done")'
    BY <1>5, PumpDoneFifo
  <2>2. ep1out_cb
    BY <1>5 DEF PumpDone
  <2>3. QED
    BY <2>1, <2>2 DEF ep1out_cb
<1>6. CASE PumpSetup
  <2>1. ~Queued("done") /\ ~Queued("done")'
    BY <1>6, PumpSetupFifo
  <2>2. CASE Deconfigure
    BY <2>1, <2>2 DEF Deconfigure
  <2>3. CASE Configure
    BY <2>1, <2>3 DEF Configure, StartReceive
  <2>4. QED
    BY <1>6, <2>2, <2>3 DEF PumpSetup, usb_event_cb
<1>7. CASE HostOut
  <2>1. Queued("done")' /\ nak' /\ receiving' = receiving /\ ~nak
    BY <1>7, HostOutFifo DEF HostOut, Accepting, usbVars
  <2>2. QED
    BY <2>1
<1>8. ASSUME NEW c \in {0, 1}, SetConfiguration(c) PROVE AcceptingIsBusy'
  <2>1. UNCHANGED <<configured, receiving, nak, pktcnt>>
    BY <1>8 DEF SetConfiguration, usbVars
  <2>2. Queued("done")' <=> Queued("done")
    BY <1>8, SetConfigurationFifo
  <2>3. QED
    BY <2>1, <2>2
<1>9. CASE BusReset
  <2>1. ~receiving' /\ nak' /\ rxFifo' = <<>>
    BY <1>9 DEF BusReset
  <2>2. QED
    BY <2>1 DEF Queued
<1>10. CASE Take
  BY <1>1, <1>10 DEF Take, usbVars, outVars
<1>11. QED
  BY <1>1, <1>2, <1>3, <1>4, <1>5, <1>6, <1>7, <1>8, <1>9, <1>10, ReceptionUntouched
     DEF Next, Main, Pump, Host

(* Every step keeps room in the queue for the report that may be on its way. *)
LEMMA NextRoomReserved == IInv /\ [Next]_vars => RoomReserved'
<1> SUFFICES ASSUME IInv, [Next]_vars PROVE RoomReserved'
  OBVIOUS
<1>0. /\ TypeOK /\ AcceptingIsBusy /\ NotifyWindow /\ RoomReserved
      /\ Len(queue) \in Nat
  BY RoomType DEF IInv
<1> USE <1>0 DEF RoomReserved, HasRoom
<1>1. CASE UNCHANGED <<nak, rxFifo, queue>>
  BY <1>1 DEF Queued
<1>2. CASE Prepare
  BY <1>1, <1>2 DEF Prepare
<1>3. CASE Start
  BY <1>3 DEF Start, StartReceive, NotifyWindow, Queued, TypeOK
<1>4. CASE Take
  <2>1. CASE queue = <<>>
    BY <1>1, <1>4, <2>1 DEF Take, outVars
  <2>2. CASE queue # <<>>
    <3>1. queue' = Tail(queue) /\ UNCHANGED <<nak, rxFifo>>
      BY <1>4, <2>2 DEF Take, outVars
    <3>2. Len(queue') = Len(queue) - 1
      BY <2>2, <3>1, QueueTail
    <3>3. QED
      BY <3>1, <3>2 DEF Queued, QueueSize
  <2>3. QED
    BY <2>1, <2>2
<1>5. CASE PumpData
  <2>1. Queued("data") /\ Queued("done") /\ ~Queued("data")'
    BY <1>5, PumpDataFifo
  <2>2. nak /\ nak' = nak
    BY <1>5, <2>1 DEF PumpData, AcceptingIsBusy
  <2>3. Head(rxFifo).arg \in 0 .. MaxReports
    BY <1>5, FifoTail DEF PumpData, IInv, FifoShape, TypeOK
  <2>4. Len(queue') = Len(queue) + ReportSize
    BY <1>5, <2>3, QueueConcat DEF PumpData
  <2>5. QED
    BY <2>1, <2>2, <2>4
<1>6. CASE PumpDone
  <2>1. Queued("done") /\ ~Queued("data")'
    BY <1>6, PumpDoneFifo
  <2>2. ep1out_cb /\ queue' = queue
    BY <1>6 DEF PumpDone
  <2>3. QED
    BY <2>1, <2>2 DEF ep1out_cb, AcceptingIsBusy
<1>7. CASE PumpSetup
  <2>1. ~Queued("data")'
    BY <1>7, PumpSetupFifo
  <2>2. CASE Deconfigure
    BY <2>1, <2>2 DEF Deconfigure
  <2>3. CASE Configure
    <3>1. Len(queue') = 0
      BY <2>3, EmptySeq DEF Configure
    <3>2. QED
      BY <3>1 DEF QueueSize
  <2>4. QED
    BY <1>7, <2>2, <2>3 DEF PumpSetup, usb_event_cb
<1>8. CASE HostOut
  BY <1>8 DEF HostOut, Accepting
<1>9. ASSUME NEW c \in {0, 1}, SetConfiguration(c) PROVE RoomReserved'
  <2>1. UNCHANGED <<nak, queue>>
    BY <1>9 DEF SetConfiguration
  <2>2. Queued("data")' <=> Queued("data")
    BY <1>9, SetConfigurationFifo
  <2>3. QED
    BY <2>1, <2>2
<1>10. CASE BusReset
  <2>1. nak' /\ rxFifo' = <<>> /\ queue' = queue
    BY <1>10 DEF BusReset
  <2>2. QED
    BY <2>1 DEF Queued
<1>11. QED
  BY <1>1, <1>2, <1>3, <1>4, <1>5, <1>6, <1>7, <1>8, <1>9, <1>10, ReceptionUntouched
     DEF Next, Main, Pump, Host

(* Nothing takes the reader's room or its prepared reception from it.         *)
LEMMA NextNotifyWindow == IInv /\ [Next]_vars => NotifyWindow'
<1> SUFFICES ASSUME IInv, [Next]_vars PROVE NotifyWindow'
  OBVIOUS
<1>0. /\ TypeOK /\ AcceptingIsBusy /\ NotifyWindow
  BY DEF IInv
<1> USE <1>0 DEF NotifyWindow
<1>1. CASE Poll
  BY <1>1 DEF Poll
<1>2. CASE Notify
  BY <1>2 DEF Notify, HasRoom
<1>3. CASE Prepare
  BY <1>3 DEF Prepare, HasRoom
<1>4. CASE Start \/ Take \/ Eval \/ Send
  BY <1>4 DEF Start, Take, Eval, Send
<1>5. CASE Pump \/ UseNull
  BY <1>5 DEF Pump, PumpData, PumpCount, PumpDone, PumpSetup, PumpIn, UseNull, PumpMayRun,
              mainVars, usb_event_cb, Deconfigure, Configure, ReadReturns
<1>6. CASE HostOut
  BY <1>6 DEF HostOut, mainVars, usbVars, Accepting, AcceptingIsBusy, BusyIsTrue, HasRoom
<1>7. CASE HostIn
  BY <1>7 DEF HostIn, mainVars, outVars, HasRoom
<1>8. ASSUME NEW c \in {0, 1}, SetConfiguration(c) PROVE NotifyWindow'
  BY <1>8 DEF SetConfiguration, mainVars, usbVars, HasRoom
<1>9. CASE BusReset
  BY <1>9 DEF BusReset, mainVars, HasRoom
<1>10. CASE UNCHANGED vars
  BY <1>10 DEF vars, mainVars, usbVars, outVars, HasRoom
<1>11. QED
  BY <1>1, <1>2, <1>3, <1>4, <1>5, <1>6, <1>7, <1>8, <1>9, <1>10 DEF Next, Main, Host
-----------------------------------------------------------------------------
(* The conjuncts about the reader. *)

(* A reader that waits has read nothing, and has armed the reception.         *)
LEMMA NextReaderState == IInv /\ [Next]_vars => ReaderState'
<1> SUFFICES ASSUME IInv, [Next]_vars PROVE ReaderState'
  OBVIOUS
<1>0. TypeOK /\ ReaderState /\ WholeStream /\ r \in 0 .. ReportSize
  BY DEF IInv, TypeOK
<1> USE <1>0 DEF ReaderState
<1>1. CASE Poll
  BY <1>1 DEF Poll, usbVars
<1>2. CASE Notify
  <2>1. queue = <<>> => HasRoom
    BY EmptySeq DEF HasRoom, QueueSize
  <2>2. QED
    BY <1>2, <2>1 DEF Notify, usbVars
<1>3. CASE Prepare
  BY <1>3 DEF Prepare
<1>4. CASE Start
  BY <1>4 DEF Start, StartReceive
<1>5. CASE Take
  <2>1. CASE queue = <<>>
    <3>1. r = 0
      BY <1>5, <2>1 DEF Take, WholeStream
    <3>2. QED
      BY <1>5, <2>1, <3>1 DEF Take, usbVars
  <2>2. CASE queue # <<>>
    BY <1>5, <2>2 DEF Take
  <2>3. QED
    BY <2>1, <2>2
<1>6. CASE Eval
  BY <1>6 DEF Eval
<1>7. CASE Send
  BY <1>7 DEF Send
<1>8. CASE PumpData
  <2>1. Head(rxFifo).arg \in 0 .. MaxReports
    BY <1>8, FifoTail DEF PumpData, IInv, FifoShape, TypeOK
  <2>2. Len(queue') # 0
    BY <1>8, <2>1, QueueConcat DEF PumpData
  <2>3. queue' # <<>>
    BY <2>2, EmptySeq
  <2>4. QED
    BY <1>8, <2>3 DEF PumpData, PumpMayRun
<1>9. CASE PumpCount
  BY <1>9 DEF PumpCount, mainVars, usbVars
<1>10. CASE PumpDone
  <2>1. queue = <<>> => HasRoom
    BY EmptySeq DEF HasRoom, QueueSize
  <2>2. QED
    BY <1>10, <2>1 DEF PumpDone, PumpMayRun, mainVars, ep1out_cb
<1>11. CASE PumpSetup
  <2>1. CASE Deconfigure
    BY <1>11, <2>1 DEF PumpSetup, PumpMayRun, Deconfigure, mainVars
  <2>2. CASE Configure
    BY <1>11, <2>2 DEF PumpSetup, PumpMayRun, Configure, StartReceive, ReadReturns, HasRead
  <2>3. QED
    BY <1>11, <2>1, <2>2 DEF PumpSetup, usb_event_cb
<1>12. CASE PumpIn
  BY <1>12 DEF PumpIn, mainVars, usbVars
<1>13. CASE UseNull
  BY <1>13 DEF UseNull, PumpMayRun
<1>14. CASE HostOut
  BY <1>14 DEF HostOut, mainVars, usbVars
<1>15. CASE HostIn
  BY <1>15 DEF HostIn, mainVars
<1>16. ASSUME NEW c \in {0, 1}, SetConfiguration(c) PROVE ReaderState'
  BY <1>16 DEF SetConfiguration, mainVars, usbVars
<1>17. CASE BusReset
  BY <1>17 DEF BusReset, mainVars
<1>18. CASE UNCHANGED vars
  BY <1>18 DEF vars, mainVars, usbVars
<1>19. QED
  BY <1>1, <1>2, <1>3, <1>4, <1>5, <1>6, <1>7, <1>8, <1>9, <1>10, <1>11, <1>12,
     <1>13, <1>14, <1>15, <1>16, <1>17, <1>18 DEF Next, Main, Pump, Host

(* The unit the reader takes is the next one of the report it has begun.      *)
LEMMA TakenUnit ==
  ASSUME IInv, Take, queue # <<>>
  PROVE  /\ r \in 0 .. ReportSize - 1
         /\ queue[1] = [id |-> queue[1].id, k |-> r + 1]
         /\ queue[1].id \in 1 .. MaxReports
         /\ \A j \in 1 .. r : req[j] = [id |-> queue[1].id, k |-> j]
<1>1. r \in 0 .. ReportSize - 1
  BY DEF IInv, TypeOK, ReaderState, Take
<1>2. /\ Len(queue) \in Nat \ {0} /\ DOMAIN queue = 1 .. Len(queue)
      /\ queue[1] \in Unit
  BY QueueTail, LenProperties DEF IInv, TypeOK
<1>3. queue[1].id \in 1 .. MaxReports
  BY <1>2 DEF IInv, WholeStream
<1>4. CASE r = 0
  <2>1. queue[1].k = 1
    BY <1>4 DEF IInv, WholeStream
  <2>2. QED
    BY <1>1, <1>2, <1>3, <1>4, <2>1 DEF Unit
<1>5. CASE r > 0
  <2>1. /\ Follows(req[r], queue[1])
        /\ \A j \in 1 .. r : req[j] = [id |-> req[r].id, k |-> j]
    BY <1>1, <1>5 DEF IInv, WholeStream
  <2>2. req[r].k = r
    <3>1. r \in 1 .. r
      BY <1>1, <1>5
    <3>2. req[r] = [id |-> req[r].id, k |-> r]
      BY <2>1, <3>1
    <3>3. QED
      BY <3>2
  <2>3. queue[1] = [id |-> req[r].id, k |-> r + 1]
    BY <1>1, <2>1, <2>2 DEF Follows
  <2>4. queue[1].id = req[r].id
    BY <2>3
  <2>5. QED
    BY <1>1, <1>3, <2>1, <2>3, <2>4
<1>6. QED
  BY <1>1, <1>4, <1>5

(* Taking a unit leaves a stream of whole reports. *)
LEMMA TakeStream ==
  ASSUME IInv, Take, queue # <<>>
  PROVE  WholeStream'
<1>1. /\ r \in 0 .. ReportSize - 1 /\ r' = r + 1
      /\ queue[1] = [id |-> queue[1].id, k |-> r + 1]
      /\ queue[1].id \in 1 .. MaxReports
      /\ \A j \in 1 .. r : req[j] = [id |-> queue[1].id, k |-> j]
  BY TakenUnit DEF Take
<1>2. /\ Len(queue) \in Nat \ {0} /\ DOMAIN queue = 1 .. Len(queue)
      /\ Head(queue) = queue[1]
      /\ queue' = Tail(queue) /\ queue' \in Seq(Unit)
      /\ Len(queue') = Len(queue) - 1
      /\ \A i \in 1 .. Len(queue') : queue'[i] = queue[i + 1]
  BY QueueTail, LenProperties DEF Take, IInv, TypeOK
<1>3. DOMAIN queue' = 1 .. Len(queue) - 1 /\ (queue' # <<>> => Len(queue) >= 2)
  BY <1>2, LenProperties, EmptySeq
<1>4. /\ \A i \in 1 .. Len(queue) : queue[i].id \in 1 .. MaxReports
      /\ \A i \in 1 .. Len(queue) - 1 : Follows(queue[i], queue[i + 1])
      /\ queue[Len(queue)].k = ReportSize
  BY <1>2 DEF IInv, WholeStream
<1>5. \A j \in 1 .. r' : req'[j] = [id |-> queue[1].id, k |-> j]
  <2>1. req \in Packet /\ req' = [req EXCEPT ![r + 1] = queue[1]]
    BY <1>2 DEF Take, IInv, TypeOK
  <2>2. \A j \in 1 .. ReportSize : req'[j] = IF j = r + 1 THEN queue[1] ELSE req[j]
    BY <2>1 DEF Packet
  <2>3. QED
    BY <1>1, <2>2
<1>6. \A i \in DOMAIN queue' : queue'[i].id \in 1 .. MaxReports
  BY <1>2, <1>3, <1>4
<1>7. \A i \in 1 .. Len(queue') - 1 : Follows(queue'[i], queue'[i + 1])
  BY <1>2, <1>4
<1>8. queue' # <<>> => queue'[Len(queue')].k = ReportSize
  BY <1>2, <1>3, <1>4
<1>9. queue' # <<>> => queue'[1] = queue[2] /\ Follows(queue[1], queue[2])
  BY <1>2, <1>3, <1>4
<1>10. r' \in {0, ReportSize} /\ queue' # <<>> => queue'[1].k = 1
  <2> SUFFICES ASSUME r' \in {0, ReportSize}, queue' # <<>> PROVE queue'[1].k = 1
    OBVIOUS
  <2>1. queue[1].k = ReportSize
    BY <1>1
  <2>2. queue[2] = [id |-> queue[2].id, k |-> 1]
    BY <1>9, <2>1 DEF Follows
  <2>3. QED
    BY <1>9, <2>2
<1>11. req'[r'] = [id |-> queue[1].id, k |-> r']
  BY <1>1, <1>5
<1>12. r' > 0 => /\ req'[r'].id \in 1 .. MaxReports
                 /\ \A j \in 1 .. r' : req'[j] = [id |-> req'[r'].id, k |-> j]
  BY <1>1, <1>5, <1>11
<1>13. r' \in 1 .. ReportSize - 1 => queue' # <<>> /\ Follows(req'[r'], queue'[1])
  <2> SUFFICES ASSUME r' \in 1 .. ReportSize - 1
               PROVE  queue' # <<>> /\ Follows(req'[r'], queue'[1])
    OBVIOUS
  <2>1. queue[1].k # ReportSize
    BY <1>1
  <2>2. Len(queue) # 1
    BY <1>4, <2>1
  <2>3. queue' # <<>>
    <3>1. Len(queue') # 0
      BY <1>2, <2>2
    <3>2. QED
      BY <3>1, EmptySeq
  <2>4. req'[r'] = queue[1]
    BY <1>1, <1>11
  <2>5. QED
    BY <1>9, <2>3, <2>4
<1>14. QED
  BY <1>6, <1>7, <1>8, <1>10, <1>12, <1>13 DEF WholeStream

(* Copying a report behind whole reports leaves whole reports. *)
LEMMA PumpDataStream ==
  ASSUME IInv, PumpData
  PROVE  WholeStream'
<1> DEFINE id == Head(rxFifo).arg
           n  == Len(queue)
<1>1. id \in 1 .. MaxReports /\ id \in 0 .. MaxReports
  BY FifoTail, FifoDomain DEF PumpData, IInv, FifoShape, TypeOK
<1>2. r = 0 /\ r' = r
  BY DEF PumpData, PumpMayRun, IInv, ReaderState
<1>3. /\ n \in Nat
      /\ queue' \in Seq(Unit)
      /\ Len(queue') = n + ReportSize
      /\ \A i \in 1 .. n : queue'[i] = queue[i]
      /\ \A i \in n + 1 .. n + ReportSize : queue'[i] = [id |-> id, k |-> i - n]
  BY <1>1, QueueConcat DEF PumpData, IInv
<1> HIDE DEF id
<1>4. DOMAIN queue' = 1 .. n + ReportSize /\ DOMAIN queue = 1 .. n
      /\ (n # 0 => queue # <<>>)
  BY <1>3, LenProperties, EmptySeq DEF IInv, TypeOK
<1>5. /\ \A i \in 1 .. n : queue[i].id \in 1 .. MaxReports
      /\ \A i \in 1 .. n - 1 : Follows(queue[i], queue[i + 1])
      /\ n # 0 => queue[n].k = ReportSize /\ queue[1].k = 1
  BY <1>2, <1>4 DEF IInv, WholeStream
<1> HIDE DEF n
<1>6. \A i \in n + 1 .. n + ReportSize : queue'[i].id = id /\ queue'[i].k = i - n
  <2> SUFFICES ASSUME NEW i \in n + 1 .. n + ReportSize
               PROVE  queue'[i].id = id /\ queue'[i].k = i - n
    OBVIOUS
  <2>1. queue'[i] = [id |-> id, k |-> i - n]
    BY <1>3
  <2>2. QED
    BY <2>1
<1>7. \A i \in DOMAIN queue' : queue'[i].id \in 1 .. MaxReports
  <2> SUFFICES ASSUME NEW i \in 1 .. n + ReportSize PROVE queue'[i].id \in 1 .. MaxReports
    BY <1>4
  <2>1. CASE i \in 1 .. n
    BY <1>3, <1>5, <2>1
  <2>2. CASE i \in n + 1 .. n + ReportSize
    BY <1>1, <1>6, <2>2
  <2>3. QED
    BY <1>3, <2>1, <2>2
<1>8. \A i \in 1 .. Len(queue') - 1 : Follows(queue'[i], queue'[i + 1])
  <2> SUFFICES ASSUME NEW i \in 1 .. n + ReportSize - 1
               PROVE  Follows(queue'[i], queue'[i + 1])
    <3>1. Len(queue') - 1 = n + ReportSize - 1
      BY <1>3
    <3>2. QED
      BY <3>1
  <2>1. CASE i \in 1 .. n - 1
    <3>1. queue'[i] = queue[i] /\ queue'[i + 1] = queue[i + 1]
      BY <1>3, <2>1
    <3>2. QED
      BY <1>5, <2>1, <3>1
  <2>2. CASE i = n
    <3>1. queue'[i].k = ReportSize /\ queue'[i + 1] = [id |-> id, k |-> 1]
      BY <1>3, <1>5, <2>2
    <3>2. queue'[i + 1].id = id
      BY <3>1
    <3>3. QED
      BY <3>1, <3>2 DEF Follows
  <2>3. CASE i \in n + 1 .. n + ReportSize - 1
    <3>1. /\ queue'[i].id = id /\ queue'[i].k = i - n
          /\ queue'[i + 1] = [id |-> id, k |-> i - n + 1]
      BY <1>3, <1>6, <2>3
    <3>2. i - n < ReportSize
      BY <1>3, <2>3
    <3>3. QED
      BY <3>1, <3>2 DEF Follows
  <2>4. QED
    BY <1>3, <2>1, <2>2, <2>3
<1>9. queue'[Len(queue')].k = ReportSize
  BY <1>3, <1>6
<1>10. queue'[1].k = 1
  <2>1. CASE n = 0
    BY <1>3, <1>6, <2>1
  <2>2. CASE n # 0
    BY <1>3, <1>5, <2>2
  <2>3. QED
    BY <2>1, <2>2
<1>11. ~(r' > 0) /\ r' \notin 1 .. ReportSize - 1
  BY <1>2
<1>12. QED
  BY <1>7, <1>8, <1>9, <1>10, <1>11 DEF WholeStream

(* Every step keeps what is read and queued a stream of whole reports.        *)
LEMMA NextWholeStream == IInv /\ [Next]_vars => WholeStream'
<1> SUFFICES ASSUME IInv, [Next]_vars PROVE WholeStream'
  OBVIOUS
<1>0. TypeOK /\ WholeStream /\ ReaderState
  BY DEF IInv
<1>1. CASE UNCHANGED <<queue, r, req>>
  BY <1>0, <1>1 DEF WholeStream
<1>2. CASE Take
  <2>1. CASE queue = <<>>
    BY <1>1, <1>2, <2>1 DEF Take
  <2>2. QED
    BY <1>2, <2>1, TakeStream
<1>3. CASE Eval
  <2>1. r = ReportSize /\ r' = 0 /\ UNCHANGED <<queue, req>>
    BY <1>0, <1>3 DEF Eval, ReaderState
  <2>2. QED
    BY <1>0, <2>1 DEF WholeStream
<1>4. CASE PumpData
  BY <1>4, PumpDataStream
<1>5. CASE PumpSetup
  <2>1. CASE Deconfigure
    BY <1>1, <2>1 DEF Deconfigure, mainVars
  <2>2. CASE Configure
    <3>1. queue' = <<>> /\ Len(queue') = 0 /\ DOMAIN queue' = {} /\ r' = r /\ r = 0
      BY <1>0, <1>5, <2>2, EmptySeq DEF Configure, PumpSetup, PumpMayRun, ReaderState
    <3>2. QED
      BY <3>1 DEF WholeStream
  <2>3. QED
    BY <1>5, <2>1, <2>2 DEF PumpSetup, usb_event_cb
<1>6. CASE UNCHANGED vars
  BY <1>1, <1>6 DEF vars, mainVars
<1>7. QED
  BY <1>1, <1>2, <1>3, <1>4, <1>5, <1>6
     DEF Next, Main, Pump, Host, Poll, Notify, Prepare, Start, Send, PumpCount, PumpDone,
         PumpIn, UseNull, HostOut, HostIn, SetConfiguration, BusReset, mainVars

-----------------------------------------------------------------------------
(* The invariants of the specification. *)

(* The firmware starts in the inductive invariant. *)
LEMMA InitIInv == Init => IInv
<1> SUFFICES ASSUME Init PROVE IInv
  OBVIOUS
<1>1. TypeOK
  BY InitType
<1>2. Len(queue) = 0 /\ DOMAIN queue = {} /\ DOMAIN rxFifo = {} /\ queue = <<>>
  BY EmptySeq DEF Init
<1>3. FifoShape /\ AcceptingIsBusy /\ NotifyWindow /\ ReaderState
  BY <1>2 DEF Init, FifoShape, AcceptingIsBusy, BusyIsTrue, Queued, NotifyWindow, ReaderState
<1>4. RoomReserved
  BY <1>2 DEF RoomReserved, HasRoom, QueueSize
<1>5. WholeStream
  BY <1>2 DEF Init, WholeStream
<1>6. QED
  BY <1>1, <1>3, <1>4, <1>5 DEF IInv

(* IInv holds in every reachable state of the firmware. *)
THEOREM Invariance == Spec => []IInv
<1>1. IInv /\ [Next]_vars => IInv'
  BY NextType, NextFifoShape, NextAcceptingIsBusy, NextRoomReserved, NextNotifyWindow,
     NextWholeStream, NextReaderState DEF IInv
<1>2. QED
  BY InitIInv, <1>1, PTL DEF Spec

(* Every variable keeps its type: the reader never writes outside of req_pkt, *)
(* whatever the report size and the resets (read_pkt, chIQReadTimeout).       *)
THEOREM TypeCorrect == Spec => []TypeOK
<1>1. IInv => TypeOK
  BY DEF IInv
<1>2. QED
  BY <1>1, Invariance, PTL

(* The queue always has room for the report the endpoint may accept, or has   *)
(* accepted: the pump, which does not look, never writes past the queue.      *)
THEOREM NoOverrun == Spec => []RoomReserved
<1>1. IInv => RoomReserved
  BY DEF IInv
<1>2. QED
  BY <1>1, Invariance, PTL

(* The driver's busy bit and the hardware agree on the OUT endpoint. *)
THEOREM BusyBitIsTrue == Spec => []BusyIsTrue
<1>1. IInv => BusyIsTrue
  BY DEF IInv, AcceptingIsBusy
<1>2. QED
  BY <1>1, Invariance, PTL

(* eval_pkt is only ever given one whole report, and the reader never blocks  *)
(* in the middle of one.                                                      *)
THEOREM NoTornReport == Spec => []WholeReports
<1>1. IInv => WholeReports
  <2> SUFFICES ASSUME IInv PROVE WholeReports
    OBVIOUS
  <2>1. mpc = "wait" => r = 0
    BY DEF IInv, ReaderState
  <2>2. ASSUME mpc = "eval" PROVE \E id \in 1 .. MaxReports : req = Units(id)
    <3>1. r = ReportSize /\ r > 0
      BY <2>2 DEF IInv, ReaderState
    <3>2. /\ req[r].id \in 1 .. MaxReports
          /\ \A j \in 1 .. ReportSize : req[j] = [id |-> req[r].id, k |-> j]
      BY <3>1 DEF IInv, WholeStream
    <3>3. req = Units(req[r].id)
      BY <3>2 DEF Units, IInv, TypeOK, Packet
    <3>4. QED
      BY <3>2, <3>3
  <2>3. QED
    BY <2>1, <2>2 DEF WholeReports
<1>2. QED
  BY <1>1, Invariance, PTL

(* A reader that waits with nothing in flight has an endpoint that accepts:   *)
(* the interrupt and the reader never both leave the re-arming to the other.  *)
THEOREM NoLostRearm == Spec => []NeverDeaf
<1>1. IInv => NeverDeaf
  <2> SUFFICES ASSUME IInv, mpc = "wait", configured, rxFifo = <<>> PROVE Accepting
    BY DEF NeverDeaf
  <2>1. receiving
    BY DEF IInv, ReaderState
  <2>2. ~Queued("done")
    BY DEF Queued
  <2>3. ~nak
    BY <2>1, <2>2 DEF IInv, AcceptingIsBusy, BusyIsTrue
  <2>4. QED
    BY <2>3 DEF Accepting, IInv, AcceptingIsBusy
<1>2. QED
  BY <1>1, Invariance, PTL

(* Only a bus reset takes the endpoint away from a thread that uses it after  *)
(* its check (usb_input_queue_inotify, usb_lld_pump): the pump, which serves  *)
(* a SET_CONFIGURATION, runs neither then nor between its own two halves.     *)
THEOREM OnlyResetsRace == Spec => []RaceNeedsReset
<1>1. Init => RaceNeedsReset
  BY DEF Init, RaceNeedsReset
<1>2. IInv /\ RaceNeedsReset /\ [Next]_vars => RaceNeedsReset'
  <2> SUFFICES ASSUME IInv, RaceNeedsReset, [Next]_vars PROVE RaceNeedsReset'
    OBVIOUS
  <2> USE DEF RaceNeedsReset
  <2>0. TypeOK /\ FifoShape
    BY DEF IInv
  <2>1. ASSUME UNCHANGED <<configured, resets, pump>>, mpc' = "prepare" => mpc = "prepare"
        PROVE  RaceNeedsReset'
    BY <2>1
  <2>2. CASE Notify
    BY <2>2 DEF Notify, usbVars, hostVars
  <2>3. CASE PumpData
    <3>1. rxFifo # <<>> /\ Head(rxFifo).kind = "data" /\ configured' = configured
          /\ mpc' # "prepare"
      BY <2>3 DEF PumpData, PumpMayRun, usbVars
    <3>2. configured
      BY <2>0, <3>1, FifoTail, FifoDomain DEF FifoShape
    <3> QED
      BY <3>1, <3>2
  <2>4. CASE PumpCount \/ PumpDone \/ PumpIn
    BY <2>4 DEF PumpCount, PumpDone, PumpIn, usbVars, mainVars, hostVars
  <2>5. CASE PumpSetup
    BY <2>5 DEF PumpSetup, PumpMayRun, usb_event_cb, Deconfigure, Configure, ReadReturns, mainVars
  <2>6. CASE BusReset
    <3>1. resets \in Nat /\ resets' = resets + 1
      BY <2>0, <2>6 DEF BusReset, TypeOK
    <3> QED
      BY <3>1
  <2>7. CASE Poll \/ Prepare \/ Start \/ Take \/ Eval \/ Send \/ UseNull
    BY <2>1, <2>7 DEF Poll, Prepare, Start, Take, Eval, Send, UseNull, usbVars, hostVars
  <2>8. ASSUME HostOut \/ HostIn \/ \E c \in {0, 1} : SetConfiguration(c)
        PROVE  RaceNeedsReset'
    BY <2>1, <2>8 DEF HostOut, HostIn, SetConfiguration, usbVars, mainVars
  <2>9. CASE UNCHANGED vars
    BY <2>1, <2>9 DEF vars, usbVars, mainVars, hostVars
  <2> QED
    BY <2>2, <2>3, <2>4, <2>5, <2>6, <2>7, <2>8, <2>9 DEF Next, Main, Pump, Host
<1> QED
  BY <1>1, <1>2, Invariance, PTL DEF Spec

-----------------------------------------------------------------------------
(* The reply's busy bit, when only a reset device is configured. *)

(* Reading an entry or flushing the FIFO brings no SETUP packet in. *)
LEMMA ReadEntries ==
  ASSUME IInv, rxFifo # <<>>, rxFifo' = Tail(rxFifo)
  PROVE  \A i \in DOMAIN rxFifo' : \E j \in DOMAIN rxFifo : rxFifo'[i] = rxFifo[j]
<1>1. /\ Len(rxFifo) \in Nat \ {0} /\ DOMAIN rxFifo = 1 .. Len(rxFifo)
      /\ DOMAIN rxFifo' = 1 .. Len(rxFifo) - 1
      /\ \A i \in 1 .. Len(rxFifo) - 1 : rxFifo'[i] = rxFifo[i + 1]
  BY FifoTail, FifoDomain, LenProperties DEF IInv
<1>2. \A i \in 1 .. Len(rxFifo) - 1 : i + 1 \in DOMAIN rxFifo
  BY <1>1
<1> QED
  BY <1>1, <1>2

(* A reply that is marked busy is a packet, never the empty FIFO. *)
LEMMA PacketIsReply == \A p \in Packet : p # <<>>
<1>1. 1 \in 1 .. ReportSize /\ DOMAIN <<>> = {}
  OBVIOUS
<1> QED
  BY <1>1 DEF Packet

(* Every step keeps the busy bit true to the reply it stands for. *)
LEMMA NextReplyState ==
  ASSUME IInv, ReplyState,
         \/ Main \/ Pump \/ UseNull \/ HostOut \/ HostIn \/ BusReset \/ UNCHANGED vars
         \/ ~configured /\ SetConfiguration(1)
  PROVE  ReplyState'
<1> USE DEF ReplyState, TransmitIsTrue
<1>0. TypeOK /\ FifoShape
  BY DEF IInv
<1>1. CASE UNCHANGED <<configured, transmitting, rxFifo, inFifo, txPending, txLeft>>
  BY <1>1
<1>2. CASE Send
  BY <1>2 DEF Send, outVars
<1>3. CASE PumpData
  <2>1. UNCHANGED <<configured, transmitting, inFifo, txPending, txLeft>>
        /\ rxFifo # <<>> /\ rxFifo' = Tail(rxFifo)
    BY <1>3 DEF PumpData, usbVars, inVars
  <2> QED
    BY <2>1, ReadEntries
<1>4. CASE PumpDone
  <2>1. UNCHANGED <<configured, transmitting, inFifo, txPending, txLeft>>
        /\ rxFifo # <<>> /\ rxFifo' = Tail(rxFifo)
    BY <1>4 DEF PumpDone, inVars
  <2> QED
    BY <2>1, ReadEntries
<1>5. CASE PumpSetup
  <2>1. /\ rxFifo # <<>> /\ Head(rxFifo) = rxFifo[1] /\ 1 \in DOMAIN rxFifo
        /\ rxFifo[1].kind = "setup" /\ rxFifo' = Tail(rxFifo) /\ Len(rxFifo) = 1
    BY <1>0, <1>5, FifoTail, FifoDomain DEF PumpSetup, FifoShape
  <2>2. ~configured /\ ~transmitting /\ rxFifo[1].arg = 1
    BY <2>1
  <2>3. Configure
    BY <1>5, <2>1, <2>2 DEF PumpSetup, usb_event_cb
  <2>4. DOMAIN rxFifo' = {}
    BY <1>0, <2>1, FifoTail, LenProperties
  <2> QED
    BY <2>2, <2>3, <2>4 DEF Configure
<1>6. CASE PumpIn
  <2>1. /\ UNCHANGED <<configured, transmitting, rxFifo>> /\ ans # <<>>
        /\ inFifo' = IF txLeft THEN ans ELSE inFifo
    BY <1>0, <1>6, PacketIsReply DEF PumpIn, TypeOK, usbVars, outVars
  <2> QED
    BY <2>1
<1>7. CASE HostOut
  <2>1. /\ UNCHANGED <<configured, transmitting, inFifo, txPending, txLeft>>
        /\ configured /\ sent + 1 \in 1 .. MaxReports
        /\ \A i \in DOMAIN rxFifo : rxFifo[i].kind # "setup"
        /\ rxFifo' = rxFifo \o <<Data(sent + 1), Done>>
    BY <1>0, <1>7 DEF HostOut, Accepting, usbVars, inVars, Queued, TypeOK
  <2>2. /\ DOMAIN rxFifo = 1 .. Len(rxFifo) /\ Len(rxFifo) \in Nat
        /\ DOMAIN rxFifo' = 1 .. Len(rxFifo) + 2
        /\ \A i \in 1 .. Len(rxFifo) : rxFifo'[i] = rxFifo[i]
        /\ rxFifo'[Len(rxFifo) + 1].kind # "setup" /\ rxFifo'[Len(rxFifo) + 2].kind # "setup"
    BY <1>0, <2>1, FifoReceive, FifoDomain, LenProperties DEF Data, Done
  <2>3. \A i \in DOMAIN rxFifo' : rxFifo'[i].kind # "setup"
    BY <2>1, <2>2
  <2> QED
    BY <2>1, <2>3
<1>8. CASE HostIn
  BY <1>8 DEF HostIn, outVars
<1>9. CASE ~configured /\ SetConfiguration(1)
  <2>1. /\ UNCHANGED <<configured, transmitting, inFifo, txPending, txLeft>>
        /\ ~configured /\ rxFifo' = Append(rxFifo, Setup(1)) /\ 1 \in {0, 1}
    BY <1>9 DEF SetConfiguration, usbVars, inVars
  <2>2. /\ DOMAIN rxFifo = 1 .. Len(rxFifo) /\ Len(rxFifo) \in Nat
        /\ DOMAIN rxFifo' = 1 .. Len(rxFifo) + 1
        /\ \A i \in 1 .. Len(rxFifo) : rxFifo'[i] = rxFifo[i]
        /\ rxFifo'[Len(rxFifo) + 1].arg = 1
    BY <1>0, <2>1, FifoSetup, FifoDomain, LenProperties DEF Setup
  <2>3. \A i \in DOMAIN rxFifo' : rxFifo'[i].kind = "setup" => rxFifo'[i].arg = 1
    BY <2>2
  <2> QED
    BY <2>1, <2>3
<1>10. CASE BusReset
  <2>1. ~configured' /\ ~transmitting' /\ DOMAIN rxFifo' = {}
    BY <1>10 DEF BusReset
  <2> QED
    BY <2>1
<1> QED
  BY <1>1, <1>2, <1>3, <1>4, <1>5, <1>6, <1>7, <1>8, <1>9, <1>10
     DEF Main, Pump, Poll, Notify, Prepare, Start, Take, Eval, PumpCount,
         UseNull, usbVars, outVars, inVars, vars

(* A busy IN endpoint has a reply that the pump will copy or the host can     *)
(* collect, as long as the host configures only after a bus reset (the run    *)
(* stale_busy shows what happens otherwise).                                  *)
THEOREM BusyReplyIsReal ==
  ASSUME ~Reconfigures
  PROVE  Spec => []TransmitIsTrue
<1>1. Init => ReplyState
  <2>1. Init => DOMAIN rxFifo = {}
    BY DEF Init
  <2> QED
    BY <2>1 DEF Init, ReplyState, TransmitIsTrue
<1>2. ReplyState => TransmitIsTrue
  BY DEF ReplyState
<1>3. IInv /\ ReplyState /\ [Next]_vars => ReplyState'
  <2>1. \A c \in {0, 1} : SetConfiguration(c) => ~configured /\ SetConfiguration(1)
    BY DEF SetConfiguration
  <2> QED
    BY <2>1, NextReplyState DEF Next, Host
<1> QED
  BY <1>1, <1>2, <1>3, Invariance, PTL DEF Spec
=============================================================================
