----------------------- MODULE UsbFirmware_refinement -----------------------
(***************************************************************************)
(* The order of reports and replies in UsbFirmware, and on top of it the   *)
(* refinement of LedDevice, for every report size and every bound.         *)
(* OrderInv is inductive relative to IInv.                                 *)
(***************************************************************************)
EXTENDS UsbFirmware_proofs

USE FirmwareAssumption

-----------------------------------------------------------------------------
(* Lemmas about the data. *)

(* What the order compares are numbers. *)
LEMMA Numbers ==
  ASSUME TypeOK
  PROVE  /\ r \in Nat /\ sent \in Nat /\ echoed \in Nat
         /\ shown[1].id \in Nat /\ ans[1].id \in Nat
         /\ r > 0 => req[r].id \in Nat /\ req[r].k \in Nat
         /\ Len(queue) \in Nat /\ DOMAIN queue = 1 .. Len(queue)
         /\ \A i \in 1 .. Len(queue) : /\ queue[i] \in Unit /\ queue[i].id \in Nat
                                       /\ queue[i].k \in Nat /\ queue[i].k <= ReportSize
         /\ inFifo # <<>> => inFifo[1].id \in Nat
<1>1. \A p \in Packet : \A k \in 1 .. ReportSize : p[k].id \in Nat /\ p[k].k \in Nat
  BY DEF Packet, Unit
<1>2. 1 \in 1 .. ReportSize /\ (r > 0 => r \in 1 .. ReportSize)
  BY DEF TypeOK
<1>3. shown[1].id \in Nat /\ ans[1].id \in Nat
  BY <1>1, <1>2 DEF TypeOK
<1>4. r > 0 => req[r].id \in Nat /\ req[r].k \in Nat
  BY <1>1, <1>2 DEF TypeOK
<1>5. inFifo # <<>> => inFifo[1].id \in Nat
  BY <1>1, <1>2 DEF TypeOK
<1>6. Len(queue) \in Nat /\ DOMAIN queue = 1 .. Len(queue)
      /\ \A i \in 1 .. Len(queue) : queue[i] \in Unit
  BY LenProperties, ElementOfSeq DEF TypeOK
<1>7. \A u \in Unit : u.id \in Nat /\ u.k \in Nat /\ u.k <= ReportSize
  BY DEF Unit
<1>8. r \in Nat /\ sent \in Nat /\ echoed \in Nat
  BY DEF TypeOK
<1>9. QED
  BY <1>3, <1>4, <1>5, <1>6, <1>7, <1>8

(* The pump runs between two reports, so the reader has read nothing. *)
LEMMA PumpBetweenReports ==
  ASSUME IInv, PumpMayRun
  PROVE  r = 0 /\ mpc # "send" /\ mpc # "eval"
  BY DEF IInv, ReaderState, PumpMayRun

-----------------------------------------------------------------------------
(* The order of the reports. *)

(* StreamOrder is kept when the reports are left alone and the FIFO gets no   *)
(* new data.                                                                  *)
LEMMA SameStream ==
  ASSUME IInv, StreamOrder, UNCHANGED <<shown, r, req, queue, sent>>,
         \A i \in DOMAIN rxFifo' : rxFifo'[i].kind = "data" =>
           \E j \in DOMAIN rxFifo : rxFifo'[i] = rxFifo[j]
  PROVE  StreamOrder'
<1>1. \A i \in DOMAIN rxFifo' : rxFifo'[i].kind = "data" =>
        /\ shown[1].id < rxFifo'[i].arg /\ rxFifo'[i].arg <= sent
        /\ r > 0 => req[r].id < rxFifo'[i].arg
        /\ \A j \in DOMAIN queue : queue[j].id < rxFifo'[i].arg
  BY DEF StreamOrder
<1>2. QED
  BY <1>1 DEF StreamOrder, Rises

(* Reading a unit moves it from the queue's end of the stream to the reader's.*)
LEMMA TakeOrder ==
  ASSUME IInv, StreamOrder, Take, queue # <<>>
  PROVE  StreamOrder'
<1>1. /\ TypeOK /\ r \in 0 .. ReportSize - 1 /\ r' = r + 1
      /\ UNCHANGED <<shown, sent, rxFifo>>
      /\ req' = [req EXCEPT ![r + 1] = Head(queue)]
  BY TakenUnit DEF Take, IInv, outVars, hostVars
<1>2. /\ queue' = Tail(queue) /\ Len(queue) \in Nat \ {0}
      /\ Len(queue') = Len(queue) - 1 /\ DOMAIN queue' = 1 .. Len(queue) - 1
      /\ DOMAIN queue = 1 .. Len(queue)
      /\ \A i \in 1 .. Len(queue) - 1 : queue'[i] = queue[i + 1]
      /\ Head(queue) = queue[1]
  BY <1>1, QueueTail, LenProperties, Numbers DEF Take
<1>3. req'[r'] = queue[1]
  BY <1>1, <1>2 DEF TypeOK, Packet
<1>4. shown[1].id < queue[1].id /\ queue[1].id <= sent
  BY <1>2 DEF StreamOrder
<1>5. \A i \in 1 .. Len(queue) - 1 : /\ shown[1].id < queue'[i].id /\ queue'[i].id <= sent
                                     /\ Rises(queue[1], queue'[i])
  <2> TAKE i \in 1 .. Len(queue) - 1
  <2>1. i + 1 \in DOMAIN queue /\ 1 \in DOMAIN queue /\ 1 < i + 1 /\ queue'[i] = queue[i + 1]
    BY <1>2
  <2> QED
    BY <2>1 DEF StreamOrder
<1>6. \A i, j \in DOMAIN queue' : i < j => Rises(queue'[i], queue'[j])
  <2> SUFFICES ASSUME NEW i \in DOMAIN queue', NEW j \in DOMAIN queue', i < j
               PROVE  Rises(queue'[i], queue'[j])
    OBVIOUS
  <2>1. /\ i + 1 \in DOMAIN queue /\ j + 1 \in DOMAIN queue /\ i + 1 < j + 1
        /\ queue'[i] = queue[i + 1] /\ queue'[j] = queue[j + 1]
    BY <1>2
  <2> QED
    BY <2>1 DEF StreamOrder
<1>7. \A i \in DOMAIN rxFifo : rxFifo[i].kind = "data" =>
        /\ queue[1].id < rxFifo[i].arg
        /\ \A j \in DOMAIN queue' : queue'[j].id < rxFifo[i].arg
  BY <1>2 DEF StreamOrder
<1> QED
  <2>1. shown[1].id <= sent
    BY DEF StreamOrder
  <2>2. \A i \in DOMAIN rxFifo : rxFifo[i].kind = "data" =>
          shown[1].id < rxFifo[i].arg /\ rxFifo[i].arg <= sent
    BY DEF StreamOrder
  <2>3. \A i \in DOMAIN queue' : Rises(req'[r'], queue'[i])
    BY <1>2, <1>3, <1>5
  <2>4. \A i, j \in DOMAIN queue' : i < j => Rises(queue[i], queue[j])'
    BY <1>6 DEF Rises
  <2>5. \A i \in DOMAIN queue' : Rises(req[r], queue[i])'
    BY <2>3 DEF Rises
  <2> QED
    BY <1>1, <1>2, <1>3, <1>4, <1>5, <1>7, <2>1, <2>2, <2>4, <2>5 DEF StreamOrder

(* The report that is evaluated comes before all that is left. *)
LEMMA EvalOrder ==
  ASSUME IInv, StreamOrder, Eval
  PROVE  StreamOrder' /\ shown'[1].id = req[r].id /\ shown[1].id < shown'[1].id
<1>1. /\ TypeOK /\ r = ReportSize /\ r > 0 /\ r' = 0 /\ shown' = req
      /\ UNCHANGED <<queue, sent, rxFifo, req>>
  BY DEF Eval, IInv, ReaderState, outVars, hostVars
<1>2. req[1].id = req[r].id /\ req[r].k = ReportSize
  <2>1. \A j \in 1 .. r : req[j] = [id |-> req[r].id, k |-> j]
    BY <1>1 DEF IInv, WholeStream
  <2>2. 1 \in 1 .. r /\ r \in 1 .. r
    BY <1>1
  <2>3. req[1] = [id |-> req[r].id, k |-> 1] /\ req[r] = [id |-> req[r].id, k |-> r]
    BY <2>1, <2>2
  <2> QED
    BY <1>1, <2>3
<1>3. \A i \in DOMAIN queue : req[r].id < queue[i].id
  <2> TAKE i \in DOMAIN queue
  <2>1. Rises(req[r], queue[i])
    BY <1>1 DEF StreamOrder
  <2> QED
    BY <1>1, <1>2, <2>1, Numbers DEF Rises
<1>4. shown[1].id < req[r].id /\ req[r].id <= sent
  BY <1>1 DEF StreamOrder
<1> QED
  BY <1>1, <1>2, <1>3, <1>4 DEF StreamOrder, Rises

(* A report copied from the FIFO goes behind the queue, unit after unit. *)
LEMMA PumpDataOrder ==
  ASSUME IInv, StreamOrder, PumpData
  PROVE  StreamOrder'
<1> DEFINE id == Head(rxFifo).arg
           n  == Len(queue)
<1>1. /\ TypeOK /\ r = 0 /\ r' = 0 /\ UNCHANGED <<shown, sent>>
      /\ rxFifo # <<>> /\ rxFifo[1].kind = "data" /\ 1 \in DOMAIN rxFifo /\ id = rxFifo[1].arg
      /\ id \in 1 .. MaxReports /\ id \in 0 .. MaxReports
  BY PumpBetweenReports, FifoTail, FifoDomain DEF PumpData, IInv, FifoShape, TypeOK, hostVars
<1>2. /\ n \in Nat /\ DOMAIN queue = 1 .. n
      /\ queue' \in Seq(Unit) /\ Len(queue') = n + ReportSize
      /\ \A i \in 1 .. n : queue'[i] = queue[i]
      /\ \A i \in n + 1 .. n + ReportSize : queue'[i] = [id |-> id, k |-> i - n]
  BY <1>1, QueueConcat, Numbers DEF PumpData
<1>3. DOMAIN queue' = 1 .. n + ReportSize
  BY <1>2, LenProperties
<1>4. /\ shown[1].id < id /\ id <= sent /\ shown[1].id <= sent
      /\ \A j \in 1 .. n : queue[j].id < id
  BY <1>1, <1>2 DEF StreamOrder
<1>5. ~Queued("data")'
  BY PumpDataFifo
<1> HIDE DEF id, n
<1>6. \A i \in n + 1 .. n + ReportSize : queue'[i].id = id /\ queue'[i].k = i - n
  <2> TAKE i \in n + 1 .. n + ReportSize
  <2>1. queue'[i] = [id |-> id, k |-> i - n]
    BY <1>2
  <2> QED
    BY <2>1
<1>7. \A i \in DOMAIN queue' : shown[1].id < queue'[i].id /\ queue'[i].id <= sent
  <2> TAKE i \in DOMAIN queue'
  <2>1. i \in 1 .. n \/ i \in n + 1 .. n + ReportSize
    BY <1>2, <1>3
  <2>2. CASE i \in 1 .. n
    BY <1>2, <2>2 DEF StreamOrder
  <2>3. CASE i \in n + 1 .. n + ReportSize
    BY <1>4, <1>6, <2>3
  <2> QED
    BY <2>1, <2>2, <2>3
<1>8. \A i, j \in DOMAIN queue' : i < j => Rises(queue'[i], queue'[j])
  <2> SUFFICES ASSUME NEW i \in DOMAIN queue', NEW j \in DOMAIN queue', i < j
               PROVE  Rises(queue'[i], queue'[j])
    OBVIOUS
  <2>1. \/ i \in 1 .. n /\ j \in 1 .. n
        \/ i \in 1 .. n /\ j \in n + 1 .. n + ReportSize
        \/ i \in n + 1 .. n + ReportSize /\ j \in n + 1 .. n + ReportSize
    BY <1>2, <1>3
  <2>2. CASE i \in 1 .. n /\ j \in 1 .. n
    BY <1>2, <2>2 DEF StreamOrder
  <2>3. CASE i \in 1 .. n /\ j \in n + 1 .. n + ReportSize
    BY <1>2, <1>4, <1>6, <2>3 DEF Rises
  <2>4. CASE i \in n + 1 .. n + ReportSize /\ j \in n + 1 .. n + ReportSize
    <3>1. queue'[i].id = queue'[j].id /\ queue'[i].k = i - n /\ queue'[j].k = j - n
      BY <1>6, <2>4
    <3>2. i - n < j - n
      BY <1>2, <2>4
    <3> QED
      BY <3>1, <3>2 DEF Rises
  <2> QED
    BY <2>1, <2>2, <2>3, <2>4
<1>9. \A i, j \in DOMAIN queue' : i < j => Rises(queue[i], queue[j])'
  BY <1>8 DEF Rises
<1> QED
  BY <1>1, <1>4, <1>5, <1>7, <1>9 DEF StreamOrder, Queued

(* The report the host sends is newer than all. *)
LEMMA HostOutOrder ==
  ASSUME IInv, StreamOrder, HostOut
  PROVE  /\ StreamOrder'
         /\ Len(rxFifo) = 0 /\ rxFifo' \in Seq(Entry) /\ Len(rxFifo') = 2
         /\ rxFifo'[1] = Data(sent + 1)
<1>1. /\ TypeOK /\ FifoShape /\ ~Queued("setup") /\ ~Queued("done")
      /\ sent' = sent + 1 /\ sent + 1 \in 1 .. MaxReports
      /\ rxFifo' = rxFifo \o <<Data(sent + 1), Done>>
      /\ UNCHANGED <<shown, r, req, queue>>
  BY DEF IInv, HostOut, Accepting, AcceptingIsBusy, usbVars, mainVars, TypeOK
<1>2. Len(rxFifo) = 0
  <2>1. \A i \in 1 .. Len(rxFifo) : rxFifo[i].kind = "data"
    BY <1>1, FifoDomain DEF Queued
  <2>2. ~(Len(rxFifo) >= 1)
    BY <1>1, <2>1, FifoDomain DEF FifoShape
  <2>3. QED
    BY <1>1, <2>2, FifoDomain
<1>3. /\ rxFifo' \in Seq(Entry) /\ Len(rxFifo') = 2
      /\ rxFifo'[1] = Data(sent + 1) /\ rxFifo'[2] = Done
  BY <1>1, <1>2, FifoReceive
<1>4. \A i \in DOMAIN rxFifo' : rxFifo'[i].kind = "data" => rxFifo'[i].arg = sent + 1
  <2>1. DOMAIN rxFifo' = 1 .. 2
    BY <1>3, LenProperties
  <2> QED
    BY <1>3, <2>1 DEF Data, Done
<1>5. /\ shown[1].id < sent + 1 /\ (r > 0 => req[r].id < sent + 1)
      /\ \A j \in DOMAIN queue : queue[j].id < sent + 1 /\ queue[j].id <= sent + 1
  BY <1>1, Numbers DEF StreamOrder
<1>6. StreamOrder'
  BY <1>1, <1>4, <1>5, Numbers DEF StreamOrder, Rises
<1> QED
  BY <1>2, <1>3, <1>6

(* Every step keeps the order of the reports. *)
LEMMA NextStreamOrder == IInv /\ StreamOrder /\ [Next]_vars => StreamOrder'
<1> SUFFICES ASSUME IInv, StreamOrder, [Next]_vars PROVE StreamOrder'
  OBVIOUS
<1>1. CASE UNCHANGED <<shown, r, req, queue, sent, rxFifo>>
  BY <1>1, SameStream
<1>2. CASE Take
  <2>1. CASE queue = <<>>
    BY <1>1, <1>2, <2>1 DEF Take, outVars, hostVars
  <2> QED
    BY <1>2, <2>1, TakeOrder
<1>3. CASE Eval
  BY <1>3, EvalOrder
<1>4. CASE PumpData
  BY <1>4, PumpDataOrder
<1>5. CASE PumpDone
  <2>1. ~Queued("data")' /\ UNCHANGED <<shown, r, req, queue, sent>>
    BY <1>5, PumpDoneFifo DEF PumpDone, mainVars, hostVars
  <2> QED
    BY <2>1, SameStream DEF Queued
<1>6. CASE PumpSetup
  <2>1. ~Queued("data")' /\ UNCHANGED <<shown, r, req, sent>> /\ r = 0
    BY <1>6, PumpSetupFifo, PumpBetweenReports
       DEF PumpSetup, usb_event_cb, Configure, Deconfigure, mainVars, hostVars
  <2>2. CASE queue' = queue
    BY <2>1, <2>2, SameStream DEF Queued
  <2>3. CASE queue' = <<>>
    <3>1. DOMAIN queue' = {}
      BY <2>3
    <3>2. shown[1].id <= sent
      BY DEF StreamOrder
    <3> QED
      BY <2>1, <3>1, <3>2 DEF StreamOrder, Queued
  <2> QED
    BY <1>6, <2>2, <2>3 DEF PumpSetup, usb_event_cb, Configure, Deconfigure
<1>7. CASE HostOut
  BY <1>7, HostOutOrder
<1>8. ASSUME NEW c \in {0, 1}, SetConfiguration(c)
      PROVE  StreamOrder'
  <2>1. /\ UNCHANGED <<shown, r, req, queue, sent>> /\ TypeOK
        /\ rxFifo' = Append(rxFifo, Setup(c))
    BY <1>8 DEF SetConfiguration, mainVars, IInv
  <2>2. /\ Len(rxFifo) \in Nat /\ DOMAIN rxFifo = 1 .. Len(rxFifo)
        /\ DOMAIN rxFifo' = 1 .. Len(rxFifo) + 1
        /\ \A i \in 1 .. Len(rxFifo) : rxFifo'[i] = rxFifo[i]
        /\ rxFifo'[Len(rxFifo) + 1] = Setup(c)
    BY <2>1, FifoSetup, FifoDomain, LenProperties
  <2>3. Setup(c).kind # "data"
    BY DEF Setup
  <2> QED
    BY <2>1, <2>2, <2>3, SameStream
<1>9. CASE BusReset
  <2>1. UNCHANGED <<shown, r, req, queue, sent>> /\ DOMAIN rxFifo' = {}
    BY <1>9 DEF BusReset, mainVars
  <2> QED
    BY <2>1, SameStream
<1> QED
  BY <1>1, <1>2, <1>3, <1>4, <1>5, <1>6, <1>7, <1>8, <1>9
     DEF Next, Main, Pump, Host, Poll, Notify, Prepare, Start, Send, PumpCount,
         PumpIn, UseNull, HostIn, mainVars, outVars, hostVars, vars

-----------------------------------------------------------------------------
(* The order of the replies. *)

(* Evaluating a report makes ans_pkt newer than every echo there is. *)
LEMMA EvalReply ==
  ASSUME IInv, StreamOrder, ReplyOrder, Eval
  PROVE  ReplyOrder'
<1>1. /\ TypeOK /\ ans' = shown' /\ UNCHANGED <<echoed, inFifo, txLeft>>
      /\ ans[1].id < ans'[1].id
  BY EvalOrder DEF Eval, ReplyOrder, inVars, hostVars, IInv
<1>2. ans'[1].id \in Nat
  BY NextType, Numbers DEF Eval, IInv, TypeOK, Packet, Unit
<1> QED
  BY <1>1, <1>2, Numbers DEF ReplyOrder

(* A reply handed to the driver has been neither offered nor collected. *)
LEMMA SendReply ==
  ASSUME IInv, ReplyOrder, Send
  PROVE  ReplyOrder'
<1>1. UNCHANGED <<ans, shown, echoed, inFifo>> /\ mpc = "send"
  BY DEF Send, hostVars
<1> QED
  BY <1>1 DEF ReplyOrder

(* The pump offers ans_pkt only while the IN state still names it. *)
LEMMA PumpInReply ==
  ASSUME IInv, ReplyOrder, PumpIn
  PROVE  ReplyOrder'
<1>1. /\ TypeOK /\ UNCHANGED <<ans, shown, echoed, mpc>> /\ txLeft' = FALSE /\ mpc # "send"
      /\ inFifo' = IF txLeft THEN ans ELSE inFifo
  BY PumpBetweenReports DEF PumpIn, mainVars, hostVars, IInv
<1> QED
  BY <1>1, Numbers DEF ReplyOrder

(* Collecting an echo leaves what comes after it. *)
LEMMA HostInReply ==
  ASSUME IInv, ReplyOrder, HostIn
  PROVE  ReplyOrder' /\ echoed' > echoed
<1>1. /\ TypeOK /\ UNCHANGED <<ans, shown, txLeft, mpc>> /\ inFifo # <<>>
      /\ inFifo' = <<>> /\ echoed' = inFifo[1].id
  BY DEF HostIn, mainVars, IInv
<1> QED
  BY <1>1, Numbers DEF ReplyOrder

(* Every step keeps the order of the replies. *)
LEMMA NextReplyOrder == IInv /\ StreamOrder /\ ReplyOrder /\ [Next]_vars => ReplyOrder'
<1> SUFFICES ASSUME IInv, StreamOrder, ReplyOrder, [Next]_vars PROVE ReplyOrder'
  OBVIOUS
<1>1. ASSUME UNCHANGED <<ans, shown, echoed>>, txLeft' => txLeft, mpc' = "send" => mpc = "send",
             inFifo' = inFifo \/ inFifo' = <<>>
      PROVE  ReplyOrder'
  BY <1>1 DEF ReplyOrder
<1>2. CASE Eval
  BY <1>2, EvalReply
<1>3. CASE Send
  BY <1>3, SendReply
<1>4. CASE PumpIn
  BY <1>4, PumpInReply
<1>5. CASE HostIn
  BY <1>5, HostInReply
<1>6. CASE Poll \/ Notify \/ Prepare \/ Start \/ Take
  BY <1>1, <1>6 DEF Poll, Notify, Prepare, Start, Take, inVars, hostVars
<1>7. CASE PumpData \/ PumpCount \/ PumpDone \/ UseNull
  BY <1>1, <1>7 DEF PumpData, PumpCount, PumpDone, UseNull, inVars, mainVars, hostVars
<1>8. CASE PumpSetup
  <2>1. r = 0 /\ mpc # "send"
    BY <1>8, PumpBetweenReports DEF PumpSetup
  <2>2. mpc' # "send"
    BY <1>8, <2>1 DEF PumpSetup, usb_event_cb, Configure, Deconfigure, ReadReturns, HasRead, mainVars
  <2> QED
    BY <1>1, <1>8, <2>2 DEF PumpSetup, usb_event_cb, Configure, Deconfigure, inVars, mainVars, hostVars
<1>9. CASE HostOut \/ (\E c \in {0, 1} : SetConfiguration(c)) \/ BusReset
  BY <1>1, <1>9 DEF HostOut, SetConfiguration, BusReset, inVars, mainVars, hostVars
<1>10. CASE UNCHANGED vars
  BY <1>1, <1>10 DEF vars, inVars, mainVars, hostVars
<1> QED
  BY <1>2, <1>3, <1>4, <1>5, <1>6, <1>7, <1>8, <1>9, <1>10 DEF Next, Main, Pump, Host

-----------------------------------------------------------------------------
(* The count of the units. *)

(* Every step keeps the units that are read and queued whole reports. *)
LEMMA NextWholeCount == IInv /\ WholeCount /\ [Next]_vars => WholeCount'
<1> SUFFICES ASSUME IInv, WholeCount, [Next]_vars PROVE WholeCount'
  OBVIOUS
<1>1. CASE UNCHANGED <<r, queue, shown>>
  BY <1>1 DEF WholeCount
<1>2. CASE Take
  <2>1. CASE queue = <<>>
    BY <1>1, <1>2, <2>1 DEF Take
  <2>2. CASE queue # <<>>
    <3>1. r' + Len(queue') = r + Len(queue) /\ shown' = shown
      BY <1>2, <2>2, QueueTail, Numbers DEF Take, IInv
    <3> QED
      BY <3>1 DEF WholeCount
  <2> QED
    BY <2>1, <2>2
<1>3. CASE Eval
  <2>1. /\ TypeOK /\ r = ReportSize /\ r' = 0 /\ UNCHANGED queue /\ Len(queue) \in Nat
        /\ shown' = req
    BY <1>3, Numbers DEF Eval, IInv, ReaderState
  <2>2. PICK n \in 0 .. 3 : ReportSize + Len(queue) = n * ReportSize
    BY <2>1 DEF WholeCount
  <2>3. n # 0 /\ Len(queue) = (n - 1) * ReportSize
    BY <2>1, <2>2
  <2>4. n - 1 \in 0 .. 3
    BY <2>3
  <2>5. req = Units(req[1].id)
    <3>1. /\ \A j \in 1 .. ReportSize : req[j] = [id |-> req[r].id, k |-> j]
          /\ 1 \in 1 .. ReportSize
      BY <2>1 DEF IInv, WholeStream
    <3>2. req[1] = [id |-> req[r].id, k |-> 1]
      BY <3>1
    <3>3. req[1].id = req[r].id
      BY <3>2
    <3> QED
      BY <2>1, <3>1, <3>3 DEF Units, TypeOK, Packet
  <2> QED
    BY <2>1, <2>3, <2>4, <2>5 DEF WholeCount
<1>4. CASE PumpData
  <2>1. /\ TypeOK /\ r = 0 /\ r' = 0 /\ shown' = shown /\ Queued("data")
        /\ Head(rxFifo).arg \in 0 .. MaxReports
    BY <1>4, PumpBetweenReports, PumpDataFifo, FifoTail, FifoDomain
       DEF PumpData, IInv, FifoShape, TypeOK
  <2>2. Len(queue) \in Nat /\ Len(queue') = Len(queue) + ReportSize
    BY <1>4, <2>1, QueueConcat DEF PumpData
  <2>3. Len(queue) <= ReportSize
    BY <2>1, <2>2 DEF IInv, RoomReserved, QueueSize
  <2>4. PICK n \in 0 .. 3 : Len(queue) = n * ReportSize
    BY <2>1, <2>2 DEF WholeCount
  <2>5. n <= 1
    BY <2>3, <2>4
  <2>6. n + 1 \in 0 .. 3 /\ r' + Len(queue') = (n + 1) * ReportSize
    BY <2>1, <2>2, <2>4, <2>5
  <2> QED
    BY <2>1, <2>6 DEF WholeCount
<1>5. CASE PumpSetup
  <2>1. CASE Deconfigure
    BY <1>1, <2>1 DEF Deconfigure, mainVars
  <2>2. CASE Configure
    <3>1. r' = 0 /\ Len(queue') = 0 /\ shown' = shown
      BY <1>5, <2>2, PumpBetweenReports, EmptySeq DEF PumpSetup, Configure
    <3>2. r' + Len(queue') = 0 * ReportSize
      BY <3>1
    <3> QED
      BY <3>1, <3>2 DEF WholeCount
  <2> QED
    BY <1>5, <2>1, <2>2 DEF PumpSetup, usb_event_cb
<1> QED
  BY <1>1, <1>2, <1>3, <1>4, <1>5
     DEF Next, Main, Pump, Host, Poll, Notify, Prepare, Start, Send, PumpCount, PumpDone,
         PumpIn, UseNull, HostOut, HostIn, SetConfiguration, BusReset, mainVars, vars

-----------------------------------------------------------------------------
(* The invariants of the specification. *)

(* The firmware starts with no report and no echo. *)
LEMMA InitOrderInv == Init => OrderInv
<1> SUFFICES ASSUME Init PROVE OrderInv
  OBVIOUS
<1>1. Len(queue) = 0 /\ DOMAIN queue = {} /\ DOMAIN rxFifo = {}
  BY EmptySeq DEF Init
<1>2. shown[1].id = 0 /\ ans = shown /\ shown = Zeroes
  BY DEF Init, Zeroes
<1>3. r + Len(queue) = 0 * ReportSize
  BY <1>1 DEF Init
<1> QED
  BY <1>1, <1>2, <1>3 DEF Init, OrderInv, StreamOrder, ReplyOrder, WholeCount

(* Reports and replies keep their order in every reachable state. *)
THEOREM Ordered == Spec => []OrderInv
<1>1. IInv /\ OrderInv /\ [Next]_vars => OrderInv'
  BY NextStreamOrder, NextReplyOrder, NextWholeCount DEF OrderInv
<1> QED
  BY <1>1, InitOrderInv, Invariance, PTL DEF Spec

(* Replies are collected in the order of their requests and none twice,       *)
(* though loop_tick overwrites the one ans_pkt while an echo is pending.      *)
THEOREM RepliesAreInOrder == Spec => RepliesInOrder
<1>1. IInv /\ OrderInv /\ [Next]_vars => [HostIn => echoed' > echoed]_vars
  BY HostInReply DEF OrderInv
<1> QED
  BY <1>1, Invariance, Ordered, PTL DEF Spec, RepliesInOrder

-----------------------------------------------------------------------------
(* The refinement of LedDevice: what the device holds. *)

(* So many units are so many reports. *)
LEMMA WholeDiv ==
  ASSUME NEW n \in Nat, NEW t, t = n * ReportSize
  PROVE  t \div ReportSize = n
  OBVIOUS

(* The last unit of each held report is among the units. *)
LEMMA LastUnit ==
  ASSUME NEW n \in 0 .. 3, NEW i \in 1 .. n
  PROVE  /\ i * ReportSize \in 1 .. n * ReportSize
         /\ ReportSize <= i * ReportSize
         /\ (i + 1) * ReportSize = i * ReportSize + ReportSize
<1>1. i = 1 \/ i = 2 \/ i = 3
  OBVIOUS
<1>2. n = 1 \/ n = 2 \/ n = 3
  OBVIOUS
<1> QED
  BY <1>1, <1>2

(* Two sequences one behind the other, the first not empty. *)
LEMMA ConcatHeadTail ==
  ASSUME NEW s \in Seq(Nat), NEW t \in Seq(Nat), s # <<>>
  PROVE  s \o t # <<>> /\ Head(s \o t) = s[1] /\ Tail(s \o t) = Tail(s) \o t
<1>1. /\ s \o t \in Seq(Nat) /\ Len(s \o t) = Len(s) + Len(t)
      /\ \A i \in 1 .. Len(s) + Len(t) : (s \o t)[i] = IF i <= Len(s) THEN s[i] ELSE t[i - Len(s)]
  BY ConcatProperties
<1>2. Len(s) \in Nat \ {0} /\ Len(t) \in Nat
  BY EmptySeq, LenProperties
<1>3. s \o t # <<>>
  BY <1>1, <1>2, EmptySeq
<1>4. /\ Tail(s \o t) \in Seq(Nat) /\ Len(Tail(s \o t)) = Len(s) + Len(t) - 1
      /\ \A i \in 1 .. Len(s) + Len(t) - 1 : Tail(s \o t)[i] = (s \o t)[i + 1]
  BY <1>1, <1>3, HeadTailProperties
<1>5. /\ Tail(s) \in Seq(Nat) /\ Len(Tail(s)) = Len(s) - 1
      /\ \A i \in 1 .. Len(s) - 1 : Tail(s)[i] = s[i + 1]
  BY HeadTailProperties
<1>6. /\ Tail(s) \o t \in Seq(Nat) /\ Len(Tail(s) \o t) = Len(s) - 1 + Len(t)
      /\ \A i \in 1 .. Len(s) - 1 + Len(t) :
           (Tail(s) \o t)[i] = IF i <= Len(s) - 1 THEN Tail(s)[i] ELSE t[i - (Len(s) - 1)]
  BY <1>5, ConcatProperties
<1>7. \A i \in 1 .. Len(s) + Len(t) - 1 : Tail(s \o t)[i] = (Tail(s) \o t)[i]
  <2> TAKE i \in 1 .. Len(s) + Len(t) - 1
  <2>1. /\ i + 1 \in 1 .. Len(s) + Len(t) /\ i \in 1 .. Len(s) - 1 + Len(t)
        /\ (i + 1 <= Len(s) <=> i <= Len(s) - 1) /\ i + 1 - Len(s) = i - (Len(s) - 1)
    BY <1>2
  <2>2. CASE i <= Len(s) - 1
    BY <1>1, <1>2, <1>4, <1>5, <1>6, <2>1, <2>2
  <2>3. CASE ~(i <= Len(s) - 1)
    BY <1>1, <1>2, <1>4, <1>6, <2>1, <2>3
  <2> QED
    BY <2>2, <2>3
<1>8. Tail(s \o t) = Tail(s) \o t
  BY <1>2, <1>4, <1>6, <1>7, SeqEqual
<1> QED
  BY <1>1, <1>2, <1>3, <1>8

(* The units the device holds. *)
LEMMA HeldType ==
  ASSUME IInv, NEW i \in 1 .. r + Len(queue)
  PROVE  Held(i).id \in Nat
<1>1. TypeOK /\ r \in 0 .. ReportSize
  BY DEF IInv, TypeOK
<1>2. CASE i <= r
  <2>1. i \in 1 .. ReportSize
    BY <1>1, <1>2, Numbers
  <2>2. req[i].id \in Nat
    BY <1>1, <2>1 DEF TypeOK, Packet, Unit
  <2> QED
    BY <1>2, <2>2 DEF Held
<1>3. CASE ~(i <= r)
  <2>1. i - r \in 1 .. Len(queue)
    BY <1>1, <1>3, Numbers
  <2>2. queue[i - r].id \in Nat
    BY <1>1, <2>1, Numbers
  <2> QED
    BY <1>3, <2>2 DEF Held
<1> QED
  BY <1>2, <1>3

(* The reports the device holds, and the one that arrives. *)
LEMMA PendingType ==
  ASSUME IInv, WholeCount
  PROVE  /\ \E n \in 0 .. 3 : /\ r + Len(queue) = n * ReportSize
                              /\ HeldReports = [i \in 1 .. n |-> Held(i * ReportSize).id]
                              /\ HeldReports \in Seq(Nat)
                              /\ Len(HeldReports) = n
         /\ Arriving \in Seq(Nat) /\ Len(Arriving) \in {0, 1}
         /\ ShownReport = shown[1].id
<1>1. PICK n \in 0 .. 3 : r + Len(queue) = n * ReportSize
  BY DEF WholeCount
<1>2. HeldReports = [i \in 1 .. n |-> Held(i * ReportSize).id]
  BY <1>1, WholeDiv DEF HeldReports
<1>3. \A i \in 1 .. n : Held(i * ReportSize).id \in Nat
  BY <1>1, LastUnit, HeldType
<1>4. HeldReports \in [1 .. n -> Nat]
  BY <1>2, <1>3
<1>5. HeldReports \in Seq(Nat) /\ Len(HeldReports) = n
  BY <1>4, LenProperties, SeqDef
<1>6. Arriving \in Seq(Nat) /\ Len(Arriving) \in {0, 1}
  <2>1. CASE rxFifo # <<>> /\ rxFifo[1].kind = "data"
    <3>1. rxFifo[1].arg \in Nat
      BY <2>1, FifoTail DEF IInv, Entry
    <3> QED
      BY <2>1, <3>1 DEF Arriving
  <2>2. CASE ~(rxFifo # <<>> /\ rxFifo[1].kind = "data")
    BY <2>2, EmptySeq DEF Arriving
  <2> QED
    BY <2>1, <2>2
<1>7. ShownReport = shown[1].id
  BY DEF WholeCount, ShownReport
<1> QED
  BY <1>1, <1>2, <1>5, <1>6, <1>7

-----------------------------------------------------------------------------
(* The refinement of LedDevice: the steps. *)

(* What is held changes only with what it is made of. *)
LEMMA SameHeld ==
  ASSUME UNCHANGED <<r, req, queue>>
  PROVE  HeldReports' = HeldReports
  BY DEF HeldReports, Held

(* Reading a unit leaves the reports the device holds as they are. *)
LEMMA TakeHeld ==
  ASSUME IInv, WholeCount, Take, queue # <<>>
  PROVE  HeldReports' = HeldReports
<1>1. /\ TypeOK /\ r \in 0 .. ReportSize - 1 /\ r' = r + 1
      /\ req' = [req EXCEPT ![r + 1] = queue[1]]
      /\ queue' = Tail(queue) /\ Len(queue) \in Nat \ {0}
      /\ Len(queue') = Len(queue) - 1
      /\ \A i \in 1 .. Len(queue) - 1 : queue'[i] = queue[i + 1]
  BY TakenUnit, QueueTail DEF Take, IInv
<1>2. r' + Len(queue') = r + Len(queue)
  BY <1>1
<1>3. ASSUME NEW i \in 1 .. r + Len(queue)
      PROVE  Held(i)' = Held(i)
  <2>1. CASE i <= r
    <3>1. req'[i] = req[i] /\ i <= r'
      BY <1>1, <2>1 DEF TypeOK, Packet
    <3> QED
      BY <2>1, <3>1 DEF Held
  <2>2. CASE i = r + 1
    <3>1. req'[i] = queue[1] /\ i <= r' /\ ~(i <= r) /\ i - r = 1
      BY <1>1, <2>2 DEF TypeOK, Packet
    <3> QED
      BY <3>1 DEF Held
  <2>3. CASE i > r + 1
    <3>1. /\ i - r' \in 1 .. Len(queue) - 1 /\ (i - r') + 1 = i - r
          /\ ~(i <= r') /\ ~(i <= r)
      BY <1>1, <2>3
    <3>2. queue'[i - r'] = queue[i - r]
      BY <1>1, <3>1
    <3> QED
      BY <3>1, <3>2 DEF Held
  <2> QED
    BY <1>1, <2>1, <2>2, <2>3
<1>4. PICK n \in 0 .. 3 : r + Len(queue) = n * ReportSize
  BY DEF WholeCount
<1>5. /\ HeldReports = [i \in 1 .. n |-> Held(i * ReportSize).id]
      /\ HeldReports' = [i \in 1 .. n |-> Held(i * ReportSize)'.id]
  BY <1>2, <1>4, WholeDiv DEF HeldReports
<1>6. \A i \in 1 .. n : Held(i * ReportSize)' = Held(i * ReportSize)
  BY <1>3, <1>4, LastUnit
<1> QED
  BY <1>5, <1>6

(* Evaluating takes the oldest report the device holds. *)
LEMMA EvalHeld ==
  ASSUME IInv, WholeCount, Eval
  PROVE  /\ HeldReports # <<>> /\ HeldReports[1] = req[r].id
         /\ HeldReports' = Tail(HeldReports)
<1>1. /\ TypeOK /\ r = ReportSize /\ r' = 0 /\ UNCHANGED queue /\ Len(queue) \in Nat
  BY Numbers DEF Eval, IInv, ReaderState
<1>2. PICK n \in 0 .. 3 : /\ r + Len(queue) = n * ReportSize
                          /\ HeldReports = [i \in 1 .. n |-> Held(i * ReportSize).id]
                          /\ HeldReports \in Seq(Nat) /\ Len(HeldReports) = n
  BY PendingType
<1>3. n # 0 /\ r' + Len(queue') = (n - 1) * ReportSize
  BY <1>1, <1>2
<1>4. n - 1 \in Nat /\ n - 1 \in 0 .. 3 /\ 1 \in 1 .. n /\ n \in Nat \ {0}
  BY <1>3
<1>5. HeldReports # <<>>
  BY <1>2, <1>4, EmptySeq
<1>6. HeldReports[1] = req[r].id
  <2>1. HeldReports[1] = Held(1 * ReportSize).id /\ 1 * ReportSize = r
    BY <1>1, <1>2, <1>4
  <2> QED
    BY <1>1, <2>1 DEF Held
<1>7. HeldReports' = [i \in 1 .. n - 1 |-> Held(i * ReportSize)'.id]
  BY <1>3, <1>4, WholeDiv DEF HeldReports
<1>8. ASSUME NEW i \in 1 .. n - 1
      PROVE  Held(i * ReportSize)' = Held((i + 1) * ReportSize)
  <2>1. /\ i * ReportSize \in Nat /\ i * ReportSize > 0 /\ i \in 1 .. n
        /\ (i + 1) * ReportSize = i * ReportSize + ReportSize
    <3>1. /\ i * ReportSize \in 1 .. (n - 1) * ReportSize
          /\ (i + 1) * ReportSize = i * ReportSize + ReportSize
      BY <1>4, LastUnit
    <3> QED
      BY <1>4, <3>1
  <2>2. Held(i * ReportSize)' = queue[i * ReportSize]
    BY <1>1, <2>1 DEF Held
  <2>3. Held((i + 1) * ReportSize) = queue[i * ReportSize]
    <3>1. ~((i + 1) * ReportSize <= r) /\ (i + 1) * ReportSize - r = i * ReportSize
      BY <1>1, <2>1
    <3> QED
      BY <3>1 DEF Held
  <2> QED
    BY <2>2, <2>3
<1>9. /\ Tail(HeldReports) \in Seq(Nat) /\ Len(Tail(HeldReports)) = n - 1
      /\ \A i \in 1 .. n - 1 : Tail(HeldReports)[i] = HeldReports[i + 1]
  BY <1>2, <1>5, HeadTailProperties
<1>10. \A i \in 1 .. n - 1 : HeldReports'[i] = Tail(HeldReports)[i]
  <2> TAKE i \in 1 .. n - 1
  <2>1. i + 1 \in 1 .. n
    BY <1>4
  <2>2. HeldReports'[i] = Held(i * ReportSize)'.id
    BY <1>7
  <2>3. Tail(HeldReports)[i] = Held((i + 1) * ReportSize).id
    BY <1>2, <1>9, <2>1
  <2> QED
    BY <1>8, <2>2, <2>3
<1>11. HeldReports' \in Seq(Nat) /\ Len(HeldReports') = n - 1
  <2>1. \A i \in 1 .. n - 1 : HeldReports'[i] \in Nat
    BY <1>9, <1>10, ElementOfSeq
  <2>2. HeldReports' \in [1 .. n - 1 -> Nat]
    BY <1>7, <2>1
  <2> QED
    BY <1>4, <2>2, LenProperties, SeqDef
<1>12. HeldReports' = Tail(HeldReports)
  BY <1>9, <1>10, <1>11, SeqEqual
<1> QED
  BY <1>5, <1>6, <1>12

(* A copied report leaves the FIFO for the end of what is held. *)
LEMMA PumpDataHeld ==
  ASSUME IInv, WholeCount, PumpData
  PROVE  Pending' = Pending
<1> DEFINE id == rxFifo[1].arg
<1>1. /\ TypeOK /\ r = 0 /\ r' = 0 /\ rxFifo # <<>> /\ rxFifo[1].kind = "data"
      /\ id \in 0 .. MaxReports /\ queue' = queue \o Units(id) /\ Len(queue) \in Nat
  <2>1. /\ TypeOK /\ r = 0 /\ r' = 0 /\ rxFifo # <<>> /\ rxFifo[1].kind = "data"
        /\ queue' = queue \o Units(id)
    BY PumpBetweenReports, FifoTail DEF PumpData, IInv
  <2>2. 1 \in DOMAIN rxFifo
    BY <2>1, FifoTail, FifoDomain
  <2>3. id \in 1 .. MaxReports
    BY <2>1, <2>2 DEF IInv, FifoShape
  <2> QED
    BY <2>1, <2>3, Numbers
<1>2. /\ Len(queue') = Len(queue) + ReportSize
      /\ \A i \in 1 .. Len(queue) : queue'[i] = queue[i]
      /\ \A i \in Len(queue) + 1 .. Len(queue) + ReportSize :
           queue'[i] = [id |-> id, k |-> i - Len(queue)]
  BY <1>1, QueueConcat
<1>3. Arriving = <<id>>
  BY <1>1 DEF Arriving
<1>4. Arriving' = <<>>
  <2>1. ~(rxFifo' # <<>> /\ rxFifo'[1].kind = "data")
    <3>1. CASE rxFifo' # <<>>
      <4>1. rxFifo' \in Seq(Entry)
        BY <1>1, FifoTail DEF PumpData
      <4>2. Len(rxFifo') \in Nat \ {0} /\ DOMAIN rxFifo' = 1 .. Len(rxFifo')
        BY <3>1, <4>1, EmptySeq, LenProperties
      <4>3. 1 \in DOMAIN rxFifo' /\ ~Queued("data")'
        BY <4>2, PumpDataFifo
      <4> QED
        BY <4>3 DEF Queued
    <3> QED
      BY <3>1
  <2> QED
    BY <2>1 DEF Arriving
<1>5. PICK n \in 0 .. 3 : /\ r + Len(queue) = n * ReportSize
                          /\ HeldReports = [i \in 1 .. n |-> Held(i * ReportSize).id]
                          /\ HeldReports \in Seq(Nat) /\ Len(HeldReports) = n
  BY PendingType
<1>6. r' + Len(queue') = (n + 1) * ReportSize /\ Len(queue) = n * ReportSize
  <2>1. (n + 1) * ReportSize = n * ReportSize + ReportSize
    <3>1. n = 0 \/ n = 1 \/ n = 2 \/ n = 3
      OBVIOUS
    <3> QED
      BY <3>1
  <2>2. r' + Len(queue') = Len(queue) + ReportSize /\ r + Len(queue) = Len(queue)
    BY <1>1, <1>2
  <2> QED
    BY <1>5, <2>1, <2>2
<1>7. HeldReports' = [i \in 1 .. n + 1 |-> Held(i * ReportSize)'.id]
  <2>1. n + 1 \in Nat
    OBVIOUS
  <2> QED
    BY <1>6, <2>1, WholeDiv DEF HeldReports
<1>8. ASSUME NEW i \in 1 .. n
      PROVE  Held(i * ReportSize)' = Held(i * ReportSize)
  <2>1. i * ReportSize \in 1 .. Len(queue)
    BY <1>6, LastUnit
  <2> QED
    BY <1>1, <1>2, <2>1 DEF Held
<1>9. Held((n + 1) * ReportSize)'.id = id
  <2>1. (n + 1) * ReportSize = Len(queue) + ReportSize
    BY <1>1, <1>2, <1>6
  <2>2. /\ Len(queue) + ReportSize \in Len(queue) + 1 .. Len(queue) + ReportSize
        /\ ~(Len(queue) + ReportSize <= 0)
    BY <1>1
  <2>3. Held((n + 1) * ReportSize)' = queue'[Len(queue) + ReportSize]
    <3>1. /\ ~((n + 1) * ReportSize <= r')
          /\ (n + 1) * ReportSize - r' = Len(queue) + ReportSize
      BY <1>1, <2>1, <2>2
    <3> QED
      BY <3>1 DEF Held
  <2>4. queue'[Len(queue) + ReportSize] = [id |-> id, k |-> Len(queue) + ReportSize - Len(queue)]
    BY <1>2, <2>2
  <2> QED
    BY <2>3, <2>4
<1> HIDE DEF id
<1>10. /\ Append(HeldReports, id) \in Seq(Nat) /\ Len(Append(HeldReports, id)) = n + 1
       /\ \A i \in 1 .. n : Append(HeldReports, id)[i] = HeldReports[i]
       /\ Append(HeldReports, id)[n + 1] = id
  <2>1. id \in Nat
    BY <1>1
  <2> QED
    BY <1>5, <2>1, AppendProperties
<1>11. \A i \in 1 .. n + 1 : HeldReports'[i] = Append(HeldReports, id)[i]
  <2> TAKE i \in 1 .. n + 1
  <2>1. HeldReports'[i] = Held(i * ReportSize)'.id
    BY <1>7
  <2>2. CASE i \in 1 .. n
    BY <1>5, <1>8, <1>10, <2>1, <2>2
  <2>3. CASE i = n + 1
    BY <1>9, <1>10, <2>1, <2>3
  <2>4. i \in 1 .. n \/ i = n + 1
    OBVIOUS
  <2> QED
    BY <2>2, <2>3, <2>4
<1>12. HeldReports' \in Seq(Nat) /\ Len(HeldReports') = n + 1
  <2>1. \A i \in 1 .. n + 1 : HeldReports'[i] \in Nat
    BY <1>10, <1>11, ElementOfSeq
  <2>2. HeldReports' \in [1 .. n + 1 -> Nat]
    BY <1>7, <2>1
  <2> QED
    BY <2>2, LenProperties, SeqDef
<1>13. HeldReports' = Append(HeldReports, id)
  BY <1>10, <1>11, <1>12, SeqEqual
<1>14. Pending = Append(HeldReports, id)
  <2>1. id \in Nat
    BY <1>1
  <2> QED
    BY <1>3, <1>5, <2>1, AppendIsConcat DEF Pending
<1>15. Pending' = HeldReports'
  BY <1>4, <1>12, ConcatEmptySeq DEF Pending
<1> QED
  BY <1>13, <1>14, <1>15

(* The FIFO's oldest entry is no report. *)
LEMMA NothingArrives ==
  ASSUME TypeOK, ~Queued("data")
  PROVE  Arriving = <<>>
<1>1. CASE rxFifo # <<>>
  <2>1. 1 \in DOMAIN rxFifo
    BY <1>1, FifoTail, FifoDomain
  <2> QED
    BY <2>1 DEF Queued, Arriving
<1> QED
  BY <1>1 DEF Arriving

(* The same after a step. *)
LEMMA NothingWillArrive ==
  ASSUME TypeOK', ~Queued("data")'
  PROVE  Arriving' = <<>>
<1>1. rxFifo' \in Seq(Entry) /\ DOMAIN rxFifo' = 1 .. Len(rxFifo') /\ Len(rxFifo') \in Nat
  BY LenProperties DEF TypeOK
<1>2. CASE rxFifo' # <<>>
  <2>1. 1 \in DOMAIN rxFifo'
    BY <1>1, <1>2, EmptySeq
  <2> QED
    BY <2>1 DEF Queued, Arriving
<1> QED
  BY <1>2 DEF Arriving

(* What is held has been sent. *)
LEMMA HeldWasSent ==
  ASSUME IInv, StreamOrder, NEW i \in 1 .. r + Len(queue)
  PROVE  Held(i).id <= sent
<1>1. TypeOK /\ r \in Nat /\ Len(queue) \in Nat /\ DOMAIN queue = 1 .. Len(queue)
  BY Numbers DEF IInv
<1>2. CASE i <= r
  <2>1. i \in 1 .. r /\ r > 0
    BY <1>1, <1>2
  <2>2. req[i] = [id |-> req[r].id, k |-> i] /\ req[r].id <= sent
    BY <2>1 DEF IInv, WholeStream, StreamOrder
  <2> QED
    BY <1>2, <2>2 DEF Held
<1>3. CASE ~(i <= r)
  <2>1. i - r \in DOMAIN queue
    BY <1>1, <1>3
  <2> QED
    BY <1>3, <2>1 DEF Held, StreamOrder
<1> QED
  BY <1>2, <1>3

(* The endpoint acknowledges a report: the device accepts it. *)
LEMMA HostOutAccepts ==
  ASSUME IInv, StreamOrder, WholeCount, HostOut
  PROVE  Device!Accept(sent + 1) /\ sent + 1 \in 1 .. MaxReports
<1>1. /\ TypeOK /\ UNCHANGED <<shown, r, req, queue>> /\ Len(rxFifo) = 0
      /\ rxFifo' \in Seq(Entry) /\ Len(rxFifo') = 2 /\ rxFifo'[1] = Data(sent + 1)
      /\ sent + 1 \in 1 .. MaxReports /\ ~nak
  BY HostOutOrder DEF IInv, HostOut, Accepting, mainVars, TypeOK
<1>2. PICK n \in 0 .. 3 : /\ r + Len(queue) = n * ReportSize
                          /\ HeldReports = [i \in 1 .. n |-> Held(i * ReportSize).id]
                          /\ HeldReports \in Seq(Nat) /\ Len(HeldReports) = n
  BY PendingType
<1>3. Arriving = <<>>
  BY <1>1, FifoTail DEF Arriving
<1>4. Arriving' = <<sent + 1>>
  <2>1. rxFifo' # <<>>
    BY <1>1, EmptySeq
  <2>2. rxFifo'[1].kind = "data" /\ rxFifo'[1].arg = sent + 1
    BY <1>1 DEF Data
  <2> QED
    BY <2>1, <2>2 DEF Arriving
<1>5. Pending = HeldReports
  BY <1>2, <1>3, ConcatEmptySeq DEF Pending
<1>6. Pending' = Append(Pending, sent + 1)
  <2>1. Pending' = HeldReports \o <<sent + 1>>
    BY <1>1, <1>4, SameHeld DEF Pending
  <2> QED
    BY <1>1, <1>2, <1>5, <2>1, AppendIsConcat
<1>7. Len(Pending) < 3
  <2>1. Len(queue) <= ReportSize /\ r <= ReportSize /\ r \in Nat /\ Len(queue) \in Nat
    BY <1>1, Numbers DEF IInv, RoomReserved, QueueSize, TypeOK
  <2>2. n # 3
    BY <1>2, <2>1
  <2> QED
    BY <1>2, <1>5, <2>2
<1>8. Device!Newer(sent + 1)
  <2>1. sent + 1 > ShownReport
    BY <1>1, PendingType, Numbers DEF StreamOrder
  <2>2. ASSUME NEW i \in DOMAIN Pending
        PROVE  sent + 1 > Pending[i]
    <3>1. i \in 1 .. n /\ Pending[i] = Held(i * ReportSize).id
      BY <1>2, <1>5
    <3>2. i * ReportSize \in 1 .. r + Len(queue)
      BY <1>2, <3>1, LastUnit
    <3>3. Held(i * ReportSize).id <= sent /\ Held(i * ReportSize).id \in Nat
      BY <3>2, HeldWasSent, HeldType
    <3> QED
      BY <1>1, <3>1, <3>3 DEF TypeOK
  <2> QED
    BY <2>1, <2>2 DEF Device!Newer
<1>9. ShownReport' = ShownReport
  BY <1>1 DEF ShownReport
<1> QED
  BY <1>1, <1>6, <1>7, <1>8, <1>9 DEF Device!Accept

(* eval_pkt shows the oldest report the device holds. *)
LEMMA EvalEvaluates ==
  ASSUME IInv, StreamOrder, WholeCount, Eval
  PROVE  Device!Evaluate
<1>1. UNCHANGED rxFifo
  BY DEF Eval, outVars
<1>2. Arriving' = Arriving
  BY <1>1 DEF Arriving
<1>3. HeldReports \in Seq(Nat) /\ Arriving \in Seq(Nat)
  BY PendingType
<1>4. /\ Pending # <<>> /\ Head(Pending) = req[r].id
      /\ Tail(Pending) = Tail(HeldReports) \o Arriving
  BY <1>3, EvalHeld, ConcatHeadTail DEF Pending
<1>5. Pending' = Tail(Pending)
  BY <1>2, <1>4, EvalHeld DEF Pending
<1>6. ShownReport' = req[r].id
  <2>1. WholeCount' /\ shown'[1].id = req[r].id
    BY NextWholeCount, EvalOrder DEF Next, Main
  <2> QED
    BY <2>1 DEF WholeCount, ShownReport
<1> QED
  BY <1>4, <1>5, <1>6 DEF Device!Evaluate

(* A new configuration loses all that is held, a reset what has not reached   *)
(* the queue.                                                                 *)
LEMMA ConfigureLoses ==
  ASSUME IInv, WholeCount, PumpSetup, Configure
  PROVE  Device!Lose
<1>1. /\ TypeOK /\ TypeOK' /\ ~Queued("data")' /\ r' = 0 /\ queue' = <<>>
      /\ UNCHANGED <<r, shown>>
  BY NextType, PumpSetupFifo, PumpBetweenReports
     DEF IInv, PumpSetup, Configure, Next, Pump
<1>2. Arriving' = <<>>
  BY <1>1, NothingWillArrive
<1>3. HeldReports' = <<>>
  <2>1. r' + Len(queue') = 0 * ReportSize
    BY <1>1, EmptySeq
  <2>2. HeldReports' = [i \in 1 .. 0 |-> Held(i * ReportSize)'.id]
    BY <2>1, WholeDiv DEF HeldReports
  <2> QED
    BY <2>2
<1>4. Pending' = <<>>
  BY <1>2, <1>3, EmptySeq, ConcatEmptySeq DEF Pending
<1>5. SubSeq(Pending, 1, 0) = <<>>
  BY SubSeqEmpty
<1>6. 0 \in 0 .. Len(Pending)
  BY PendingType, ConcatProperties, LenProperties DEF Pending
<1>7. ShownReport' = ShownReport
  BY <1>1 DEF ShownReport
<1> QED
  BY <1>4, <1>5, <1>6, <1>7 DEF Device!Lose

LEMMA BusResetLoses ==
  ASSUME IInv, WholeCount, BusReset
  PROVE  Device!Lose
<1>1. rxFifo' = <<>> /\ UNCHANGED <<r, req, queue, shown>>
  BY DEF BusReset, mainVars
<1>2. HeldReports' = HeldReports /\ Arriving' = <<>> /\ ShownReport' = ShownReport
  BY <1>1, SameHeld DEF Arriving, ShownReport
<1>3. /\ HeldReports \in Seq(Nat) /\ Arriving \in Seq(Nat)
      /\ Len(HeldReports) \in Nat /\ Len(Arriving) \in Nat
  BY PendingType, LenProperties
<1>4. Pending' = HeldReports
  BY <1>2, <1>3, ConcatEmptySeq DEF Pending
<1>5. SubSeq(Pending, 1, Len(HeldReports)) = HeldReports
  <2>1. CASE Len(HeldReports) = 0
    <3>1. HeldReports = <<>> /\ SubSeq(Pending, 1, 0) = <<>>
      BY <1>3, <2>1, EmptySeq, SubSeqEmpty
    <3> QED
      BY <2>1, <3>1
  <2>2. CASE Len(HeldReports) # 0
    <3>1. 1 \in 1 .. Len(HeldReports) /\ Len(HeldReports) \in 1 .. Len(HeldReports)
      BY <1>3, <2>2
    <3> QED
      BY <1>3, <3>1, SubSeqOfConcat1, SubSeqFull DEF Pending
  <2> QED
    BY <2>1, <2>2
<1>6. Len(HeldReports) \in 0 .. Len(Pending)
  <2>1. Len(Pending) = Len(HeldReports) + Len(Arriving)
    BY <1>3, ConcatProperties DEF Pending
  <2> QED
    BY <1>3, <2>1
<1> QED
  BY <1>2, <1>4, <1>5, <1>6 DEF Device!Lose

(* Every step of the firmware is a step of the device or leaves it alone. *)
LEMMA NextIsDeviceStep ==
  IInv /\ OrderInv /\ [Next]_vars => [Device!Next]_(Device!vars)
<1> SUFFICES ASSUME IInv, OrderInv, [Next]_vars
             PROVE  Device!Next \/ UNCHANGED Device!vars
  OBVIOUS
<1>0. StreamOrder /\ WholeCount /\ TypeOK
  BY DEF OrderInv, IInv
<1>1. ASSUME Pending' = Pending, UNCHANGED shown
      PROVE  UNCHANGED Device!vars
  BY <1>1 DEF Device!vars, ShownReport
<1>2. CASE UNCHANGED <<r, req, queue, rxFifo, shown>>
  <2>1. HeldReports' = HeldReports /\ Arriving' = Arriving
    BY <1>2, SameHeld DEF Arriving
  <2> QED
    BY <1>1, <1>2, <2>1 DEF Pending
<1>3. CASE Take
  <2>1. CASE queue = <<>>
    BY <1>2, <1>3, <2>1 DEF Take, outVars
  <2>2. CASE queue # <<>>
    <3>1. UNCHANGED <<rxFifo, shown>> /\ HeldReports' = HeldReports
      BY <1>0, <1>3, <2>2, TakeHeld DEF Take, outVars
    <3>2. Arriving' = Arriving
      BY <3>1 DEF Arriving
    <3> QED
      BY <1>1, <3>1, <3>2 DEF Pending
  <2> QED
    BY <2>1, <2>2
<1>4. CASE Eval
  BY <1>0, <1>4, EvalEvaluates DEF Device!Next
<1>5. CASE PumpData
  <2>1. UNCHANGED shown
    BY <1>5 DEF PumpData
  <2> QED
    BY <1>0, <1>1, <1>5, <2>1, PumpDataHeld
<1>6. ASSUME UNCHANGED <<r, req, queue, shown>>, ~Queued("data"), ~Queued("data")', TypeOK'
      PROVE  UNCHANGED Device!vars
  <2>1. Arriving' = Arriving /\ HeldReports' = HeldReports
    BY <1>0, <1>6, NothingArrives, NothingWillArrive, SameHeld
  <2> QED
    BY <1>1, <1>6, <2>1 DEF Pending
<1>7. TypeOK'
  BY NextType
<1>8. CASE PumpDone
  <2>1. UNCHANGED <<r, req, queue, shown>>
    BY <1>8 DEF PumpDone, mainVars
  <2> QED
    BY <1>6, <1>7, <1>8, <2>1, PumpDoneFifo
<1>9. CASE PumpSetup
  <2>1. CASE Deconfigure
    <3>1. UNCHANGED <<r, req, queue, shown>>
      BY <2>1 DEF Deconfigure, mainVars
    <3> QED
      BY <1>6, <1>7, <1>9, <3>1, PumpSetupFifo
  <2>2. CASE Configure
    BY <1>0, <1>9, <2>2, ConfigureLoses DEF Device!Next
  <2> QED
    BY <1>9, <2>1, <2>2 DEF PumpSetup, usb_event_cb
<1>10. CASE HostOut
  BY <1>0, <1>10, HostOutAccepts DEF Device!Next
<1>11. ASSUME NEW c \in {0, 1}, SetConfiguration(c)
       PROVE  UNCHANGED Device!vars
  <2>1. /\ UNCHANGED <<r, req, queue, shown>> /\ rxFifo' = Append(rxFifo, Setup(c))
    BY <1>11 DEF SetConfiguration, mainVars
  <2>2. /\ Len(rxFifo) \in Nat /\ rxFifo' \in Seq(Entry) /\ Len(rxFifo') = Len(rxFifo) + 1
        /\ \A i \in 1 .. Len(rxFifo) : rxFifo'[i] = rxFifo[i]
        /\ rxFifo'[Len(rxFifo) + 1].kind = "setup"
    BY <1>0, <2>1, FifoSetup DEF Setup
  <2>3. rxFifo' # <<>>
    BY <2>2, EmptySeq
  <2>4. CASE Len(rxFifo) = 0
    <3>1. rxFifo = <<>> /\ rxFifo'[1].kind = "setup"
      BY <1>0, <2>2, <2>4, FifoTail
    <3> QED
      BY <1>1, <2>1, <3>1, SameHeld DEF Arriving, Pending
  <2>5. CASE Len(rxFifo) # 0
    <3>1. rxFifo # <<>> /\ rxFifo'[1] = rxFifo[1]
      BY <2>2, <2>5, EmptySeq
    <3> QED
      BY <1>1, <2>1, <2>3, <3>1, SameHeld DEF Arriving, Pending
  <2> QED
    BY <2>4, <2>5
<1>12. CASE BusReset
  BY <1>0, <1>12, BusResetLoses DEF Device!Next
<1> QED
  BY <1>2, <1>3, <1>4, <1>5, <1>8, <1>9, <1>10, <1>11, <1>12
     DEF Next, Main, Pump, Host, Poll, Notify, Prepare, Start, Send, PumpCount,
         PumpIn, UseNull, HostIn, mainVars, outVars, vars

(* A device that starts holds nothing and shows nothing. *)
LEMMA InitIsDevice == Init => Device!Init
<1> SUFFICES ASSUME Init PROVE Device!Init
  OBVIOUS
<1>1. IInv /\ OrderInv /\ r + Len(queue) = 0 * ReportSize /\ rxFifo = <<>> /\ shown = Zeroes
  BY InitIInv, InitOrderInv, EmptySeq DEF Init
<1>2. HeldReports = [i \in 1 .. 0 |-> Held(i * ReportSize).id]
  BY <1>1, WholeDiv DEF HeldReports
<1>3. HeldReports = <<>> /\ Arriving = <<>>
  BY <1>1, <1>2 DEF Arriving
<1>4. Pending = <<>>
  BY <1>3, EmptySeq, ConcatEmptySeq DEF Pending
<1>5. ShownReport = 0
  BY <1>1 DEF ShownReport, Zeroes
<1> QED
  BY <1>4, <1>5 DEF Device!Init

(* The firmware, with its queue, its FIFO, its two re-arming places and its   *)
(* resets, shows each acknowledged report once, whole and in order, and loses *)
(* only the newest: it implements LedDevice.                                  *)
THEOREM Implements == Spec => ImplementsDevice
<1>1. Init => Device!Init
  BY InitIsDevice
<1>2. IInv /\ OrderInv /\ [Next]_vars => [Device!Next]_(Device!vars)
  BY NextIsDeviceStep
<1> QED
  BY <1>1, <1>2, Invariance, Ordered, PTL DEF Spec, ImplementsDevice, Device!Spec
=============================================================================
