---------------------------- MODULE UsbFirmware ----------------------------
(***************************************************************************)
(* The USB path of the lamp's firmware (app/usbcfg.c, app/main.c and the   *)
(* packet loop of app/proto.c) running on ChibiOS/RT 2.6 and the STM32 OTG *)
(* core, whose behaviour is external here.                                 *)
(*                                                                         *)
(* Three parties share the input queue and the endpoint flags:             *)
(*   - the main thread: loop_tick reads one report byte by byte, evaluates *)
(*     it and sends the echo;                                              *)
(*   - the driver's pump thread, of the lowest priority (mcuconf.h:228):   *)
(*     it empties the RX FIFO and fills the TX FIFO, and the interrupts    *)
(*     its reads release run ep1out_cb and usb_event_cb;                   *)
(*   - the bus: reports, reply tokens and SETUP packets of the host, and   *)
(*     bus resets, which interrupt the main thread wherever interrupts are *)
(*     not masked.                                                         *)
(* A byte of a report is a unit [id, k]: unit k of report id.  A report    *)
(* has ReportSize units, and the hosts of the repository always send whole *)
(* reports.  id 0 stands for the zeroes of the static buffers.             *)
(***************************************************************************)
EXTENDS Naturals, Sequences

CONSTANTS
  ReportSize,    \* OUT_REPORT_SIZE, IN_REPORT_SIZE (64 in the code)
  MaxReports,    \* bound: reports the host sends
  MaxResets,     \* bound: bus resets
  MaxConfigs,    \* bound: SET_CONFIGURATION requests
  Reconfigures   \* may the host set a configuration without a bus reset before it

ASSUME FirmwareAssumption ==
  /\ ReportSize \in Nat \ {0}
  /\ MaxReports \in Nat /\ MaxResets \in Nat /\ MaxConfigs \in Nat
  /\ Reconfigures \in BOOLEAN

(* usbcfg.h:37,46: the queue stores two OUT reports. *)
QueueSize == 2 * ReportSize

VARIABLES
  configured,   \* USBD1.state = USB_ACTIVE, which is when epc[1] is not NULL:
                \* both change in one interrupt (SET_CONFIGURATION, bus reset)
  receiving,    \* the bit of endpoint 1 in USBD1.receiving
  transmitting, \* the bit of endpoint 1 in USBD1.transmitting
  nak,          \* OTG core: OUT endpoint 1 refuses packets (NAKSTS)
  pktcnt,       \* OTG core: packets OUT endpoint 1 still expects (DOEPTSIZ)
  rxFifo,       \* OTG core: RX FIFO entries, oldest first
  txPending,    \* the bit of endpoint 1 in USBD1.txpending
  txLeft,       \* IN endpoint state: txcnt < txsize, a buffer is left to copy
  inFifo,       \* OTG core: the reply in the TX FIFO, <<>> when there is none
  queue,        \* usb_input_queue, unread units, oldest first
  mpc,          \* where the main thread is; "lost" once a NULL epc was used
  r,            \* chIQReadTimeout's count of the units read so far
  req,          \* req_pkt
  ans,          \* ans_pkt
  shown,        \* the packet eval_pkt evaluated last
  pump,         \* where the pump thread is: "idle", or "count" between waking
                \* the reader of the queue and adding to rxcnt
  sent,         \* reports the host has sent (the id of the newest)
  echoed,       \* id of the newest reply the host has collected
  resets,       \* bus resets so far
  configs       \* SET_CONFIGURATION requests so far

usbVars  == <<configured, receiving, transmitting>>
outVars  == <<nak, pktcnt, rxFifo>>
inVars   == <<txPending, txLeft, inFifo>>
mainVars == <<mpc, r, req, ans, shown>>
hostVars == <<sent, echoed, resets, configs>>
vars == <<usbVars, outVars, inVars, queue, mainVars, pump, hostVars>>

-----------------------------------------------------------------------------
(* Reports and FIFO entries. *)

Unit   == [id : 0 .. MaxReports, k : 0 .. ReportSize]
Packet == [1 .. ReportSize -> Unit]
Units(id) == [k \in 1 .. ReportSize |-> [id |-> id, k |-> k]]
Zeroes == [k \in 1 .. ReportSize |-> [id |-> 0, k |-> 0]]

Entry == [kind : {"data", "done", "setup"}, arg : 0 .. MaxReports + 1]
Data(id) == [kind |-> "data", arg |-> id]
Done     == [kind |-> "done", arg |-> 0]
Setup(c) == [kind |-> "setup", arg |-> c]

Queued(kind) == \E i \in DOMAIN rxFifo : rxFifo[i].kind = kind

(* Mutant of HasRoom: any free byte is taken for a free report. *)
HasAnyRoom == Len(queue) < QueueSize

(* chIQGetEmptyI(&usb_input_queue) >= OUT_REPORT_SIZE *)
HasRoom == Len(queue) + ReportSize <= QueueSize

(* OUT endpoint 1 acknowledges the next packet of the host. *)
Accepting == configured /\ ~nak /\ pktcnt = 1

(* usbStartReceiveI: nothing when the endpoint is busy, else busy and CNAK. *)
StartReceive == /\ receiving' = TRUE
                /\ nak' = (nak /\ receiving)

-----------------------------------------------------------------------------
(* The main thread. *)

(* main.c polls the driver's state, then enters loop_tick. *)
Poll == /\ mpc = "poll" /\ configured
        /\ mpc' = "notify"
        /\ UNCHANGED <<usbVars, outVars, inVars, queue, r, req, ans, shown,
                       pump, hostVars>>

(* Mutant of Notify: the queue has no notification, as with a NULL in chIQInit.*)
NotifyNothing == /\ mpc = "notify"
                 /\ mpc' = "take"
                 /\ UNCHANGED <<usbVars, outVars, inVars, queue, r, req, ans,
                                shown, pump, hostVars>>

(* usb_input_queue_inotify up to its chSysUnlock, called before every byte.   *)
Notify == /\ mpc = "notify"
          /\ mpc' = IF configured /\ HasRoom THEN "prepare" ELSE "take"
          /\ UNCHANGED <<usbVars, outVars, inVars, queue, r, req, ans, shown,
                         pump, hostVars>>

(* usbPrepareQueuedReceive, outside of the lock: DOEPTSIZ is written even     *)
(* when a reception is under way.                                             *)
Prepare == /\ mpc = "prepare" /\ configured
           /\ pktcnt' = 1
           /\ mpc' = "start"
           /\ UNCHANGED <<usbVars, nak, rxFifo, inVars, queue, r, req, ans,
                          shown, pump, hostVars>>

(* usbStartReceiveI, the lock taken again: it stays held until Take. *)
Start == /\ mpc = "start"
         /\ StartReceive
         /\ mpc' = "take"
         /\ UNCHANGED <<configured, transmitting, pktcnt, rxFifo, inVars, queue,
                        r, req, ans, shown, pump, hostVars>>

(* Mutant of Take: read_pkt asks for one byte more than a report. *)
TakeOneMore == /\ mpc = "take" /\ queue # <<>>
               /\ req' = [req EXCEPT ![r + 1] = Head(queue)]
               /\ queue' = Tail(queue)
               /\ r' = r + 1
               /\ mpc' = IF r = ReportSize THEN "eval" ELSE "notify"
               /\ UNCHANGED <<usbVars, outVars, inVars, ans, shown, pump, 
                              hostVars>>

(* chIQReadTimeout: block on an empty queue, else take one byte. *)
Take == /\ mpc = "take"
        /\ \/ /\ queue = <<>>
              /\ mpc' = "wait"
              /\ UNCHANGED <<queue, r, req>>
           \/ /\ queue # <<>>
              /\ req' = [req EXCEPT ![r + 1] = Head(queue)]
              /\ queue' = Tail(queue)
              /\ r' = r + 1
              /\ mpc' = IF r + 1 = ReportSize THEN "eval" ELSE "notify"
        /\ UNCHANGED <<usbVars, outVars, inVars, ans, shown, pump, hostVars>>

(* Mutant of Eval: ans_pkt is evaluated, before the request is copied to it. *)
EvalAnswer == /\ mpc = "eval"
              /\ shown' = ans
              /\ ans' = req
              /\ r' = 0
              /\ mpc' = "send"
              /\ UNCHANGED <<usbVars, outVars, inVars, queue, req, pump, hostVars>>

(* Mutant of Eval: the request is not copied to ans_pkt. *)
EvalUncopied == /\ mpc = "eval"
                /\ shown' = req
                /\ r' = 0
                /\ mpc' = "send"
                /\ UNCHANGED <<usbVars, outVars, inVars, queue, req, ans, pump, hostVars>>

(* loop_tick evaluates the packet and copies it to ans_pkt. *)
Eval == /\ mpc = "eval"
        /\ shown' = req
        /\ ans' = req
        /\ r' = 0
        /\ mpc' = "send"
        /\ UNCHANGED <<usbVars, outVars, inVars, queue, req, pump, hostVars>>

(* Mutant of Send: the transmission is prepared and marked but not started. *)
SendUnstarted == /\ mpc = "send"
                 /\ mpc' = "notify"
                 /\ txLeft' = (txLeft \/ configured)
                 /\ transmitting' = (transmitting \/ configured)
                 /\ UNCHANGED <<configured, receiving, outVars, txPending, inFifo,
                                queue, r, req, ans, shown, pump, hostVars>>

(* usb_send_data: the buffer is prepared before the busy bit is looked at; a  *)
(* busy endpoint drops the reply, and loop_tick ignores the result.           *)
Send == /\ mpc = "send"
        /\ mpc' = "notify"
        /\ txLeft' = (txLeft \/ configured)
        /\ transmitting' = (transmitting \/ configured)
        /\ txPending' = (txPending \/ (configured /\ ~transmitting))
        /\ UNCHANGED <<configured, receiving, outVars, inFifo, queue, r, req, ans,
                       shown, pump, hostVars>>

Main == Poll \/ Notify \/ Prepare \/ Start \/ Take \/ Eval \/ Send

-----------------------------------------------------------------------------
(* The pump thread and the interrupts its FIFO reads release. *)

(* Mutant of PumpMayRun: the pump has the main thread's priority or a higher one. *)
PumpPreempts == TRUE

(* LOWPRIO against the main thread's NORMALPRIO: the pump runs only while the *)
(* main thread sleeps in its polling loop or waits for the queue.             *)
PumpMayRun == mpc \in {"poll", "wait"}

(* A data entry goes to the queue; the reader is woken and preempts the pump. *)
(* A bus reset that flushes the FIFO between two words of the copy is left    *)
(* out: what the later words would be is undefined.                           *)
PumpData == /\ PumpMayRun /\ pump = "idle"
            /\ rxFifo # <<>> /\ Head(rxFifo).kind = "data"
            /\ rxFifo' = Tail(rxFifo)
            /\ queue' = queue \o Units(Head(rxFifo).arg)
            /\ mpc' = IF mpc = "wait" THEN "take" ELSE mpc
            /\ pump' = "count"
            /\ UNCHANGED <<usbVars, nak, pktcnt, inVars, r, req, ans, shown,
                           hostVars>>

(* The pump resumes and adds to the rxcnt it finds through epc[1]. *)
PumpCount == /\ PumpMayRun /\ pump = "count" /\ configured
             /\ pump' = "idle"
             /\ UNCHANGED <<usbVars, outVars, inVars, queue, mainVars, hostVars>>

(* ep1out_cb once the driver has cleared the busy bit: it arms the next       *)
(* reception only if the queue has room for a whole report.                   *)
ep1out_cb == IF HasRoom
             THEN receiving' = TRUE /\ pktcnt' = 1 /\ nak' = FALSE
             ELSE receiving' = FALSE /\ UNCHANGED <<pktcnt, nak>>

(* Reading the transfer-complete entry raises the endpoint's interrupt. *)
PumpDone == /\ PumpMayRun /\ pump = "idle"
            /\ rxFifo # <<>> /\ Head(rxFifo).kind = "done"
            /\ rxFifo' = Tail(rxFifo)
            /\ ep1out_cb
            /\ UNCHANGED <<configured, transmitting, inVars, queue, mainVars,
                           pump, hostVars>>

(* usb_event_cb(USB_EVENT_CONFIGURED) with configuration 0: the endpoints are *)
(* disabled, but usbDisableEndpointsI clears the busy bits of endpoint 0 only.*)
Deconfigure == /\ configured' = FALSE
               /\ pktcnt' = 0
               /\ UNCHANGED <<receiving, transmitting, nak, inVars, queue, mainVars>>

(* Mutant of HasRead: loop_tick tests the result of read_pkt with >=. *)
HasNotFailed(n) == n >= 0

(* loop_tick: read_pkt(&req_pkt, timeout) > 0 *)
HasRead(n) == n > 0
ReadReturns == IF HasRead(r) THEN "eval" ELSE "notify"

(* Mutant of Configure: the endpoints are not initialised anew. *)
ConfigureKeepsReply == /\ configured' = TRUE
                       /\ queue' = <<>>
                       /\ pktcnt' = 1 /\ StartReceive
                       /\ mpc' = IF mpc = "wait" THEN ReadReturns ELSE mpc
                       /\ UNCHANGED <<transmitting, txPending, txLeft, inFifo, r, req,
                                      ans, shown>>

(* usb_event_cb with another configuration: usbInitEndpointI clears the IN    *)
(* state and flushes the TX FIFO, chIQResetI empties the queue and lets a     *)
(* waiting read return what it has, and the reception is armed.               *)
Configure == /\ configured' = TRUE
             /\ txLeft' = FALSE /\ inFifo' = <<>>
             /\ queue' = <<>>
             /\ pktcnt' = 1 /\ StartReceive
             /\ mpc' = IF mpc = "wait" THEN ReadReturns ELSE mpc
             /\ UNCHANGED <<transmitting, txPending, r, req, ans, shown>>

usb_event_cb(conf) == IF conf = 0 THEN Deconfigure ELSE Configure

PumpSetup == /\ PumpMayRun /\ pump = "idle"
             /\ rxFifo # <<>> /\ Head(rxFifo).kind = "setup"
             /\ rxFifo' = Tail(rxFifo)
             /\ usb_event_cb(Head(rxFifo).arg)
             /\ UNCHANGED <<pump, hostVars>>

(* The RX FIFO being empty, the pump serves the IN endpoint: it copies        *)
(* ans_pkt as it is now, if the IN state still names it.                      *)
PumpIn == /\ PumpMayRun /\ pump = "idle"
          /\ rxFifo = <<>> /\ txPending /\ configured
          /\ txPending' = FALSE
          /\ txLeft' = FALSE
          /\ inFifo' = IF txLeft THEN ans ELSE inFifo
          /\ UNCHANGED <<usbVars, outVars, queue, mainVars, pump, hostVars>>

Pump == PumpData \/ PumpCount \/ PumpDone \/ PumpSetup \/ PumpIn

(* After a bus reset epc[1] is NULL, and three places use it unchecked: the   *)
(* notification outside of its lock, the pump that was preempted, and the     *)
(* pump serving a reply that was pending.  Nothing after that is modelled.    *)
UseNull == /\ ~configured
           /\ \/ mpc = "prepare"
              \/ PumpMayRun /\ pump = "count"
              \/ PumpMayRun /\ pump = "idle" /\ rxFifo = <<>> /\ txPending
           /\ mpc' = "lost"
           /\ UNCHANGED <<usbVars, outVars, inVars, queue, r, req, ans, shown, pump,
                          hostVars>>

-----------------------------------------------------------------------------
(* The bus.  While a SETUP packet waits the host sends and asks for nothing   *)
(* else: it has stopped the transfers of the interface before.                *)

HostOut == /\ mpc # "lost" /\ Accepting /\ ~Queued("setup") /\ sent < MaxReports
           /\ sent' = sent + 1
           /\ rxFifo' = rxFifo \o <<Data(sent + 1), Done>>
           /\ nak' = TRUE /\ pktcnt' = 0
           /\ UNCHANGED <<usbVars, inVars, queue, mainVars, pump, 
                          echoed, resets, configs>>

(* The host collects a reply; the interrupt clears the busy bit and calls     *)
(* ep1in_cb, which does nothing.                                              *)
HostIn == /\ mpc # "lost" /\ configured /\ ~Queued("setup") /\ inFifo # <<>>
          /\ inFifo' = <<>>
          /\ transmitting' = FALSE
          /\ echoed' = inFifo[1].id
          /\ UNCHANGED <<configured, receiving, outVars, txPending, txLeft, queue,
                         mainVars, pump, sent, resets, configs>>

SetConfiguration(c) == /\ mpc # "lost" /\ ~Queued("setup") /\ configs < MaxConfigs
                       /\ Reconfigures \/ (c = 1 /\ ~configured)
                       /\ configs' = configs + 1
                       /\ rxFifo' = Append(rxFifo, Setup(c))
                       /\ UNCHANGED <<usbVars, nak, pktcnt, inVars, queue, mainVars,
                                      pump, sent, echoed, resets>>

(* Mutant of BusReset: the busy bits survive the reset. *)
BusResetStillBusy == /\ mpc \notin {"take", "lost"} /\ resets < MaxResets
                     /\ resets' = resets + 1
                     /\ configured' = FALSE
                     /\ nak' = TRUE
                     /\ rxFifo' = <<>> /\ inFifo' = <<>>
                     /\ UNCHANGED <<receiving, transmitting, pktcnt, txPending, txLeft,
                                    queue, mainVars, pump, sent, echoed,
                                    configs>>

(* The reset interrupt is masked only while the main thread holds the lock    *)
(* between Notify or Start and Take.  The queue, txpending and the threads    *)
(* are left as they are.                                                      *)
BusReset == /\ mpc \notin {"take", "lost"} /\ resets < MaxResets
            /\ resets' = resets + 1
            /\ configured' = FALSE /\ receiving' = FALSE /\ transmitting' = FALSE
            /\ nak' = TRUE
            /\ rxFifo' = <<>> /\ inFifo' = <<>>
            /\ UNCHANGED <<pktcnt, txPending, txLeft, queue, mainVars, pump,
                           sent, echoed, configs>>

Host == HostOut \/ HostIn \/ (\E c \in {0, 1} : SetConfiguration(c)) \/ BusReset

-----------------------------------------------------------------------------

(* init_usb_driver has run: the queue is empty and the bus connected. *)
Init == /\ configured = FALSE /\ receiving = FALSE /\ transmitting = FALSE
        /\ nak = TRUE /\ pktcnt = 0 /\ rxFifo = <<>>
        /\ txPending = FALSE /\ txLeft = FALSE /\ inFifo = <<>>
        /\ queue = <<>>
        /\ mpc = "poll" /\ r = 0
        /\ req = Zeroes /\ ans = Zeroes /\ shown = Zeroes
        /\ pump = "idle"
        /\ sent = 0 /\ echoed = 0 /\ resets = 0 /\ configs = 0

Next == Main \/ Pump \/ UseNull \/ Host

Spec == Init /\ [][Next]_vars

(* The main thread runs whenever it is not blocked and the pump whenever the  *)
(* main thread is; the host and the bus owe nothing.                          *)
FairSpec == Spec /\ WF_vars(Main) /\ WF_vars(Pump)

-----------------------------------------------------------------------------
(* Invariants. *)

TypeOK ==
  /\ configured \in BOOLEAN /\ receiving \in BOOLEAN /\ transmitting \in BOOLEAN
  /\ nak \in BOOLEAN /\ pktcnt \in {0, 1} /\ rxFifo \in Seq(Entry)
  /\ txPending \in BOOLEAN /\ txLeft \in BOOLEAN
  /\ inFifo \in Packet \cup {<<>>}
  /\ queue \in Seq(Unit)
  /\ mpc \in {"poll", "notify", "prepare", "start", "take", "wait", "eval", "send",
             "lost"}
  /\ r \in 0 .. ReportSize
  /\ req \in Packet /\ ans \in Packet /\ shown \in Packet
  /\ pump \in {"idle", "count"}
  /\ sent \in 0 .. MaxReports /\ echoed \in 0 .. MaxReports
  /\ resets \in 0 .. MaxResets /\ configs \in 0 .. MaxConfigs

(* The pump copies a report to the queue without looking for room, so the     *)
(* room has to be there before the host's packet is acknowledged: whenever    *)
(* the endpoint accepts, or has accepted a report the pump has not copied     *)
(* yet, the queue has room for one more report (ep1out_cb, inotify).          *)
RoomReserved ==
  /\ Len(queue) <= QueueSize
  /\ ~nak \/ Queued("data") => Len(queue) + ReportSize <= QueueSize

(* The queue is a stream of bytes and every reset of it or of the reader may  *)
(* tear a report; still, what eval_pkt is given is one whole report, and the  *)
(* reader never blocks in the middle of one (read_pkt, chIQResetI).           *)
WholeReports ==
  /\ mpc = "eval" => \E id \in 1 .. MaxReports : req = Units(id)
  /\ mpc = "wait" => r = 0

(* The driver's busy bit and the hardware agree: the bit is set exactly while *)
(* the endpoint accepts or an accepted packet is still to be completed.  A    *)
(* bit set with neither would make every later usbStartReceiveI a no-op.      *)
BusyIsTrue == receiving <=> (~nak \/ Queued("done"))

(* Two places re-arm the reception, the interrupt and the reader, and each    *)
(* leaves it to the other when it finds no room or a busy endpoint.  Between  *)
(* them none is forgotten: a reader that waits with nothing in flight is a    *)
(* reader whose endpoint accepts.                                             *)
NeverDeaf ==
  mpc = "wait" /\ configured /\ pump = "idle" /\ rxFifo = <<>> => Accepting

(* The same for the IN side: a busy bit stands for a reply that the pump is   *)
(* about to copy or that the host can collect.                                *)
TransmitIsTrue == transmitting => inFifo # <<>> \/ (txPending /\ txLeft)

(* Two threads go on with an endpoint that they have looked at before: the    *)
(* reader between inotify's check and usbPrepareQueuedReceive, the pump when  *)
(* it has woken the reader in the middle of a packet.  Only a bus reset gets  *)
(* between and takes the endpoint away; no SET_CONFIGURATION does.            *)
RaceNeedsReset == (mpc = "prepare" \/ pump = "count") /\ ~configured => resets > 0

(* The inductive invariant that the first four of these follow from. *)

(* At most one received report is in the FIFO, data before its completion,    *)
(* and a SETUP packet only behind it; a bus reset flushes what it disables.   *)
FifoShape ==
  \A i \in DOMAIN rxFifo :
    LET e == rxFifo[i] IN
      /\ e.kind = "data" => /\ configured /\ e.arg \in 1 .. MaxReports
                            /\ i = 1 /\ Len(rxFifo) >= 2 /\ rxFifo[2].kind = "done"
      /\ e.kind = "done" => /\ configured
                            /\ i = 1 \/ (i = 2 /\ rxFifo[1].kind = "data")
      /\ e.kind = "setup" => i = Len(rxFifo) /\ e.arg \in {0, 1}

(* An endpoint that accepts is busy and has nothing to complete. *)
AcceptingIsBusy ==
  /\ BusyIsTrue
  /\ ~nak => ~Queued("done")
  /\ ~nak /\ configured => pktcnt = 1

(* The room inotify saw is still there when it starts the reception, and the  *)
(* reception it prepared is still the one it starts.                          *)
NotifyWindow ==
  /\ mpc \in {"prepare", "start"} => HasRoom
  /\ mpc = "start" /\ configured /\ ~receiving => pktcnt = 1

Follows(u, v) == v = IF u.k < ReportSize THEN [id |-> u.id, k |-> u.k + 1]
                                         ELSE [id |-> v.id, k |-> 1]

(* What is read and what is queued are one stream of whole reports. *)
WholeStream ==
  /\ \A i \in DOMAIN queue : queue[i].id \in 1 .. MaxReports
  /\ \A i \in 1 .. Len(queue) - 1 : Follows(queue[i], queue[i + 1])
  /\ queue # <<>> => queue[Len(queue)].k = ReportSize
  /\ r \in {0, ReportSize} /\ queue # <<>> => queue[1].k = 1
  /\ r > 0 => /\ req[r].id \in 1 .. MaxReports
              /\ \A j \in 1 .. r : req[j] = [id |-> req[r].id, k |-> j]
  /\ r \in 1 .. ReportSize - 1 => queue # <<>> /\ Follows(req[r], queue[1])

(* Where the main thread is tells how much of a report it has read, and that  *)
(* an idle reader of an empty queue has armed the reception.                  *)
ReaderState ==
  /\ mpc = "eval" <=> r = ReportSize
  /\ mpc \in {"poll", "wait", "send"} => r = 0
  /\ mpc = "wait" => queue = <<>>
  /\ mpc \in {"take", "wait"} /\ queue = <<>> /\ configured => receiving

IInv == /\ TypeOK /\ FifoShape /\ AcceptingIsBusy /\ RoomReserved
        /\ NotifyWindow /\ WholeStream /\ ReaderState

(* What keeps TransmitIsTrue while the host only configures a device that a   *)
(* bus reset has left idle.                                                   *)
ReplyState ==
  /\ TransmitIsTrue
  /\ ~configured => ~transmitting
  /\ \A i \in DOMAIN rxFifo : rxFifo[i].kind = "setup" => ~configured /\ rxFifo[i].arg = 1

(* The invariants of the order of reports, on top of IInv. *)

(* The first of two units comes earlier on the bus. *)
Rises(u, v) == u.id < v.id \/ (u.id = v.id /\ u.k < v.k)

(* The reports shown, being read, queued and in the FIFO follow each other in *)
(* the order they were sent in, none twice.                                   *)
StreamOrder ==
  /\ shown[1].id <= sent
  /\ r > 0 => shown[1].id < req[r].id /\ req[r].id <= sent
  /\ \A i \in DOMAIN queue : /\ shown[1].id < queue[i].id /\ queue[i].id <= sent
                             /\ r > 0 => Rises(req[r], queue[i])
  /\ \A i, j \in DOMAIN queue : i < j => Rises(queue[i], queue[j])
  /\ \A i \in DOMAIN rxFifo : rxFifo[i].kind = "data" =>
       /\ shown[1].id < rxFifo[i].arg /\ rxFifo[i].arg <= sent
       /\ r > 0 => req[r].id < rxFifo[i].arg
       /\ \A j \in DOMAIN queue : queue[j].id < rxFifo[i].arg

(* The echoes collected, offered and in ans_pkt too; what the IN state may    *)
(* still have copied has been neither offered nor collected.                  *)
ReplyOrder ==
  /\ ans = shown
  /\ echoed <= ans[1].id
  /\ inFifo # <<>> => echoed < inFifo[1].id /\ inFifo[1].id <= ans[1].id
  /\ txLeft \/ mpc = "send" => /\ echoed < ans[1].id
                               /\ inFifo # <<>> => inFifo[1].id < ans[1].id

(* The units read and queued make up whole reports, and so does what is shown.*)
WholeCount ==
  /\ \E n \in 0 .. 3 : r + Len(queue) = n * ReportSize
  /\ shown = Zeroes \/ shown = Units(shown[1].id)

OrderInv == StreamOrder /\ ReplyOrder /\ WholeCount

-----------------------------------------------------------------------------
(* Action and liveness properties. *)

(* Replies are collected in the order of their requests and none twice, though*)
(* the one static ans_pkt is overwritten while an older echo may be pending.  *)
RepliesInOrder == [][HostIn => echoed' > echoed]_vars

(* Until a bus reset loses one, loop_tick evaluates every acknowledged report.*)
AcceptedIsShown ==
  \A id \in 1 .. MaxReports :
    (sent >= id /\ resets = 0) ~> (shown[1].id >= id \/ resets > 0)

(* However the reader and the interrupt interleave, an endpoint that refuses  *)
(* packets accepts again, unless a bus reset comes between.                   *)
AcceptsAgain == configured ~> (Accepting \/ ~configured \/ mpc = "lost")

(* A reply in the driver's hands reaches the TX FIFO, unless a bus reset takes*)
(* it: the main thread always blocks again and lets the pump run.             *)
ReplyIsOffered == transmitting ~> (inFifo # <<>> \/ ~transmitting \/ mpc = "lost")

-----------------------------------------------------------------------------
(* What comments of the code say and the code does not do. *)

(* usbcfg.c:266-272 and usbcfg.h:38-39: remaining reports wait in an output   *)
(* queue and ep1in_cb schedules them, so no reply is given up.                *)
RepliesAreQueued == [][Send /\ configured => ~transmitting]_vars

(* usbcfg.c:341: a SET_CONFIGURATION enables the endpoints.  The IN endpoint  *)
(* is enabled when its busy bit lets the next reply start.                    *)
ConfigurationEnablesIn ==
  [][PumpSetup /\ configured' => (transmitting' => inFifo' # <<>> \/ txLeft')]_vars

(* usbcfg.c:448-454: with room in the queue inotify prepares the reception    *)
(* of the next report, which needs endpoint 1 to exist when it does.          *)
NotifiesLiveEndpoint == ~(mpc = "prepare" /\ ~configured)

-----------------------------------------------------------------------------
(* The refinement of LedDevice. *)

(* The units the device holds: read by the current read_pkt, then queued. *)
Held(i) == IF i <= r THEN req[i] ELSE queue[i - r]

(* The reports of these units, and the one the pump has not copied. *)
HeldReports == [i \in 1 .. (r + Len(queue)) \div ReportSize |-> Held(i * ReportSize).id]
Arriving == IF rxFifo # <<>> /\ rxFifo[1].kind = "data" THEN <<rxFifo[1].arg>> ELSE <<>>
Pending == HeldReports \o Arriving

(* The report shown; a packet that is no whole report has no abstract value. *)
ShownReport == IF shown = Zeroes \/ shown = Units(shown[1].id)
               THEN shown[1].id ELSE MaxReports + 1

Device == INSTANCE LedDevice WITH Report <- 1 .. MaxReports, MaxPending <- 3,
                                  pending <- Pending, shown <- ShownReport

(* The firmware implements the device the host counts on. *)
ImplementsDevice == Device!Spec
=============================================================================
