-------------------------------- MODULE Lamp --------------------------------
(***************************************************************************)
(* The whole lamp: the host's processes (HostLibrary) on one end of the    *)
(* bus, the firmware (UsbFirmware) on the other.  A bulk write completes in*)
(* the step in which the firmware's OUT endpoint acknowledges the report,  *)
(* a bulk read in the step that collects the echo, and both last as long as*)
(* the other end makes them.                                               *)
(***************************************************************************)
EXTENDS UsbFirmware, HostLibrary

VARIABLE before  \* the reports sent before the newest bus reset

lampVars == <<vars, libVars, before>>

LampInit == Init /\ LibInit /\ before = 0

-----------------------------------------------------------------------------

(* The firmware on its own. *)
Firmware(A) == A /\ UNCHANGED <<libVars, before>>

(* A process on its own. *)
Process(A) == A /\ UNCHANGED <<vars, before>>

(* The host controller offers the report of a pending write to the endpoint. *)
Write(p) == HostOut /\ Written(p, sent + 1) /\ UNCHANGED before

(* Mutant of Read: the reply is taken from ans_pkt when the host asks for it. *)
ReadLate(p) == HostIn /\ Answered(p, ans[1].id) /\ UNCHANGED before

(* The host controller asks for the echo of a pending read. *)
Read(p) == HostIn /\ Answered(p, inFifo[1].id) /\ UNCHANGED before

(* The kernel configures the lamp when it is plugged in, before any process   *)
(* can open it.                                                               *)
Enumerate == ~configured /\ SetConfiguration(1) /\ UNCHANGED <<libVars, before>>

(* The lamp leaves the bus and comes back: it has its own power supply, and   *)
(* its firmware sees a bus reset.                                             *)
Unplug == BusReset /\ Unplugged /\ before' = sent

ClientStep(p) ==
  \/ Process(Open(p, configured))
  \/ Process(Claim(p))
  \/ Process(InitFails(p))
  \/ Process(sent < MaxReports /\ Call(p))
  \/ Process(Crash(p))
  \/ Process(TimesOut(p))
  \/ Process(NoDevice(p))
  \/ Process(Release(p))
  \/ Process(Kill(p))

LampNext ==
  \/ Firmware(Main)
  \/ Firmware(Pump)
  \/ Firmware(UseNull)
  \/ Enumerate
  \/ Unplug
  \/ \E p \in Clients : Write(p) \/ Read(p) \/ ClientStep(p)

(* The firmware's two threads run, and the host controller serves a pending   *)
(* transfer; no timeout, command or exit is owed.                             *)
LampSpec == /\ LampInit /\ [][LampNext]_lampVars
            /\ WF_lampVars(Firmware(Main)) /\ WF_lampVars(Firmware(Pump))
            /\ \A p \in Clients : /\ WF_lampVars(Write(p))
                                  /\ WF_lampVars(Read(p))

-----------------------------------------------------------------------------

LampTypeOK ==
  /\ pc \in [Clients -> {"off", "opened", "ready", "write", "read", "window"}]
  /\ handle \in [Clients -> {"null", "live", "gone", "closed"}]
  /\ owner \in Clients \cup {None}
  /\ asked \in [Clients -> 0 .. sent] /\ answer \in [Clients -> 0 .. echoed]
  /\ faults \in 0 .. MaxFaults
  /\ before \in 0 .. sent

(* Two processes never have transfers on the lamp at the same time, and every *)
(* transfer is on a handle that init has claimed the interface with (init,    *)
(* release; the kernel takes the claim of a process that is killed).          *)
OwnedTransfers ==
  \A p \in Clients :
    pc[p] \in {"write", "read"} /\ handle[p] = "live" => owner = p

(* Before any timeout or kill an answer of send_recv_pkt is the echo of its   *)
(* own request.  Each of them may leave an echo behind, and nothing in the    *)
(* protocol tells it from the next; still, it puts the answers at most one    *)
(* request further behind, and an answer is never of a later request.         *)
AnswerLag ==
  [][\A p \in Clients : Read(p) => /\ answer'[p] <= asked[p]
                                   /\ asked[p] - answer'[p] <= faults]_lampVars

(* An answer certifies that the LEDs have shown the request that it echoes,   *)
(* though the reply is sent from one static buffer that later requests reuse. *)
AnswerIsShown ==
  \A p \in Clients : pc[p] \in {"ready", "window"} => answer[p] <= shown[1].id

(* An echo from before a bus reset is never offered after it, though the      *)
(* reset leaves the queue, the pending bit and the reading thread as they are.*)
NoEchoAcrossReset == inFifo # <<>> => inFifo[1].id > before

(* Neither thread of the firmware has a step to take: the main thread waits in*)
(* read_pkt, or for a configuration, and the pump has nothing to serve.       *)
Resting == /\ mpc = "wait" \/ (mpc = "poll" /\ ~configured)
           /\ pump = "idle" /\ rxFifo = <<>> /\ ~txPending

(* The host and the lamp never wait for each other: when the firmware rests,  *)
(* the endpoint accepts the report that a process writes, and the echo that a *)
(* process reads for is there, whatever timeouts, kills and unplugs came      *)
(* before (send_recv_pkt against loop_tick, ep1out_cb and inotify).           *)
NoStandstill ==
  Resting => \A p \in Clients : handle[p] = "live" =>
               /\ pc[p] = "write" => Accepting
               /\ pc[p] = "read" => configured /\ inFifo # <<>>

(* While no call has timed out and no process was killed, usb_send_data never *)
(* finds the IN endpoint busy, so no echo is dropped, though loop_tick would  *)
(* not notice: an echo that is owed is alone in the firmware, whoever sends   *)
(* the next report and whatever an unplug has left behind.                    *)
NoEchoDropped ==
  faults = 0 /\ transmitting => /\ mpc # "send"
                                /\ r = 0 /\ queue = <<>> /\ ~Queued("data")

(* The inductive invariant that OwnedTransfers, AnswerIsShown, AnswerLag,     *)
(* NoEchoAcrossReset and NoStandstill follow from, on top of IInv and         *)
(* OrderInv.                                                                  *)

(* From its claim on, a handle that is good belongs to the interface's owner. *)
ClaimedHandles ==
  \A p \in Clients :
    pc[p] \in {"ready", "write", "read", "window"} /\ handle[p] = "live" => owner = p

Reading(p) == pc[p] = "read" /\ handle[p] = "live"

(* Nobody has sent a report since the one the reader waits for. *)
ReaderIsNewest == \A p \in Clients : Reading(p) => asked[p] = sent

(* At most n reports were sent since the newest echo or the newest bus reset. *)
Behind(n) == sent <= echoed + n \/ sent <= before + n

(* The reports without an echo: one for each fault, and the reader's own. *)
Backlog == /\ Behind(faults + 1)
           /\ (\A p \in Clients : ~Reading(p)) => Behind(faults)

(* Nothing that can still become an echo is from before the newest bus reset, *)
(* once the configuration after it has emptied the queue and the IN state.    *)
EchoFresh ==
  /\ inFifo # <<>> => configured /\ inFifo[1].id > before
  /\ configured => /\ \A i \in DOMAIN queue : queue[i].id > before
                   /\ r > 0 => req[r].id > before
                   /\ txLeft \/ mpc = "send" => ans[1].id > before
  /\ \A i \in DOMAIN rxFifo : /\ rxFifo[i].kind = "data" => rxFifo[i].arg > before
                              /\ rxFifo[i].kind = "setup" => rxFifo[i].arg = 1

(* A good handle is one to a lamp that is configured. *)
LiveIsConfigured == \A p \in Clients : handle[p] = "live" => configured

(* What the reader waits for is on its way through the firmware. *)
EchoOwed ==
  \A p \in Clients : Reading(p) =>
    transmitting \/ mpc = "send" \/ r > 0 \/ queue # <<>> \/ Queued("data")

LampInv == /\ LampTypeOK /\ ClaimedHandles /\ ReaderIsNewest /\ Backlog /\ EchoFresh
           /\ LiveIsConfigured /\ ReplyState /\ EchoOwed

(* Every call returns, and not for its timeout: the firmware accepts every    *)
(* request and always has an echo for the read that follows, also after the   *)
(* kills and timeouts of others, unless the lamp is unplugged.                *)
CallReturns ==
  \A p \in Clients : pc[p] \in {"write", "read"} ~>
                       \/ pc[p] \notin {"write", "read"}
                       \/ handle[p] = "gone" \/ mpc = "lost"

-----------------------------------------------------------------------------
(* The refinement of LampService. *)

Service == INSTANCE LampService WITH holder <- owner, waits <- {p \in Clients : Reading(p)},
                                     shown <- shown[1].id, collected <- echoed, floor <- before

(* Library, bus and firmware together are the service that programs count on: *)
(* send_recv_pkt's transfers, the claim in init and release, and everything   *)
(* between usbcfg.c's queue and loop_tick are steps of it or none.            *)
ImplementsService == Service!Spec
=============================================================================
