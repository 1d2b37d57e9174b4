----------------------------- MODULE Lamp_proofs -----------------------------
(***************************************************************************)
(* Proofs about Lamp, for every number of processes, reports, resets and   *)
(* faults.  LampSpec implements Spec, so what is proved of the firmware    *)
(* holds of the lamp, and LampInv is inductive relative to IInv and        *)
(* OrderInv.                                                               *)
(***************************************************************************)
EXTENDS Lamp, UsbFirmware_refinement

USE FirmwareAssumption, LibraryAssumption

-----------------------------------------------------------------------------
(* The steps of the processes. *)

Places  == {"off", "opened", "ready", "write", "read", "window"}
Handles == {"null", "live", "gone", "closed"}
InCall  == {"ready", "write", "read", "window"}

(* Before and after its call a process is not in it. *)
LEMMA OutsideCall ==
  ASSUME NEW p
  PROVE  AfterCall(p) \in {"ready", "window"} /\ AfterFailure(p) \in {"off", "ready"}
  BY DEF AfterCall, AfterFailure

(* What every step of a process alone does: it touches its own place, handle  *)
(* and claim, ends outside of a read, and a read it ends costs a fault.       *)
LEMMA ClientAlone ==
  ASSUME LampTypeOK, NEW p \in Clients, ClientStep(p)
  PROVE  /\ UNCHANGED <<vars, before, asked, answer>>
         /\ pc' \in [Clients -> Places] /\ handle' \in [Clients -> Handles]
         /\ owner' \in Clients \cup {None} /\ faults' \in 0 .. MaxFaults
         /\ \A q \in Clients \ {p} : /\ pc'[q] = pc[q] /\ handle'[q] = handle[q]
                                     /\ owner = q => owner' = q
         /\ pc'[p] # "read" /\ faults <= faults'
         /\ Reading(p) => faults' = faults + 1
<1> USE DEF Process, Places, Handles, Goto, Reading, libVars
<1>0. /\ pc \in [Clients -> Places] /\ handle \in [Clients -> Handles]
      /\ owner \in Clients \cup {None} /\ faults \in 0 .. MaxFaults
      /\ MaxFaults \in Nat
  BY DEF LampTypeOK, LibraryAssumption
<1>1. CASE Process(Open(p, configured))
  BY <1>0, <1>1, OutsideCall DEF Open
<1>2. CASE Process(Claim(p))
  BY <1>0, <1>2 DEF Claim
<1>3. CASE Process(InitFails(p))
  BY <1>0, <1>3, OutsideCall DEF InitFails
<1>4. CASE Process(sent < MaxReports /\ Call(p))
  BY <1>0, <1>4 DEF Call
<1>5. CASE Process(Crash(p))
  BY <1>0, <1>5 DEF Crash
<1>6. CASE Process(TimesOut(p))
  BY <1>0, <1>6, OutsideCall DEF TimesOut
<1>7. CASE Process(NoDevice(p))
  BY <1>0, <1>7, OutsideCall DEF NoDevice
<1>8. CASE Process(Release(p))
  BY <1>0, <1>8, OutsideCall DEF Release, Disown
<1>9. CASE Process(Kill(p))
  BY <1>0, <1>9 DEF Kill, Disown
<1> QED
  BY <1>1, <1>2, <1>3, <1>4, <1>5, <1>6, <1>7, <1>8, <1>9 DEF ClientStep

(* A process alone gets a good handle into a call only by its claim. *)
LEMMA ClientClaims ==
  ASSUME LampTypeOK, ClaimedHandles, NEW p \in Clients, ClientStep(p)
  PROVE  ClaimedHandles'
<1> USE DEF Process, Goto, Reading, libVars
<1>0. /\ pc \in [Clients -> Places] /\ handle \in [Clients -> Handles]
      /\ owner \in Clients \cup {None} /\ None \notin Clients
  BY DEF LampTypeOK, Places, Handles, LibraryAssumption
<1>1. ASSUME pc'[p] \in InCall, handle'[p] = "live"
      PROVE  owner' = p
  <2> USE DEF InCall
  <2>1. CASE Process(Open(p, configured))
    BY <1>0, <1>1, <2>1 DEF Open, Places, Handles
  <2>2. CASE Process(Claim(p))
    BY <1>0, <1>1, <2>2 DEF Claim
  <2>3. CASE Process(InitFails(p))
    BY <1>0, <1>1, <2>3 DEF InitFails
  <2>4. CASE Process(sent < MaxReports /\ Call(p))
    BY <1>0, <1>1, <2>4 DEF Call, ClaimedHandles
  <2>5. CASE Process(Crash(p))
    BY <1>0, <1>1, <2>5 DEF Crash
  <2>6. CASE Process(TimesOut(p))
    BY <1>0, <1>1, <2>6 DEF TimesOut, ClaimedHandles
  <2>7. CASE Process(NoDevice(p))
    BY <1>0, <1>1, <2>7 DEF NoDevice
  <2>8. CASE Process(Release(p))
    BY <1>0, <1>1, <2>8 DEF Release
  <2>9. CASE Process(Kill(p))
    BY <1>0, <1>1, <2>9 DEF Kill
  <2> QED
    BY <2>1, <2>2, <2>3, <2>4, <2>5, <2>6, <2>7, <2>8, <2>9 DEF ClientStep
<1>2. ASSUME NEW q \in Clients \ {p}, pc'[q] \in InCall, handle'[q] = "live"
      PROVE  owner' = q
  <2>1. pc[q] \in InCall /\ handle[q] = "live" /\ (owner = q => owner' = q)
    BY <1>2, ClientAlone
  <2> QED
    BY <1>2, <2>1 DEF ClaimedHandles, InCall
<1> QED
  BY <1>1, <1>2 DEF ClaimedHandles, InCall

-----------------------------------------------------------------------------
(* The lamp implements the firmware's specification. *)

(* The steps of the firmware leave what the host has sent and collected. *)
LEMMA FirmwareQuiet ==
  ASSUME Main \/ Pump \/ UseNull
  PROVE  UNCHANGED hostVars
  BY DEF Main, Pump, UseNull, Poll, Notify, Prepare, Start, Take, Eval, Send,
         PumpData, PumpCount, PumpDone, PumpSetup, PumpIn, hostVars

(* Every step of the lamp is one of the firmware and its bus, or leaves them. *)
LEMMA LampStep == [LampNext]_lampVars => [Next]_vars
<1> SUFFICES ASSUME [LampNext]_lampVars PROVE Next \/ UNCHANGED vars
  OBVIOUS
<1>1. CASE Firmware(Main) \/ Firmware(Pump) \/ Firmware(UseNull)
  BY <1>1 DEF Firmware, Next
<1>2. CASE Enumerate
  BY <1>2 DEF Enumerate, Next, Host
<1>3. CASE Unplug
  BY <1>3 DEF Unplug, Next, Host
<1>4. ASSUME NEW p \in Clients, Write(p) \/ Read(p) PROVE Next
  BY <1>4 DEF Write, Read, Next, Host
<1>5. ASSUME NEW p \in Clients, ClientStep(p) PROVE UNCHANGED vars
  BY <1>5 DEF ClientStep, Process
<1>6. CASE UNCHANGED lampVars
  BY <1>6 DEF lampVars
<1> QED
  BY <1>1, <1>2, <1>3, <1>4, <1>5, <1>6 DEF LampNext

(* The lamp with its host is the firmware on a bus that some host drives, so  *)
(* all that is proved of the firmware holds of it.                            *)
THEOREM LampIsFirmware == LampSpec => Spec
<1>1. LampInit => Init
  BY DEF LampInit
<1>2. LampSpec => LampInit /\ [][LampNext]_lampVars
  BY PTL DEF LampSpec
<1> QED
  BY <1>1, <1>2, LampStep, PTL DEF Spec

-----------------------------------------------------------------------------
(* The steps keep the invariant of the lamp. *)

(* The counters only grow, and types are kept. *)
LEMMA NextLampType ==
  IInv /\ OrderInv /\ LampTypeOK /\ [LampNext]_lampVars => LampTypeOK'
<1> SUFFICES ASSUME IInv, OrderInv, LampTypeOK, [LampNext]_lampVars PROVE LampTypeOK'
  OBVIOUS
<1>0. /\ sent \in Nat /\ echoed \in Nat /\ sent' \in Nat /\ echoed' \in Nat
      /\ TypeOK /\ StreamOrder /\ ReplyOrder
  BY NextType, LampStep DEF IInv, TypeOK, OrderInv
<1>1. ASSUME /\ pc' \in [Clients -> Places] /\ handle' \in [Clients -> Handles]
             /\ owner' \in Clients \cup {None} /\ faults' \in 0 .. MaxFaults,
             UNCHANGED <<asked, answer, before>>, sent' >= sent, echoed' >= echoed
      PROVE  LampTypeOK'
  BY <1>0, <1>1 DEF LampTypeOK, Places, Handles
<1>2. /\ pc \in [Clients -> Places] /\ handle \in [Clients -> Handles]
      /\ owner \in Clients \cup {None} /\ faults \in 0 .. MaxFaults
  BY DEF LampTypeOK, Places, Handles
<1>3. CASE Firmware(Main) \/ Firmware(Pump) \/ Firmware(UseNull) \/ Enumerate
           \/ UNCHANGED lampVars
  <2>1. UNCHANGED <<libVars, before>> /\ sent' = sent /\ echoed' = echoed
    BY <1>3, FirmwareQuiet
       DEF Firmware, Enumerate, SetConfiguration, hostVars, lampVars, vars
  <2> QED
    BY <1>0, <1>1, <1>2, <2>1 DEF libVars
<1>4. CASE Unplug
  <2>1. /\ UNCHANGED <<sent, echoed, pc, asked, answer, faults>> /\ before' = sent /\ owner' = None
        /\ handle' \in [Clients -> Handles]
    BY <1>2, <1>4 DEF Unplug, BusReset, Unplugged, Handles
  <2> QED
    BY <1>0, <2>1 DEF LampTypeOK, Handles
<1>5. ASSUME NEW p \in Clients, Write(p) PROVE LampTypeOK'
  <2>1. /\ sent' = sent + 1 /\ UNCHANGED <<echoed, before, handle, owner, answer, faults>>
        /\ asked' = [asked EXCEPT ![p] = sent + 1] /\ pc' = [pc EXCEPT ![p] = "read"]
    BY <1>5 DEF Write, HostOut, Written, Goto
  <2> QED
    BY <1>0, <2>1 DEF LampTypeOK
<1>6. ASSUME NEW p \in Clients, Read(p) PROVE LampTypeOK'
  <2>1. /\ UNCHANGED <<sent, before, handle, owner, asked, faults>> /\ echoed' = inFifo[1].id
        /\ answer' = [answer EXCEPT ![p] = inFifo[1].id]
        /\ pc' = [pc EXCEPT ![p] = AfterCall(p)] /\ echoed' > echoed
    BY <1>0, <1>6, HostInReply DEF Read, HostIn, Answered, Goto
  <2> QED
    BY <1>0, <2>1, OutsideCall DEF LampTypeOK
<1>7. ASSUME NEW p \in Clients, ClientStep(p) PROVE LampTypeOK'
  BY <1>0, <1>1, <1>7, ClientAlone DEF vars, hostVars
<1> QED
  BY <1>3, <1>4, <1>5, <1>6, <1>7 DEF LampNext

(* Nobody else can be in a transfer while a process is. *)
LEMMA OnlyOne ==
  ASSUME LampTypeOK, ClaimedHandles, NEW p \in Clients, NEW q \in Clients,
         pc[p] \in InCall, handle[p] = "live", pc[q] \in InCall, handle[q] = "live"
  PROVE  p = q
  BY DEF ClaimedHandles, InCall

(* Every step keeps the good handles of processes in a call the owner's. *)
LEMMA NextClaimed ==
  LampTypeOK /\ ClaimedHandles /\ [LampNext]_lampVars => ClaimedHandles'
<1> SUFFICES ASSUME LampTypeOK, ClaimedHandles, [LampNext]_lampVars PROVE ClaimedHandles'
  OBVIOUS
<1>1. CASE UNCHANGED libVars
  BY <1>1 DEF libVars, ClaimedHandles
<1>2. CASE Unplug
  BY <1>2 DEF Unplug, Unplugged, ClaimedHandles
<1>3. ASSUME NEW p \in Clients, Write(p) PROVE ClaimedHandles'
  <2>1. /\ UNCHANGED <<handle, owner>> /\ pc' = [pc EXCEPT ![p] = "read"]
        /\ pc[p] = "write" /\ pc \in [Clients -> Places]
    BY <1>3 DEF Write, Written, Goto, LampTypeOK, Places
  <2> QED
    BY <2>1 DEF ClaimedHandles
<1>4. ASSUME NEW p \in Clients, Read(p) PROVE ClaimedHandles'
  <2>1. /\ UNCHANGED <<handle, owner>> /\ pc' = [pc EXCEPT ![p] = AfterCall(p)]
        /\ pc[p] = "read" /\ pc \in [Clients -> Places]
    BY <1>4 DEF Read, Answered, Goto, LampTypeOK, Places
  <2> QED
    BY <2>1 DEF ClaimedHandles
<1>5. ASSUME NEW p \in Clients, ClientStep(p) PROVE ClaimedHandles'
  BY <1>5, ClientClaims
<1> QED
  BY <1>1, <1>2, <1>3, <1>4, <1>5 DEF LampNext, Firmware, Enumerate, lampVars

(* A step of a process alone starts no read. *)
LEMMA ClientStartsNoRead ==
  ASSUME LampTypeOK, NEW p \in Clients, ClientStep(p)
  PROVE  \A q \in Clients : Reading(q)' => Reading(q) /\ q # p
  BY ClientAlone DEF Reading

(* Every step keeps the reader's request the newest. *)
LEMMA NextReaderIsNewest ==
  LampTypeOK /\ ClaimedHandles /\ ReaderIsNewest /\ [LampNext]_lampVars => ReaderIsNewest'
<1> SUFFICES ASSUME LampTypeOK, ClaimedHandles, ReaderIsNewest, [LampNext]_lampVars
             PROVE  ReaderIsNewest'
  OBVIOUS
<1>1. ASSUME UNCHANGED <<asked, sent>>, \A q \in Clients : Reading(q)' => Reading(q)
      PROVE  ReaderIsNewest'
  BY <1>1 DEF ReaderIsNewest
<1>2. CASE Firmware(Main) \/ Firmware(Pump) \/ Firmware(UseNull) \/ Enumerate
           \/ UNCHANGED lampVars
  <2>1. UNCHANGED libVars /\ sent' = sent
    BY <1>2, FirmwareQuiet
       DEF Firmware, Enumerate, SetConfiguration, hostVars, lampVars, vars
  <2> QED
    BY <1>1, <2>1 DEF libVars, Reading
<1>3. CASE Unplug
  BY <1>1, <1>3 DEF Unplug, BusReset, Unplugged, Reading
<1>4. ASSUME NEW p \in Clients, Write(p) PROVE ReaderIsNewest'
  <2>1. /\ UNCHANGED handle /\ pc' = [pc EXCEPT ![p] = "read"] /\ pc \in [Clients -> Places]
        /\ pc[p] = "write" /\ handle[p] = "live" /\ sent' = sent + 1
        /\ asked' = [asked EXCEPT ![p] = sent + 1] /\ p \in DOMAIN asked
    BY <1>4 DEF Write, HostOut, Written, Goto, LampTypeOK, Places
  <2>2. ASSUME NEW q \in Clients, Reading(q)' PROVE q = p
    <3>1. q # p => Reading(q)
      BY <2>1, <2>2 DEF Reading
    <3> QED
      BY <2>1, <3>1, OnlyOne DEF Reading, InCall
  <2> QED
    BY <2>1, <2>2 DEF ReaderIsNewest
<1>5. ASSUME NEW p \in Clients, Read(p) PROVE ReaderIsNewest'
  <2>1. /\ UNCHANGED <<handle, asked, sent>> /\ pc' = [pc EXCEPT ![p] = AfterCall(p)]
        /\ pc \in [Clients -> Places]
    BY <1>5 DEF Read, HostIn, Answered, Goto, LampTypeOK, Places
  <2>2. \A q \in Clients : Reading(q)' => Reading(q)
    BY <2>1, OutsideCall DEF Reading
  <2> QED
    BY <1>1, <2>1, <2>2
<1>6. ASSUME NEW p \in Clients, ClientStep(p) PROVE ReaderIsNewest'
  BY <1>1, <1>6, ClientStartsNoRead, ClientAlone DEF vars, hostVars
<1> QED
  BY <1>2, <1>3, <1>4, <1>5, <1>6 DEF LampNext

(* An echo that is collected is newer than the one before and than the reset. *)
LEMMA CollectedEcho ==
  ASSUME IInv, ReplyOrder, EchoFresh, HostIn
  PROVE  /\ echoed' = inFifo[1].id /\ echoed' \in Nat
         /\ echoed' >= echoed + 1 /\ inFifo[1].id > before /\ UNCHANGED sent
<1>1. TypeOK /\ inFifo # <<>> /\ echoed' = inFifo[1].id /\ UNCHANGED sent
  BY DEF HostIn, IInv
<1>2. echoed' > echoed /\ inFifo[1].id > before
  BY <1>1, HostInReply DEF EchoFresh
<1> QED
  BY <1>1, <1>2, Numbers

(* The reader's own report is what a new echo catches up with. *)
LEMMA CatchUp ==
  ASSUME NEW s \in Nat, NEW e \in Nat, NEW f \in Nat, NEW b \in Nat, NEW new \in Nat,
         new >= e + 1, new > b, s <= e + (f + 1) \/ s <= b + (f + 1)
  PROVE  s <= new + f /\ s <= new + (f + 1)
  OBVIOUS

(* Every step leaves at most one report for each fault, and the reader's own, *)
(* without an echo.                                                           *)
LEMMA NextBacklog ==
  IInv /\ OrderInv /\ LampInv /\ [LampNext]_lampVars => Backlog'
<1> SUFFICES ASSUME IInv, OrderInv, LampInv, [LampNext]_lampVars PROVE Backlog'
  OBVIOUS
<1>0. /\ sent \in Nat /\ echoed \in Nat /\ before \in Nat /\ faults \in Nat
      /\ LampTypeOK /\ ClaimedHandles /\ Backlog /\ EchoFresh /\ ReplyOrder
  BY DEF IInv, TypeOK, LampInv, LampTypeOK, OrderInv
<1>1. ASSUME UNCHANGED <<sent, echoed, before, faults>>,
             \A q \in Clients : Reading(q) => Reading(q)'
      PROVE  Backlog'
  BY <1>0, <1>1 DEF Backlog, Behind
<1>2. CASE Firmware(Main) \/ Firmware(Pump) \/ Firmware(UseNull) \/ Enumerate
           \/ UNCHANGED lampVars
  <2>1. UNCHANGED <<libVars, sent, echoed, before>>
    BY <1>2, FirmwareQuiet
       DEF Firmware, Enumerate, SetConfiguration, hostVars, lampVars, vars
  <2> QED
    BY <1>1, <2>1 DEF libVars, Reading
<1>3. CASE Unplug
  <2>1. before' = sent /\ UNCHANGED <<sent, faults>>
    BY <1>3 DEF Unplug, BusReset, Unplugged
  <2> QED
    BY <1>0, <2>1 DEF Backlog, Behind
<1>4. ASSUME NEW p \in Clients, Write(p) PROVE Backlog'
  <2>1. /\ UNCHANGED <<handle, echoed, before, faults>> /\ pc' = [pc EXCEPT ![p] = "read"]
        /\ pc \in [Clients -> Places] /\ pc[p] = "write" /\ handle[p] = "live" /\ sent' = sent + 1
    BY <1>0, <1>4 DEF Write, HostOut, Written, Goto, LampTypeOK, Places
  <2>2. Reading(p)'
    BY <2>1 DEF Reading
  <2>3. \A q \in Clients : ~Reading(q)
    BY <1>0, <2>1, OnlyOne DEF Reading, InCall
  <2>4. Behind(faults)
    BY <1>0, <2>3 DEF Backlog
  <2>5. Behind(faults + 1)'
    BY <1>0, <2>1, <2>4 DEF Behind
  <2> QED
    BY <2>2, <2>5 DEF Backlog
<1>5. ASSUME NEW p \in Clients, Read(p) PROVE Backlog'
  <2>1. /\ UNCHANGED <<sent, before, faults>> /\ echoed' \in Nat /\ echoed' >= echoed + 1
        /\ echoed' > before
    BY <1>0, <1>5, CollectedEcho DEF Read, Answered
  <2>2. sent <= echoed + (faults + 1) \/ sent <= before + (faults + 1)
    BY <1>0 DEF Backlog, Behind
  <2>3. sent <= echoed' + faults /\ sent <= echoed' + (faults + 1)
    BY <1>0, <2>1, <2>2, CatchUp
  <2>4. sent' <= echoed' + faults' /\ sent' <= echoed' + (faults' + 1)
    BY <2>1, <2>3
  <2> QED
    BY <2>4 DEF Backlog, Behind
<1>6. ASSUME NEW p \in Clients, ClientStep(p) PROVE Backlog'
  <2>1. /\ UNCHANGED <<sent, echoed, before>> /\ faults' \in Nat /\ faults <= faults'
        /\ Reading(p) => faults' = faults + 1
    BY <1>0, <1>6, ClientAlone DEF vars, hostVars, LibraryAssumption
  <2>2. ASSUME NEW n \in Nat, NEW m \in Nat, n <= m, Behind(n), UNCHANGED <<sent, echoed, before>>
        PROVE  sent' <= echoed' + m \/ sent' <= before' + m
    BY <1>0, <2>2 DEF Behind
  <2>3. Behind(faults + 1)'
    <3>1. \A f, g \in Nat : f <= g => f + 1 \in Nat /\ g + 1 \in Nat /\ f + 1 <= g + 1
      OBVIOUS
    <3>2. faults + 1 \in Nat /\ faults' + 1 \in Nat /\ faults + 1 <= faults' + 1
      BY <1>0, <2>1, <3>1
    <3>3. Behind(faults + 1)
      BY <1>0 DEF Backlog
    <3> QED
      BY <2>1, <2>2, <3>2, <3>3 DEF Behind
  <2>4. CASE Reading(p)
    <3>1. Behind(faults)'
      BY <1>0, <2>1, <2>4 DEF Backlog, Behind
    <3> QED
      BY <2>3, <3>1 DEF Backlog
  <2>5. CASE ~Reading(p)
    <3>1. (\A q \in Clients : ~Reading(q)') => \A q \in Clients : ~Reading(q)
      BY <1>0, <1>6, <2>5, ClientAlone DEF Reading
    <3>2. Behind(faults) => Behind(faults)'
      BY <1>0, <2>1, <2>2 DEF Behind
    <3>3. (\A q \in Clients : ~Reading(q)') => Behind(faults)'
      BY <1>0, <3>1, <3>2 DEF Backlog
    <3> QED
      BY <2>3, <3>3 DEF Backlog
  <2> QED
    BY <2>4, <2>5
<1> QED
  BY <1>2, <1>3, <1>4, <1>5, <1>6 DEF LampNext

(* No step makes an echo of what came before a bus reset. *)
LEMMA NextEchoFresh ==
  IInv /\ OrderInv /\ LampInv /\ [LampNext]_lampVars => EchoFresh'
<1> SUFFICES ASSUME IInv, OrderInv, LampInv, [LampNext]_lampVars PROVE EchoFresh'
  OBVIOUS
<1>0. /\ TypeOK /\ FifoShape /\ EchoFresh /\ StreamOrder /\ before \in 0 .. sent /\ sent \in Nat
  BY DEF IInv, LampInv, LampTypeOK, OrderInv, TypeOK
<1> USE DEF EchoFresh
<1>1. ASSUME UNCHANGED <<inFifo, configured, queue, r, req, txLeft, ans, rxFifo, before>>,
             mpc' = "send" => mpc = "send"
      PROVE  EchoFresh'
  BY <1>0, <1>1
<1>2. ASSUME Main, UNCHANGED before PROVE EchoFresh'
  <2>1. CASE Poll \/ Notify \/ Prepare \/ Start
    BY <1>1, <1>2, <2>1 DEF Poll, Notify, Prepare, Start, usbVars, outVars, inVars
  <2>2. CASE Take
    <3>1. CASE queue = <<>>
      BY <1>1, <1>2, <2>2, <3>1 DEF Take, usbVars, outVars, inVars
    <3>2. CASE queue # <<>>
      <4>1. /\ UNCHANGED <<inFifo, configured, txLeft, ans, rxFifo, before>> /\ mpc' # "send"
            /\ r \in 0 .. ReportSize - 1 /\ r' = r + 1 /\ req' = [req EXCEPT ![r + 1] = queue[1]]
            /\ queue' = Tail(queue) /\ queue' \in Seq(Unit) /\ Len(queue) \in Nat \ {0}
            /\ Len(queue') = Len(queue) - 1
            /\ \A i \in 1 .. Len(queue) - 1 : queue'[i] = queue[i + 1]
        BY <1>0, <1>2, <2>2, <3>2, TakenUnit, QueueTail DEF Take, usbVars, outVars, inVars
      <4>2. DOMAIN queue = 1 .. Len(queue) /\ DOMAIN queue' = 1 .. Len(queue) - 1
        BY <1>0, <4>1, Numbers, LenProperties
      <4>3. req'[r'] = queue[1]
        BY <1>0, <4>1 DEF TypeOK, Packet
      <4>4. configured => /\ queue[1].id > before
                          /\ \A i \in 1 .. Len(queue) - 1 : queue[i + 1].id > before
        <5>1. 1 \in DOMAIN queue /\ \A i \in 1 .. Len(queue) - 1 : i + 1 \in DOMAIN queue
          BY <4>1, <4>2
        <5> QED
          BY <1>0, <5>1
      <4>5. configured' => \A i \in DOMAIN queue' : queue'[i].id > before'
        BY <4>1, <4>2, <4>4
      <4> QED
        BY <1>0, <4>1, <4>3, <4>4, <4>5
    <3> QED
      BY <3>1, <3>2
  <2>3. CASE Eval
    <3>1. /\ UNCHANGED <<inFifo, configured, queue, rxFifo, before>> /\ r' = 0
          /\ ans'[1].id = req[r].id /\ r > 0
      BY <1>0, <1>2, <2>3, EvalOrder
         DEF Eval, usbVars, outVars, inVars, IInv, ReaderState
    <3> QED
      BY <1>0, <3>1
  <2>4. CASE Send
    <3>1. /\ UNCHANGED <<inFifo, configured, queue, r, req, ans, rxFifo, before>>
          /\ mpc = "send" /\ mpc' = "notify"
      BY <1>2, <2>4 DEF Send, outVars
    <3> QED
      BY <1>0, <3>1
  <2> QED
    BY <1>2, <2>1, <2>2, <2>3, <2>4 DEF Main
<1>3. ASSUME Pump, UNCHANGED before PROVE EchoFresh'
  <2>0. r = 0 /\ mpc # "send"
    BY <1>3, PumpBetweenReports
       DEF Pump, PumpData, PumpCount, PumpDone, PumpSetup, PumpIn
  <2>1. CASE PumpData
    <3>1. /\ UNCHANGED <<inFifo, configured, txLeft, ans, r, req, before>> /\ mpc' # "send"
          /\ rxFifo # <<>> /\ rxFifo' = Tail(rxFifo) /\ rxFifo[1].kind = "data"
          /\ 1 \in DOMAIN rxFifo /\ queue' = queue \o Units(rxFifo[1].arg)
      BY <1>0, <1>3, <2>0, <2>1, FifoTail, FifoDomain DEF PumpData, usbVars, inVars
    <3>2. rxFifo[1].arg \in 0 .. MaxReports /\ rxFifo[1].arg > before
      BY <1>0, <3>1 DEF FifoShape
    <3>3. /\ Len(queue) \in Nat /\ DOMAIN queue = 1 .. Len(queue)
          /\ DOMAIN queue' = 1 .. Len(queue) + ReportSize
          /\ \A i \in 1 .. Len(queue) : queue'[i] = queue[i]
          /\ \A i \in Len(queue) + 1 .. Len(queue) + ReportSize :
               queue'[i] = [id |-> rxFifo[1].arg, k |-> i - Len(queue)]
      BY <1>0, <3>1, <3>2, QueueConcat, Numbers, LenProperties
    <3>4. ASSUME configured, NEW i \in DOMAIN queue' PROVE queue'[i].id > before
      <4>1. CASE i \in 1 .. Len(queue)
        BY <1>0, <3>3, <3>4, <4>1
      <4>2. CASE i \in Len(queue) + 1 .. Len(queue) + ReportSize
        <5>1. queue'[i] = [id |-> rxFifo[1].arg, k |-> i - Len(queue)]
          BY <3>3, <4>2
        <5> QED
          BY <3>2, <5>1
      <4> QED
        BY <3>3, <4>1, <4>2
    <3>5. \A i \in DOMAIN rxFifo' : \E j \in DOMAIN rxFifo : rxFifo'[i] = rxFifo[j]
      BY <3>1, ReadEntries
    <3> QED
      BY <1>0, <2>0, <3>1, <3>4, <3>5
  <2>2. CASE PumpCount
    BY <1>1, <1>3, <2>2 DEF PumpCount, usbVars, outVars, inVars, mainVars
  <2>3. CASE PumpDone
    <3>1. /\ UNCHANGED <<inFifo, configured, queue, r, req, txLeft, ans, mpc, before>>
          /\ rxFifo # <<>> /\ rxFifo' = Tail(rxFifo)
      BY <1>3, <2>3 DEF PumpDone, inVars, mainVars
    <3>2. \A i \in DOMAIN rxFifo' : \E j \in DOMAIN rxFifo : rxFifo'[i] = rxFifo[j]
      BY <3>1, ReadEntries
    <3> QED
      BY <1>0, <3>1, <3>2
  <2>4. CASE PumpSetup
    <3>1. /\ 1 \in DOMAIN rxFifo /\ rxFifo[1].kind = "setup" /\ Head(rxFifo) = rxFifo[1]
          /\ rxFifo' = Tail(rxFifo) /\ Len(rxFifo) = 1 /\ rxFifo # <<>>
      BY <1>0, <2>4, FifoTail, FifoDomain DEF PumpSetup, FifoShape
    <3>2. DOMAIN rxFifo' = {}
      BY <1>0, <3>1, FifoTail, LenProperties
    <3>3. Configure
      BY <1>0, <2>4, <3>1 DEF PumpSetup, usb_event_cb
    <3>4. inFifo' = <<>> /\ DOMAIN queue' = {} /\ r' = 0 /\ ~txLeft' /\ mpc' # "send"
      BY <2>0, <3>3 DEF Configure, ReadReturns, HasRead
    <3> QED
      BY <3>2, <3>4
  <2>5. CASE PumpIn
    <3>1. /\ UNCHANGED <<configured, queue, r, req, ans, rxFifo, mpc, before>>
          /\ configured /\ ~txLeft' /\ inFifo' = IF txLeft THEN ans ELSE inFifo
      BY <1>3, <2>5 DEF PumpIn, usbVars, outVars, mainVars
    <3> QED
      BY <1>0, <2>0, <3>1
  <2> QED
    BY <1>3, <2>1, <2>2, <2>3, <2>4, <2>5 DEF Pump
<1>4. CASE Firmware(UseNull) \/ UNCHANGED lampVars
  BY <1>1, <1>4 DEF Firmware, UseNull, lampVars, vars, usbVars, outVars, inVars, mainVars
<1>5. CASE Enumerate
  <2>1. /\ UNCHANGED <<inFifo, configured, queue, r, req, txLeft, ans, mpc, before>>
        /\ rxFifo' = Append(rxFifo, Setup(1)) /\ 1 \in {0, 1}
    BY <1>5 DEF Enumerate, SetConfiguration, usbVars, inVars, mainVars
  <2>2. /\ DOMAIN rxFifo = 1 .. Len(rxFifo) /\ Len(rxFifo) \in Nat
        /\ DOMAIN rxFifo' = 1 .. Len(rxFifo) + 1
        /\ \A i \in 1 .. Len(rxFifo) : rxFifo'[i] = rxFifo[i]
        /\ rxFifo'[Len(rxFifo) + 1] = Setup(1)
    BY <1>0, <2>1, FifoSetup, FifoDomain, LenProperties
  <2>3. ASSUME NEW i \in DOMAIN rxFifo'
        PROVE  /\ rxFifo'[i].kind = "data" => rxFifo'[i].arg > before
               /\ rxFifo'[i].kind = "setup" => rxFifo'[i].arg = 1
    <3>1. CASE i \in 1 .. Len(rxFifo)
      BY <1>0, <2>2, <3>1
    <3>2. CASE i = Len(rxFifo) + 1
      BY <2>2, <3>2 DEF Setup
    <3> QED
      BY <2>2, <3>1, <3>2
  <2> QED
    BY <1>0, <2>1, <2>3
<1>6. CASE Unplug
  BY <1>6 DEF Unplug, BusReset
<1>7. ASSUME NEW p \in Clients, Write(p) PROVE EchoFresh'
  <2>1. /\ UNCHANGED <<inFifo, configured, queue, r, req, txLeft, ans, mpc, before>>
    BY <1>7 DEF Write, HostOut, usbVars, inVars, mainVars
  <2>2. rxFifo' = rxFifo \o <<Data(sent + 1), Done>> /\ Len(rxFifo) = 0 /\ sent + 1 \in 1 .. MaxReports
    BY <1>0, <1>7, HostOutOrder DEF Write, HostOut, TypeOK
  <2>3. /\ DOMAIN rxFifo' = 1 .. 2
        /\ rxFifo'[1] = Data(sent + 1) /\ rxFifo'[2] = Done
    BY <1>0, <2>2, FifoReceive, LenProperties
  <2>4. ASSUME NEW i \in DOMAIN rxFifo'
        PROVE  /\ rxFifo'[i].kind = "data" => rxFifo'[i].arg > before
               /\ rxFifo'[i].kind = "setup" => rxFifo'[i].arg = 1
    BY <1>0, <2>3 DEF Data, Done
  <2> QED
    BY <1>0, <2>1, <2>4
<1>8. ASSUME NEW p \in Clients, Read(p) PROVE EchoFresh'
  BY <1>0, <1>8 DEF Read, HostIn, outVars, mainVars
<1>9. ASSUME NEW p \in Clients, ClientStep(p) PROVE EchoFresh'
  <2>1. UNCHANGED <<vars, before>>
    BY <1>9 DEF ClientStep, Process
  <2> QED
    BY <1>1, <2>1 DEF vars, usbVars, outVars, inVars, mainVars
<1> QED
  BY <1>2, <1>3, <1>4, <1>5, <1>6, <1>7, <1>8, <1>9 DEF LampNext, Firmware

(* The firmware's steps keep the lamp configured: the only SETUP packets are  *)
(* the kernel's, with configuration 1.                                        *)
LEMMA StaysConfigured ==
  ASSUME IInv, EchoFresh, Main \/ Pump \/ UseNull, configured
  PROVE  configured'
<1>1. CASE PumpSetup
  <2>1. TypeOK /\ rxFifo # <<>> /\ Head(rxFifo).kind = "setup"
    BY <1>1 DEF PumpSetup, IInv
  <2>2. 1 \in DOMAIN rxFifo /\ Head(rxFifo) = rxFifo[1]
    BY <2>1, FifoTail, FifoDomain
  <2>3. Head(rxFifo).arg = 1
    BY <2>1, <2>2 DEF EchoFresh
  <2> QED
    BY <1>1, <2>3 DEF PumpSetup, usb_event_cb, Configure
<1>2. CASE Main \/ UseNull \/ PumpData \/ PumpCount \/ PumpDone \/ PumpIn
  BY <1>2 DEF Main, UseNull, PumpData, PumpCount, PumpDone, PumpIn, Poll, Notify, Prepare,
              Start, Take, Eval, Send, usbVars
<1> QED
  BY <1>1, <1>2 DEF Pump

(* A good handle is only opened on a lamp that is configured. *)
LEMMA ClientOpens ==
  ASSUME LampTypeOK, LiveIsConfigured, NEW p \in Clients, ClientStep(p), handle'[p] = "live"
  PROVE  configured
<1> USE DEF Process, libVars
<1>0. handle \in [Clients -> Handles]
  BY DEF LampTypeOK, Handles
<1>1. CASE Process(Open(p, configured))
  BY <1>0, <1>1 DEF Open
<1>2. CASE handle'[p] = handle[p]
  BY <1>2 DEF LiveIsConfigured
<1>3. CASE Process(InitFails(p)) \/ Process(Crash(p)) \/ Process(Release(p)) \/ Process(Kill(p))
  BY <1>0, <1>3 DEF InitFails, Crash, Release, Kill
<1>4. CASE Process(Claim(p)) \/ Process(sent < MaxReports /\ Call(p)) \/ Process(TimesOut(p))
           \/ Process(NoDevice(p))
  BY <1>2, <1>4 DEF Claim, Call, TimesOut, NoDevice
<1> QED
  BY <1>1, <1>3, <1>4 DEF ClientStep

(* Every step leaves good handles to a configured lamp only. *)
LEMMA NextLive ==
  IInv /\ LampInv /\ [LampNext]_lampVars => LiveIsConfigured'
<1> SUFFICES ASSUME IInv, LampInv, [LampNext]_lampVars PROVE LiveIsConfigured'
  OBVIOUS
<1>0. LampTypeOK /\ EchoFresh /\ LiveIsConfigured
  BY DEF LampInv
<1>1. ASSUME UNCHANGED handle, configured => configured' PROVE LiveIsConfigured'
  BY <1>0, <1>1 DEF LiveIsConfigured
<1>2. CASE Firmware(Main) \/ Firmware(Pump) \/ Firmware(UseNull)
  BY <1>0, <1>1, <1>2, StaysConfigured DEF Firmware, libVars
<1>3. CASE Enumerate \/ UNCHANGED lampVars
  BY <1>1, <1>3 DEF Enumerate, SetConfiguration, libVars, lampVars, vars, usbVars
<1>4. CASE Unplug
  BY <1>4 DEF Unplug, Unplugged, LiveIsConfigured
<1>5. ASSUME NEW p \in Clients, Write(p) \/ Read(p) PROVE LiveIsConfigured'
  BY <1>1, <1>5 DEF Write, Read, HostOut, HostIn, Written, Answered, usbVars
<1>6. ASSUME NEW p \in Clients, ClientStep(p) PROVE LiveIsConfigured'
  <2>1. UNCHANGED configured /\ \A q \in Clients \ {p} : handle'[q] = handle[q]
    BY <1>0, <1>6, ClientAlone DEF vars, usbVars
  <2> QED
    BY <1>0, <1>6, <2>1, ClientOpens DEF LiveIsConfigured
<1> QED
  BY <1>2, <1>3, <1>4, <1>5, <1>6 DEF LampNext

(* The host configures only a lamp that a bus reset has left idle, so its     *)
(* steps keep the reply's busy bit true.                                      *)
LEMMA NextLampReply ==
  IInv /\ LampInv /\ [LampNext]_lampVars => ReplyState'
<1> SUFFICES ASSUME IInv, LampInv, [LampNext]_lampVars PROVE ReplyState'
  OBVIOUS
<1>1. \/ Main \/ Pump \/ UseNull \/ HostOut \/ HostIn \/ BusReset \/ UNCHANGED vars
      \/ ~configured /\ SetConfiguration(1)
  BY DEF LampNext, Firmware, Enumerate, Unplug, Write, Read, ClientStep, Process, lampVars
<1> QED
  BY <1>1, NextReplyState DEF LampInv

(* An echo that is owed is sent or on its way to be. *)
Owed == transmitting \/ mpc = "send" \/ r > 0 \/ queue # <<>> \/ Queued("data")

(* The firmware's steps do not lose it. *)
LEMMA StaysOwed ==
  ASSUME IInv, EchoFresh, ReplyState, Main \/ Pump \/ UseNull, configured, Owed
  PROVE  Owed'
<1> USE DEF Owed
<1>0. TypeOK /\ FifoShape /\ r \in Nat
  BY DEF IInv, TypeOK
<1>1. ASSUME UNCHANGED <<transmitting, r, queue, rxFifo>>, mpc = "send" => mpc' = "send"
      PROVE  Owed'
  BY <1>1 DEF Queued
<1>2. CASE Take
  <2>1. CASE queue = <<>>
    BY <1>1, <1>2, <2>1 DEF Take, usbVars, outVars
  <2>2. CASE queue # <<>>
    BY <1>0, <1>2, <2>2 DEF Take
  <2> QED
    BY <2>1, <2>2
<1>3. CASE Eval
  BY <1>3 DEF Eval
<1>4. CASE Send
  BY <1>4 DEF Send
<1>5. CASE PumpData
  <2>1. rxFifo # <<>> /\ Head(rxFifo).kind = "data" /\ queue' = queue \o Units(Head(rxFifo).arg)
    BY <1>5 DEF PumpData
  <2>2. Head(rxFifo).arg \in 0 .. MaxReports
    BY <1>0, <2>1, FifoTail, FifoDomain DEF FifoShape
  <2>3. Len(queue') = Len(queue) + ReportSize /\ Len(queue) \in Nat
    BY <1>0, <2>1, <2>2, QueueConcat
  <2> QED
    BY <2>3
<1>6. CASE PumpDone
  <2>1. UNCHANGED <<transmitting, r, queue, mpc>> /\ rxFifo # <<>> /\ Head(rxFifo).kind = "done"
    BY <1>6 DEF PumpDone, mainVars
  <2>2. ~Queued("data")
    BY <1>0, <2>1, FifoTail, FifoDomain DEF FifoShape, Queued
  <2> QED
    BY <2>1, <2>2
<1>7. CASE PumpSetup
  <2>1. rxFifo # <<>> /\ Head(rxFifo).kind = "setup" /\ Head(rxFifo) = rxFifo[1]
        /\ 1 \in DOMAIN rxFifo
    BY <1>0, <1>7, FifoTail, FifoDomain DEF PumpSetup
  <2> QED
    BY <2>1 DEF ReplyState
<1>8. CASE Poll \/ Notify \/ Prepare \/ Start \/ PumpCount \/ PumpIn \/ UseNull
  BY <1>1, <1>8 DEF Poll, Notify, Prepare, Start, PumpCount, PumpIn, UseNull, PumpMayRun,
                    usbVars, outVars, mainVars
<1> QED
  BY <1>2, <1>3, <1>4, <1>5, <1>6, <1>7, <1>8 DEF Main, Pump

(* Every step keeps the reader's echo on its way: the write that starts the   *)
(* read brings the report, and a read that collects leaves no reader.         *)
LEMMA NextEchoOwed ==
  IInv /\ LampInv /\ [LampNext]_lampVars => EchoOwed'
<1> SUFFICES ASSUME IInv, LampInv, [LampNext]_lampVars PROVE EchoOwed'
  OBVIOUS
<1>0. /\ LampTypeOK /\ ClaimedHandles /\ EchoFresh /\ LiveIsConfigured /\ ReplyState
      /\ EchoOwed /\ TypeOK
  BY DEF LampInv, IInv
<1>1. ASSUME UNCHANGED <<transmitting, mpc, r, queue>>, Queued("data") => Queued("data")',
             \A q \in Clients : Reading(q)' => Reading(q)
      PROVE  EchoOwed'
  BY <1>0, <1>1 DEF EchoOwed
<1>2. CASE Firmware(Main) \/ Firmware(Pump) \/ Firmware(UseNull)
  <2>1. \A q \in Clients : Reading(q)' => Reading(q) /\ configured
    BY <1>0, <1>2 DEF Firmware, libVars, Reading, LiveIsConfigured
  <2>2. \A q \in Clients : Reading(q)' => Owed'
    BY <1>0, <1>2, <2>1, StaysOwed DEF Firmware, EchoOwed, Owed
  <2> QED
    BY <2>2 DEF EchoOwed, Owed
<1>3. CASE Enumerate
  <2>1. ~configured /\ UNCHANGED <<pc, handle>>
    BY <1>3 DEF Enumerate, libVars
  <2> QED
    BY <1>0, <2>1 DEF EchoOwed, Reading, LiveIsConfigured
<1>4. CASE Unplug
  BY <1>4 DEF Unplug, Unplugged, EchoOwed, Reading
<1>5. ASSUME NEW p \in Clients, Write(p) PROVE EchoOwed'
  <2>1. Queued("data")'
    BY <1>5, HostOutFifo DEF Write
  <2> QED
    BY <2>1 DEF EchoOwed
<1>6. ASSUME NEW p \in Clients, Read(p) PROVE EchoOwed'
  <2>1. /\ UNCHANGED handle /\ pc' = [pc EXCEPT ![p] = AfterCall(p)]
        /\ pc \in [Clients -> Places] /\ pc[p] = "read" /\ handle[p] = "live"
    BY <1>0, <1>6 DEF Read, Answered, Goto, LampTypeOK, Places
  <2>2. ASSUME NEW q \in Clients, Reading(q)' PROVE FALSE
    <3>1. q # p /\ Reading(q)
      BY <2>1, <2>2, OutsideCall DEF Reading
    <3> QED
      BY <1>0, <2>1, <3>1, OnlyOne DEF Reading, InCall
  <2> QED
    BY <2>2 DEF EchoOwed
<1>7. ASSUME NEW p \in Clients, ClientStep(p) PROVE EchoOwed'
  <2>1. UNCHANGED vars
    BY <1>7 DEF ClientStep, Process
  <2> QED
    BY <1>0, <1>1, <1>7, <2>1, ClientStartsNoRead
       DEF vars, usbVars, outVars, mainVars, Queued
<1>8. CASE UNCHANGED lampVars
  BY <1>1, <1>8 DEF lampVars, vars, usbVars, outVars, mainVars, libVars, Queued, Reading
<1> QED
  BY <1>2, <1>3, <1>4, <1>5, <1>6, <1>7, <1>8 DEF LampNext

-----------------------------------------------------------------------------
(* The theorems. *)

(* The invariant holds of the lamp from its start. *)
LEMMA InitLampInv == LampInit => LampInv
<1> SUFFICES ASSUME LampInit PROVE LampInv
  OBVIOUS
<1>1. /\ sent = 0 /\ echoed = 0 /\ before = 0 /\ faults = 0 /\ inFifo = <<>> /\ ~configured
      /\ DOMAIN rxFifo = {} /\ MaxFaults \in Nat /\ ~transmitting
      /\ pc = [p \in Clients |-> "off"] /\ handle = [p \in Clients |-> "null"]
      /\ owner = None /\ asked = [p \in Clients |-> 0] /\ answer = [p \in Clients |-> 0]
  BY DEF LampInit, Init, LibInit, LibraryAssumption
<1>2. LampTypeOK
  BY <1>1 DEF LampTypeOK
<1> QED
  BY <1>1, <1>2 DEF LampInv, ClaimedHandles, ReaderIsNewest, Reading, Backlog, Behind, EchoFresh,
                    LiveIsConfigured, ReplyState, TransmitIsTrue, EchoOwed

(* LampInv, on top of the firmware's invariants, holds in every state. *)
THEOREM LampInvariance == LampSpec => []LampInv
<1>1. IInv /\ OrderInv /\ LampInv /\ [LampNext]_lampVars => LampInv'
  BY NextLampType, NextClaimed, NextReaderIsNewest, NextBacklog, NextEchoFresh, NextLive,
     NextLampReply, NextEchoOwed DEF LampInv
<1>2. LampSpec => LampInit /\ [][LampNext]_lampVars
  BY PTL DEF LampSpec
<1> QED
  BY <1>1, <1>2, InitLampInv, LampIsFirmware, Invariance, Ordered, PTL

(* Every variable of the host keeps its type, and no process has an answer    *)
(* from the future.                                                           *)
THEOREM LampTypeCorrect == LampSpec => []LampTypeOK
<1>1. LampInv => LampTypeOK
  BY DEF LampInv
<1> QED
  BY <1>1, LampInvariance, PTL

(* Two processes never have transfers on the lamp at the same time, however   *)
(* many there are and whatever happens to them (init, release).               *)
THEOREM OneOwner == LampSpec => []OwnedTransfers
<1>1. LampInv => OwnedTransfers
  BY DEF LampInv, ClaimedHandles, OwnedTransfers
<1> QED
  BY <1>1, LampInvariance, PTL

(* An answer certifies that the LEDs have shown the request that it echoes    *)
(* (loop_tick, send_recv_pkt).                                                *)
THEOREM AnswersAreShown == LampSpec => []AnswerIsShown
<1>1. IInv /\ OrderInv /\ LampInv => AnswerIsShown
  <2> SUFFICES ASSUME IInv, OrderInv, LampInv, NEW p \in Clients
               PROVE  answer[p] <= shown[1].id
    BY DEF AnswerIsShown
  <2>1. answer[p] \in 0 .. echoed /\ echoed \in Nat /\ shown[1].id \in Nat
    BY Numbers DEF LampInv, LampTypeOK, IInv
  <2>2. echoed <= shown[1].id
    BY DEF OrderInv, ReplyOrder
  <2> QED
    BY <2>1, <2>2
<1> QED
  BY <1>1, LampIsFirmware, Invariance, Ordered, LampInvariance, PTL

(* An echo from before a bus reset is never offered after it (usb_event_cb's  *)
(* usbInitEndpointI and chIQResetI against what the reset leaves alone).      *)
THEOREM EchoesAreFresh == LampSpec => []NoEchoAcrossReset
<1>1. LampInv => NoEchoAcrossReset
  BY DEF LampInv, EchoFresh, NoEchoAcrossReset
<1> QED
  BY <1>1, LampInvariance, PTL

(* The firmware never leaves its IN endpoint marked busy for nothing under    *)
(* this host, which configures it only after a bus reset (usb_send_data).     *)
THEOREM LampTransmitIsTrue == LampSpec => []TransmitIsTrue
<1>1. LampInv => TransmitIsTrue
  BY DEF LampInv, ReplyState
<1> QED
  BY <1>1, LampInvariance, PTL

(* The host and the lamp never wait for each other, for any number of         *)
(* processes, faults and unplugs (send_recv_pkt against loop_tick, ep1out_cb  *)
(* and usb_input_queue_inotify): what a process waits for is there whenever   *)
(* the firmware rests.                                                        *)
THEOREM NoDeadlock == LampSpec => []NoStandstill
<1>1. IInv /\ NeverDeaf /\ LampInv => NoStandstill
  <2> SUFFICES ASSUME IInv, NeverDeaf, LampInv, Resting, NEW p \in Clients, handle[p] = "live"
               PROVE  /\ pc[p] = "write" => Accepting
                      /\ pc[p] = "read" => configured /\ inFifo # <<>>
    BY DEF NoStandstill
  <2>1. configured
    BY DEF LampInv, LiveIsConfigured
  <2>2. mpc = "wait" /\ pump = "idle" /\ rxFifo = <<>> /\ ~txPending
    BY <2>1 DEF Resting
  <2>3. Accepting
    BY <2>1, <2>2 DEF NeverDeaf
  <2>4. ASSUME pc[p] = "read" PROVE inFifo # <<>>
    <3>1. r = 0 /\ queue = <<>> /\ ~Queued("data")
      BY <2>2 DEF IInv, ReaderState, Queued
    <3>2. transmitting
      BY <2>2, <2>4, <3>1 DEF LampInv, EchoOwed, Reading
    <3> QED
      BY <2>2, <3>2 DEF LampInv, ReplyState, TransmitIsTrue
  <2> QED
    BY <2>1, <2>3, <2>4
<1> QED
  BY <1>1, LampIsFirmware, Invariance, NoLostRearm, LampInvariance, PTL

(* Without faults the report that is being answered is the newest. *)
LEMMA AnsweredIsNewest ==
  ASSUME IInv, OrderInv, LampInv, faults = 0, configured, mpc = "send"
  PROVE  shown[1].id = sent
<1>1. /\ sent \in Nat /\ echoed \in Nat /\ before \in Nat /\ shown[1].id \in Nat
      /\ ReplyOrder /\ StreamOrder /\ EchoFresh
  BY Numbers DEF IInv, TypeOK, LampInv, LampTypeOK, OrderInv
<1>2. sent <= echoed + 1 \/ sent <= before + 1
  BY <1>1 DEF LampInv, Backlog, Behind
<1>3. ans = shown /\ echoed < ans[1].id /\ ans[1].id > before /\ shown[1].id <= sent
  BY <1>1 DEF ReplyOrder, StreamOrder, EchoFresh
<1> QED
  BY <1>1, <1>2, <1>3

(* Behind the newest report there is none. *)
LEMMA NothingBehind ==
  ASSUME IInv, OrderInv, shown[1].id = sent
  PROVE  r = 0 /\ queue = <<>> /\ ~Queued("data")
<1>1. /\ TypeOK /\ StreamOrder /\ sent \in Nat /\ r \in Nat /\ rxFifo \in Seq(Entry)
      /\ Len(queue) \in Nat /\ DOMAIN queue = 1 .. Len(queue)
  BY Numbers DEF IInv, TypeOK, OrderInv
<1>2. r = 0
  BY <1>1, Numbers DEF StreamOrder
<1>3. queue = <<>>
  <2> SUFFICES ASSUME queue # <<>> PROVE FALSE
    OBVIOUS
  <2>1. 1 \in DOMAIN queue
    BY <1>1, EmptySeq DEF TypeOK
  <2>2. sent < queue[1].id /\ queue[1].id <= sent /\ queue[1].id \in Nat
    BY <1>1, <2>1, Numbers DEF StreamOrder
  <2> QED
    BY <1>1, <2>2
<1>4. ~Queued("data")
  <2> SUFFICES ASSUME NEW i \in DOMAIN rxFifo, rxFifo[i].kind = "data" PROVE FALSE
    BY DEF Queued
  <2>1. sent < rxFifo[i].arg /\ rxFifo[i].arg <= sent
    BY <1>1 DEF StreamOrder
  <2>2. rxFifo[i] \in Entry
    BY <1>1, LenProperties, ElementOfSeq
  <2>3. \A e \in Entry : e.arg \in Nat
    BY DEF Entry
  <2> QED
    BY <1>1, <2>1, <2>2, <2>3
<1> QED
  BY <1>2, <1>3, <1>4

(* Without faults no report is written while an echo is owed. *)
LEMMA NoWriteBeforeEcho ==
  ASSUME IInv, OrderInv, LampInv, faults = 0, NEW p \in Clients, Write(p)
  PROVE  ~transmitting
<1>1. /\ sent \in Nat /\ echoed \in Nat /\ before \in Nat /\ shown[1].id \in Nat
      /\ inFifo # <<>> => inFifo[1].id \in Nat
      /\ ReplyOrder /\ StreamOrder /\ EchoFresh /\ TransmitIsTrue /\ LampTypeOK /\ ClaimedHandles
  BY Numbers DEF IInv, TypeOK, LampInv, LampTypeOK, OrderInv, ReplyState
<1>2. configured /\ pc[p] = "write" /\ handle[p] = "live"
  BY DEF Write, HostOut, Accepting, Written
<1>3. \A q \in Clients : ~Reading(q)
  BY <1>1, <1>2, OnlyOne DEF Reading, InCall
<1>4. sent <= echoed \/ sent <= before
  BY <1>1, <1>3 DEF LampInv, Backlog, Behind
<1>5. ans = shown /\ shown[1].id <= sent
  BY <1>1 DEF ReplyOrder, StreamOrder
<1>6. inFifo = <<>>
  BY <1>1, <1>4, <1>5 DEF ReplyOrder, EchoFresh
<1>7. ~txLeft
  BY <1>1, <1>2, <1>4, <1>5 DEF ReplyOrder, EchoFresh
<1> QED
  BY <1>1, <1>6, <1>7 DEF TransmitIsTrue

(* The firmware's steps keep an echo that is owed alone. *)
LEMMA FirmwareKeepsAlone ==
  ASSUME IInv, OrderInv, LampInv, NoEchoDropped, faults = 0, Main \/ Pump \/ UseNull, transmitting'
  PROVE  mpc' # "send" /\ r' = 0 /\ queue' = <<>> /\ ~Queued("data")'
<1>0. TypeOK /\ FifoShape /\ ReplyState
  BY DEF IInv, LampInv
<1>1. ASSUME UNCHANGED <<transmitting, r, queue, rxFifo>>, mpc' # "send"
      PROVE  r' = 0 /\ queue' = <<>> /\ ~Queued("data")'
  BY <1>1 DEF NoEchoDropped, Queued
<1>2. CASE Send
  <2>1. configured /\ mpc = "send" /\ mpc' = "notify" /\ UNCHANGED <<r, queue, rxFifo>>
    BY <1>2 DEF Send, NoEchoDropped, outVars
  <2> QED
    BY <2>1, AnsweredIsNewest, NothingBehind DEF Queued
<1>3. CASE Eval
  <2>1. transmitting /\ r = ReportSize
    BY <1>3 DEF Eval, usbVars, IInv, ReaderState
  <2> QED
    BY <2>1 DEF NoEchoDropped
<1>4. CASE Take
  <2>1. transmitting /\ UNCHANGED rxFifo
    BY <1>4 DEF Take, usbVars, outVars
  <2>2. queue = <<>>
    BY <2>1 DEF NoEchoDropped
  <2> QED
    BY <1>1, <1>4, <2>1, <2>2 DEF Take, usbVars
<1>5. CASE PumpData
  <2>1. transmitting /\ rxFifo # <<>> /\ Head(rxFifo).kind = "data"
    BY <1>5 DEF PumpData, usbVars
  <2>2. Queued("data")
    BY <1>0, <2>1, FifoTail, FifoDomain DEF Queued
  <2> QED
    BY <2>1, <2>2 DEF NoEchoDropped
<1>6. CASE PumpDone
  <2>1. /\ transmitting /\ UNCHANGED <<r, queue, mpc>> /\ rxFifo # <<>> /\ rxFifo' = Tail(rxFifo)
    BY <1>6 DEF PumpDone, mainVars
  <2>2. ~Queued("data")'
    <3> SUFFICES ASSUME NEW i \in DOMAIN rxFifo', rxFifo'[i].kind = "data" PROVE FALSE
      BY DEF Queued
    <3>1. i + 1 \in DOMAIN rxFifo /\ rxFifo'[i] = rxFifo[i + 1]
      BY <1>0, <2>1, FifoTail
    <3> QED
      BY <2>1, <3>1 DEF NoEchoDropped, Queued
  <2> QED
    BY <2>1, <2>2 DEF NoEchoDropped
<1>7. CASE PumpSetup
  <2>1. /\ rxFifo # <<>> /\ Head(rxFifo).kind = "setup" /\ Head(rxFifo) = rxFifo[1]
        /\ 1 \in DOMAIN rxFifo
    BY <1>0, <1>7, FifoTail, FifoDomain DEF PumpSetup
  <2>2. transmitting' = transmitting
    BY <1>7 DEF PumpSetup, usb_event_cb, Configure, Deconfigure
  <2> QED
    BY <1>0, <2>1, <2>2 DEF ReplyState
<1>8. CASE Poll \/ Notify \/ Prepare \/ Start \/ PumpCount \/ PumpIn \/ UseNull
  <2>1. UNCHANGED <<transmitting, r, queue, rxFifo>> /\ (mpc' = "send" => mpc = "send")
    BY <1>8 DEF Poll, Notify, Prepare, Start, PumpCount, PumpIn, UseNull, usbVars, outVars, mainVars
  <2> QED
    BY <1>1, <2>1 DEF NoEchoDropped
<1> QED
  BY <1>2, <1>3, <1>4, <1>5, <1>6, <1>7, <1>8 DEF Main, Pump

(* Every step keeps an echo that is owed alone in the firmware. *)
LEMMA NextNoEchoDropped ==
  IInv /\ OrderInv /\ LampInv /\ NoEchoDropped /\ [LampNext]_lampVars => NoEchoDropped'
<1> SUFFICES ASSUME IInv, OrderInv, LampInv, NoEchoDropped, [LampNext]_lampVars,
                    faults' = 0, transmitting'
             PROVE  mpc' # "send" /\ r' = 0 /\ queue' = <<>> /\ ~Queued("data")'
  BY DEF NoEchoDropped
<1>0. LampTypeOK /\ ReplyState /\ faults \in Nat
  BY DEF LampInv, LampTypeOK
<1>1. CASE Firmware(Main) \/ Firmware(Pump) \/ Firmware(UseNull)
  BY <1>1, FirmwareKeepsAlone DEF Firmware, libVars
<1>2. CASE Enumerate
  BY <1>0, <1>2 DEF Enumerate, SetConfiguration, usbVars, ReplyState
<1>3. CASE Unplug
  BY <1>3 DEF Unplug, BusReset
<1>4. ASSUME NEW p \in Clients, Write(p) PROVE FALSE
  BY <1>4, NoWriteBeforeEcho DEF Write, HostOut, Written, usbVars
<1>5. ASSUME NEW p \in Clients, Read(p) PROVE FALSE
  BY <1>5 DEF Read, HostIn
<1>6. CASE UNCHANGED <<vars, faults>>
  BY <1>6 DEF NoEchoDropped, vars, usbVars, outVars, mainVars, Queued
<1>7. ASSUME NEW p \in Clients, ClientStep(p) PROVE UNCHANGED <<vars, faults>>
  BY <1>0, <1>7, ClientAlone
<1> QED
  BY <1>1, <1>2, <1>3, <1>4, <1>5, <1>6, <1>7 DEF LampNext, lampVars, libVars

(* Before any timeout or kill usb_send_data finds the IN endpoint free each   *)
(* time, and loop_tick, which ignores its result, drops no echo: for any      *)
(* number of processes that take turns at the lamp, and through any unplugs.  *)
THEOREM FaultlessDropsNothing == LampSpec => []NoEchoDropped
<1>1. LampInit => NoEchoDropped
  BY DEF LampInit, Init, NoEchoDropped
<1>2. LampSpec => LampInit /\ [][LampNext]_lampVars
  BY PTL DEF LampSpec
<1> QED
  BY <1>1, <1>2, NextNoEchoDropped, LampIsFirmware, Invariance, Ordered, LampInvariance, PTL

(* Every lamp with its host implements the device of LedDevice: each report   *)
(* that a write delivers is shown once, whole and in order; what an unplug    *)
(* finds between the two may be lost.                                         *)
THEOREM LampImplementsDevice == LampSpec => ImplementsDevice
BY LampIsFirmware, Implements, PTL

(* What a read collects is the echo of a report that is shown, and that is no *)
(* later than the reader's request and at most one behind it for each fault.  *)
LEMMA ReadCollects ==
  ASSUME IInv, OrderInv, LampInv, NEW p \in Clients, Read(p)
  PROVE  /\ Reading(p) /\ answer' = [answer EXCEPT ![p] = echoed'] /\ echoed' \in Nat
         /\ echoed' >= echoed + 1 /\ echoed' > before /\ echoed' <= shown[1].id
         /\ echoed' <= asked[p] /\ asked[p] - echoed' <= faults
<1>1. /\ sent \in Nat /\ echoed \in Nat /\ before \in Nat /\ faults \in Nat /\ shown[1].id \in Nat
      /\ EchoFresh /\ ReplyOrder /\ StreamOrder /\ TypeOK
  BY Numbers DEF IInv, TypeOK, LampInv, LampTypeOK, OrderInv
<1>2. HostIn /\ Reading(p) /\ answer' = [answer EXCEPT ![p] = inFifo[1].id] /\ inFifo # <<>>
  BY DEF Read, HostIn, Answered, Reading
<1>3. asked[p] = sent
  BY <1>2 DEF LampInv, ReaderIsNewest
<1>4. /\ echoed' = inFifo[1].id /\ echoed' \in Nat /\ echoed' >= echoed + 1 /\ echoed' > before
  BY <1>1, <1>2, CollectedEcho
<1>5. echoed' <= shown[1].id /\ shown[1].id <= sent
  BY <1>1, <1>2, <1>4 DEF ReplyOrder, StreamOrder
<1>6. sent <= echoed + (faults + 1) \/ sent <= before + (faults + 1)
  BY DEF LampInv, Backlog, Behind
<1>7. echoed' <= sent /\ sent - echoed' <= faults
  BY <1>1, <1>4, <1>5, <1>6
<1> QED
  BY <1>2, <1>3, <1>4, <1>5, <1>7

(* However many faults and unplugs there are, an answer is at most one        *)
(* request behind for each fault, and never ahead (send_recv_pkt).            *)
THEOREM AnswersLagByFaults == LampSpec => AnswerLag
<1> DEFINE Lag == \A p \in Clients : Read(p) => /\ answer'[p] <= asked[p]
                                                /\ asked[p] - answer'[p] <= faults
<1>1. IInv /\ OrderInv /\ LampInv => Lag
  BY ReadCollects DEF LampInv, LampTypeOK
<1>2. LampSpec => [][Lag]_lampVars
  BY <1>1, LampIsFirmware, Invariance, Ordered, LampInvariance, PTL
<1> QED
  BY <1>2 DEF AnswerLag

-----------------------------------------------------------------------------
(* The refinement of LampService. *)

(* The programs that wait for an answer. *)
Waiting == {q \in Clients : Reading(q)}

(* The lamp starts as the service does. *)
LEMMA InitIsService == LampInit => Service!Init
<1> SUFFICES ASSUME LampInit PROVE Service!Init
  OBVIOUS
<1>1. /\ sent = 0 /\ echoed = 0 /\ before = 0 /\ faults = 0 /\ owner = None
      /\ asked = [p \in Clients |-> 0] /\ answer = [p \in Clients |-> 0]
      /\ pc = [p \in Clients |-> "off"] /\ shown = Zeroes
  BY DEF LampInit, Init, LibInit
<1>2. {q \in Clients : Reading(q)} = {}
  BY <1>1 DEF Reading
<1>3. shown[1].id = 0
  BY <1>1 DEF Zeroes
<1> QED
  BY <1>1, <1>2, <1>3 DEF Service!Init

(* The firmware's steps show a report that waits, or nothing that the service *)
(* knows of.                                                                  *)
LEMMA FirmwareServes ==
  ASSUME IInv, OrderInv, Main \/ Pump \/ UseNull, UNCHANGED <<libVars, before>>
  PROVE  Service!Show \/ UNCHANGED Service!vars
<1>1. UNCHANGED <<owner, asked, answer, sent, echoed, before, faults>>
  BY FirmwareQuiet DEF libVars, hostVars
<1>2. Waiting' = Waiting
  BY DEF libVars, Waiting, Reading
<1>3. CASE Eval
  <2>1. /\ StreamOrder' /\ shown[1].id < shown'[1].id /\ shown'[1].id = req[r].id
        /\ r = ReportSize
    BY <1>3, EvalOrder DEF OrderInv, Eval, IInv, ReaderState
  <2>2. shown[1].id \in Nat /\ shown'[1].id \in Nat /\ sent \in Nat
    BY <2>1, Numbers DEF IInv
  <2>3. shown'[1].id <= sent
    BY <1>1, <2>1 DEF StreamOrder
  <2>4. shown'[1].id \in shown[1].id + 1 .. sent
    BY <2>1, <2>2, <2>3
  <2> QED
    BY <1>1, <1>2, <2>4 DEF Service!Show, Waiting
<1>4. CASE Poll \/ Notify \/ Prepare \/ Start \/ Take \/ Send \/ Pump \/ UseNull
  <2>1. UNCHANGED shown
    BY <1>4 DEF Poll, Notify, Prepare, Start, Take, Send, Pump, PumpData, PumpCount, PumpDone,
                PumpSetup, usb_event_cb, Configure, Deconfigure, PumpIn, UseNull, mainVars
  <2> QED
    BY <1>1, <1>2, <2>1 DEF Service!vars, Waiting
<1> QED
  BY <1>3, <1>4 DEF Main

(* A bulk write is a request to the service, a bulk read its answer. *)
LEMMA WriteRequests ==
  ASSUME LampTypeOK, ClaimedHandles, NEW p \in Clients, Write(p)
  PROVE  Service!Request(p)
<1>1. /\ pc \in [Clients -> Places] /\ pc[p] = "write" /\ handle[p] = "live"
      /\ pc' = [pc EXCEPT ![p] = "read"] /\ asked' = [asked EXCEPT ![p] = sent + 1]
      /\ sent' = sent + 1 /\ UNCHANGED <<owner, handle, answer, shown, echoed, before, faults>>
  BY DEF Write, HostOut, Written, Goto, LampTypeOK, Places, mainVars
<1>2. owner = p
  BY <1>1 DEF ClaimedHandles
<1>3. Waiting = {}
  <2> SUFFICES ASSUME NEW q \in Clients, Reading(q) PROVE FALSE
    BY DEF Waiting
  <2>1. q = p
    BY <1>1, OnlyOne DEF Reading, InCall
  <2> QED
    BY <1>1, <2>1 DEF Reading
<1>4. Waiting' = {p}
  <2>1. Reading(p)'
    BY <1>1 DEF Reading
  <2>2. \A q \in Clients \ {p} : ~Reading(q)'
    BY <1>1, <1>3 DEF Waiting, Reading
  <2> QED
    BY <2>1, <2>2 DEF Waiting
<1> QED
  BY <1>1, <1>2, <1>3, <1>4 DEF Service!Request, Waiting

LEMMA ReadAnswers ==
  ASSUME IInv, OrderInv, LampInv, NEW p \in Clients, Read(p)
  PROVE  Service!Answer(p)
<1>1. /\ pc \in [Clients -> Places] /\ pc[p] = "read" /\ handle[p] = "live"
      /\ pc' = [pc EXCEPT ![p] = AfterCall(p)]
      /\ UNCHANGED <<owner, handle, asked, shown, sent, before, faults>>
  BY DEF Read, HostIn, Answered, Goto, LampInv, LampTypeOK, Places, mainVars
<1>2. owner = p
  BY <1>1 DEF LampInv, ClaimedHandles
<1>3. \A q \in Clients \ {p} : ~Reading(q)
  BY <1>1, OnlyOne DEF LampInv, Reading, InCall
<1>4. Waiting = {p} /\ Waiting' = {}
  <2>1. ~Reading(p)'
    BY <1>1, OutsideCall DEF Reading
  <2>2. \A q \in Clients \ {p} : ~Reading(q)'
    BY <1>1, <1>3 DEF Reading
  <2> QED
    BY <1>1, <1>3, <2>1, <2>2 DEF Waiting, Reading
<1>5. /\ echoed \in Nat /\ shown[1].id \in Nat /\ echoed' \in echoed + 1 .. shown[1].id
      /\ echoed' > before /\ echoed' <= asked[p] /\ asked[p] - echoed' <= faults
      /\ answer' = [answer EXCEPT ![p] = echoed']
  BY ReadCollects, Numbers DEF IInv, TypeOK
<1> QED
  BY <1>1, <1>2, <1>4, <1>5 DEF Service!Answer, Waiting

(* An unplug takes the lamp from its holder, and every reader's answer.       *)
LEMMA UnplugUnplugs ==
  ASSUME Unplug
  PROVE  Service!Unplug
<1>1. /\ owner' = None /\ before' = sent /\ \A q \in Clients : handle'[q] # "live"
      /\ UNCHANGED <<asked, answer, sent, shown, echoed, faults>>
  BY DEF Unplug, BusReset, Unplugged, mainVars
<1>2. Waiting' = {}
  BY <1>1 DEF Waiting, Reading
<1> QED
  BY <1>1, <1>2 DEF Service!Unplug, Waiting

(* What a process does alone is to take or leave the lamp, a fault, or nothing*)
(* that the service knows of.                                                 *)
LEMMA ClientServes ==
  ASSUME LampTypeOK, ClaimedHandles, NEW p \in Clients, ClientStep(p)
  PROVE  Service!Hold(p) \/ Service!Leave(p) \/ Service!Fault(p) \/ UNCHANGED Service!vars
<1>1. /\ UNCHANGED <<asked, answer, sent, shown, echoed, before>>
      /\ \A q \in Clients \ {p} : /\ pc'[q] = pc[q] /\ handle'[q] = handle[q]
      /\ pc'[p] # "read"
  BY ClientAlone DEF vars, mainVars, hostVars
<1>2. Waiting' = Waiting \ {p}
  BY <1>1 DEF Waiting, Reading
<1>3. ASSUME UNCHANGED <<owner, faults>>, ~Reading(p)
      PROVE  UNCHANGED Service!vars
  BY <1>1, <1>2, <1>3 DEF Service!vars, Waiting
<1>4. CASE Process(Open(p, configured)) \/ Process(InitFails(p)) \/ Process(Crash(p))
           \/ Process(sent < MaxReports /\ Call(p)) \/ Process(NoDevice(p))
  BY <1>3, <1>4 DEF Process, Open, InitFails, Crash, Call, NoDevice, Reading
<1>5. CASE Process(Claim(p))
  <2>1. owner = None /\ owner' = p /\ UNCHANGED faults /\ p \notin Waiting
    BY <1>5 DEF Process, Claim, Waiting, Reading
  <2> QED
    BY <1>1, <1>2, <2>1 DEF Service!Hold, Waiting
<1>6. CASE Process(TimesOut(p)) \/ Process(Kill(p))
  <2>1. faults' = faults + 1 /\ (owner' = owner \/ (owner = p /\ owner' = None))
    BY <1>6 DEF Process, TimesOut, Kill, Disown
  <2> QED
    BY <1>1, <1>2, <2>1 DEF Service!Fault, Waiting
<1>7. CASE Process(Release(p))
  <2>1. ~Reading(p) /\ UNCHANGED faults /\ (owner' = owner \/ (owner = p /\ owner' = None))
    BY <1>7, OutsideCall DEF Process, Release, Disown, Reading
  <2>2. CASE owner' = owner
    BY <1>3, <2>1, <2>2
  <2>3. CASE owner = p /\ owner' = None
    BY <1>1, <1>2, <2>1, <2>3 DEF Service!Leave, Waiting
  <2> QED
    BY <2>1, <2>2, <2>3
<1> QED
  BY <1>4, <1>5, <1>6, <1>7 DEF ClientStep

(* Every step of the lamp with its host is one of the service, or none. *)
LEMMA NextIsService ==
  IInv /\ OrderInv /\ LampInv /\ [LampNext]_lampVars => [Service!Next]_(Service!vars)
<1> SUFFICES ASSUME IInv, OrderInv, LampInv, [LampNext]_lampVars
             PROVE  Service!Next \/ UNCHANGED Service!vars
  OBVIOUS
<1>0. LampTypeOK /\ ClaimedHandles
  BY DEF LampInv
<1>1. CASE Firmware(Main) \/ Firmware(Pump) \/ Firmware(UseNull)
  BY <1>1, FirmwareServes DEF Firmware, Service!Next
<1>2. CASE Enumerate \/ UNCHANGED lampVars
  <2>1. UNCHANGED <<libVars, before, shown, sent, echoed>>
    BY <1>2 DEF Enumerate, SetConfiguration, lampVars, vars, mainVars, hostVars
  <2> QED
    BY <2>1 DEF libVars, Service!vars, Reading
<1>3. CASE Unplug
  BY <1>3, UnplugUnplugs DEF Service!Next
<1>4. ASSUME NEW p \in Clients, Write(p) PROVE Service!Next
  BY <1>0, <1>4, WriteRequests DEF Service!Next
<1>5. ASSUME NEW p \in Clients, Read(p) PROVE Service!Next
  BY <1>5, ReadAnswers DEF Service!Next
<1>6. ASSUME NEW p \in Clients, ClientStep(p) PROVE Service!Next \/ UNCHANGED Service!vars
  BY <1>0, <1>6, ClientServes DEF Service!Next
<1> QED
  BY <1>1, <1>2, <1>3, <1>4, <1>5, <1>6 DEF LampNext

(* Library, bus and firmware together implement the service that the programs *)
(* count on, for every number of them and however many faults and unplugs     *)
(* there are (init, release, send_recv_pkt and the firmware under them).      *)
THEOREM LampIsService == LampSpec => ImplementsService
<1>1. LampInit => Service!Init
  BY InitIsService
<1>2. LampSpec => LampInit /\ [][LampNext]_lampVars
  BY PTL DEF LampSpec
<1> QED
  BY <1>1, <1>2, NextIsService, LampIsFirmware, Invariance, Ordered, LampInvariance, PTL
     DEF ImplementsService, Service!Spec
=============================================================================
