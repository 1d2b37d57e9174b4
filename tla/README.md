# Verification of the MoooD lamp

MoooD is an RGB lamp on USB: an STM32 board whose firmware (ChibiOS/RT 2.6) receives 64-byte packets on a
bulk endpoint, sets three PWM channels and echoes the packet; a C library on libusb; a JNI bridge; a Java
application, MoodLed, that looks at the screen for its mood; and a command line test program. This directory
holds TLA+ modules of these parts, TLC configurations that check them on small instances, and TLAPS proofs
for all values of the constants. Paths below are relative to `src/software/`; the firmware's sources are in
`firmware/MoooDFw/app/`, the library's in `application/linux/MoooDLib/src/`, the application's in
`application/linux/MoooDLed/src/com/absence/chiara/MoodLed/`.

## The system

| Component | State | Operations | What makes it correct |
|---|---|---|---|
| Endpoint and queue glue, `usbcfg.c` | input queue of two reports, busy bits of endpoint 1, IN buffer | `usb_read_data`, `usb_send_data`, `usb_input_queue_inotify`, `ep1out_cb`, `ep1in_cb`, `usb_event_cb` | room is reserved before a report is accepted; reports stay whole; neither direction stops for good |
| Packet loop, `proto.c`, `main.c` | `req_pkt`, `ans_pkt`, PWM channels | `loop_tick`, `eval_pkt`, `set_duty_cycle` | every accepted report is shown once, in order; the LEDs show what was asked |
| USB driver, queues, scheduler of ChibiOS; OTG core | RX FIFO, TX FIFO, NAK bit, packet count, pending bits, `rxcnt` | pump thread, interrupts | external: modelled as far as the glue uses it |
| Host library, `libusbled.c` | one static libusb handle, the claim on interface 0 | `init`, `release`, `send_recv_pkt` and its callers | one user at a time; an answer belongs to its request |
| JNI bridge, `ledmanager.c` | - | five pass-through functions | - |
| Test program, `test_dev.c` | its copy of the library, one `pkt_t` | `-n`, `-f`, `-s`, transfer loop | as the library |
| MoodLed, `MoodLed.java` | colour chooser, tray icon | constructor, timer, button | shows the colour of the screen |
| Colour analysis, `Colors.java`, `ScreenAnalyzer.java` | count and mean colour of 21 buckets, static | `count`, `getPredominantColor`, `resetCount` | a refresh shows the fullest bucket of what it captured, in a colour of this screen and not of those before |
| Descriptors and endpoint 0, `usbcfg.c:30-237, 362-438` | constant tables | `usb_get_descriptor_cb`, `usb_request_hook_cb` | an enumeration ends; answers stay inside their tables; tables agree with each other, with the endpoints and with the library |

How they meet. When the lamp is plugged in, the kernel reads its descriptors on endpoint 0 and sets its
configuration; the library looks for the lamp in what the kernel has read. A host process calls `send_recv_pkt`:
a bulk write, which ends when the OTG core acknowledges the report, and a bulk read, which ends when the core
has an echo to give. In the device the pump thread copies the report from the RX FIFO to the input queue; the
interrupts that its FIFO reads release run `ep1out_cb` and `usb_event_cb`; the main thread takes the queue byte
by byte, arming the next reception before each byte (`usb_input_queue_inotify`), evaluates the packet, and hands
the echo to the IN endpoint. Three parties share the queue and the flags, and two of them re-arm the reception.

What is hard: the interrupt and the reader each leave re-arming to the other; the reader drops its lock
between checking and using the endpoint; SET_CONFIGURATION and bus resets clear some of the state and leave
the rest (queue, busy bits, pending bits, a blocked reader); the one `ans_pkt` is reused while an echo may
still have to be copied from it; a timeout or a killed process leaves an echo behind that the next call
takes for its own; 16-bit duty arithmetic; unlocked counters in three Java threads; lengths, counts and indices
that several tables have to agree on, one of them with entries commented out. `PROJECT.json` lists these
hazards, each at its line with the properties that cover it.

## Modules

| Module | Models | How it corresponds to the code |
|---|---|---|
| `UsbFirmware` | `usbcfg.c` (queue, endpoint 1, events), `loop_tick`, `main`, and the driver below | `Poll`..`Send` are the steps of the main thread between two points where it can be interrupted or preempted: `Notify` is inotify's locked check, `Prepare` what it does unlocked, `Start`+`Take` the part from the second lock to the copy of one byte, `Eval` the evaluation and the copy to `ans_pkt`, `Send` `usb_send_data`. `Pump*` are the pump thread with the interrupts it releases. `HostOut`, `HostIn`, `SetConfiguration` and `BusReset` are the bus. `UseNull` is a use of `epc[1]` after a bus reset has set it to NULL; nothing is claimed after it |
| `LedDevice` | abstract: what the lamp promises | acknowledged reports are shown once, whole and in order; a reset may lose the newest |
| `HostLibrary` | `libusbled.c` in the processes of MoodLed and of `test_dev.c` | one action per return of `init`, `send_recv_pkt` and `release`, with timeouts, kills, a device that is gone, and an `init` whose failure MoodLed ignores |
| `Lamp` | composition of the two | EXTENDS both. A bulk write is one step of firmware and library together (`HostOut` with `Written`), a bulk read the other (`HostIn` with `Answered`) |
| `LampService` | abstract: what library, bus and firmware promise to programs | one holder at a time; a holder's request is shown or lost; an answer comes to the holder that waits, of a report that is shown, in order, at most one request late for each fault, and none from before an unplug |
| `LedProto` | `eval_pkt`, `set_duty_cycle`, the requests of library and test program | arithmetic with the widths of the code: 16-bit `pwmcnt_t`, uninitialised packets as arbitrary ones |
| `MoodColors` | `Colors.java`, `ScreenAnalyzer.java`, `ColorComparator.java`, threads of `MoodLed.java` | a refresh is `Begin`, then for each pixel `ReadCount` and `WriteCount` (`count++`), for each bucket `ReadNext` and `Compare` (`Collections.max`) and `ResetCount`, then `SetColor` and `SetToolTip` |
| `MeanColors` | the colour of a bucket, `Colors.java:81-87` | `Count` begins a pixel, `ReadChannel` is one of the three reads of `c.color`, `NewColor` the write. One bucket is enough, as they share no colour |
| `MCMoodColors`, `MCMeanColors` | screens, pixels and symmetry for TLC | - |
| `Enumeration` | tables and endpoint 0 callbacks of `usbcfg.c`, the ids and endpoints of `libusbled.c` | the tables are the bytes of the code; `Respond` is `_usb_ep0setup` with hook, default handler and stall; `Ask`, `Collect`, `Stalled` are the kernel's control transfers, `Other` those of other programs; `Cut` is what the kernel keeps of a reply |
| `UsbFirmware_proofs` | type correctness, queue, busy bits | theorems |
| `UsbFirmware_refinement` | order of reports and echoes, refinement of `LedDevice` | theorems, on top of `UsbFirmware_proofs` |
| `Lamp_proofs` | the composition | theorems, on top of `UsbFirmware_refinement` |
| `LedProto_proofs`, `MoodColors_proofs`, `MeanColors_proofs`, `Enumeration_proofs` | their modules | theorems |

`PROJECT.json` maps each definition to its lines.

### What the models abstract

- A byte of a report is `[id, k]`, unit k of report id; a report has `ReportSize` units (64 in the code), and
  the queue holds two. The hosts of the repository always send 64 bytes, so short packets do not occur.
- Reading a byte with its lock held is one step, as in the code. The copy of a report from the RX FIFO to the
  queue is one step too: it runs in the pump, and nothing but an interrupt comes between its sixteen word reads.
  The interrupt that matters is a bus reset, which flushes the FIFO under the copy; what the rest of the reads
  then return is not defined by anything in the repository, and this one window is left out: a reset comes before
  the copy or after it, as far as the pump's next use of the endpoint (`pump = "count"`), where the reset is
  modelled and ends in `UseNull`.
- The pump runs only while the main thread sleeps or waits: `mcuconf.h:228` gives it LOWPRIO and the main
  thread has NORMALPRIO. The mutant `PumpPreempts` shows that whole reports depend on this.
- `sent`, `counted`, `resets`, `configs`, `faults` and `begun` are counters with bounds (`MaxReports`,
  `MaxPixels`, `MaxResets`, `MaxConfigs`, `MaxFaults`, `MaxRefreshes`), nothing else is cut off.
- `own` and `lone` of `MoodColors`, `before` of `Lamp`, `echoed` of `UsbFirmware` are history variables.
- `RGBtoHSB` and `h / 20 + 3` are exact in the model. Enumerating the 2^24 colours with the float operations
  of the code gives the exact bucket everywhere, except for hues on the border of two buckets, some of which
  fall in the lower one; `OnBorder` therefore gives both. Java threads are interleaved with every access
  visible at once; the Java memory model alone would promise less for unlocked fields.
- `MeanColors` has in each component of a colour two facts of its history: the level it would have had from
  another start (`other`) and the pixels mixed into it (`mixed`); `alone` counts the pixels since the last overlap.
- `Enumeration`: the characters of the strings and the items of the HID report are zeroes; lengths, types,
  indices, counts, addresses and ids are those of the code. Every table fits one packet of endpoint 0, so a
  data stage is one step. A kernel has one fixed order of requests; the model allows every order in which a
  request follows the answers it depends on. Other programs ask once the kernel has released the device. The
  module shares no state with `UsbFirmware`: they meet in SET_CONFIGURATION, with which `Enumeration` ends and
  which `UsbFirmware` takes at any time.

## Runs

| Run | Instance | What it shows |
|---|---|---|
| `replug` | 5 reports of 3 units, 2 resets, 3 configurations, one per reset | every report acknowledged before a reset is shown (`AcceptedIsShown`); busy bits are never left set (`TransmitIsTrue`); the endpoint accepts again (`AcceptsAgain`); a reply in the driver's hands is offered (`ReplyIsOffered`) |
| `resets` | 4 reports of 2 units, 2 resets, 4 configurations in any order, also zero and repeated | `TypeOK`, `RoomReserved`, `WholeReports`, `BusyIsTrue`, `NeverDeaf`; an endpoint is taken from a thread that is about to use it by a bus reset only (`RaceNeedsReset`); the inductive invariants `IInv` and `OrderInv`, `RepliesInOrder`, and the refinement `ImplementsDevice` |
| `faults` | MoodLed and the test program, 4 reports, up to 2 timeouts or kills, one unplugging | `OwnedTransfers`; an answer certifies what was shown (`AnswerIsShown`); answers lag by at most one request per fault, so with none every call returns its own echo (`AnswerLag`); no echo from before an unplugging is offered after (`NoEchoAcrossReset`); with no timeout or kill an echo that is owed is alone in the firmware, so `loop_tick`, which ignores the result of `usb_send_data`, drops none (`NoEchoDropped`); host and lamp never wait for each other (`NoStandstill`); the inductive invariant `LampInv`; the refinement `ImplementsService`; every call returns (`CallReturns`) |
| `leds` | duty cycles 0, 1, 99, 100, 656 | a valid request is shown exactly whatever came before (`ShowsRequest`) |
| `mood` | constructor's refresh, then 3 of two threads | `NoResidue`, `ShowsPredominant`, `IndexInRange`, `IInv` |
| `mean` | 10 pixels of two threads | the colour of a bucket, which nothing resets, keeps at most one level of the screens before once eight pixels were counted without an overlap (`Forgets`, `MeanInv`) |
| `enumeration` | one reset; other programs ask for 6 types, 3 indices, 3 lengths | the enumeration ends configured (`EnumerationEnds`); ids, lengths, counts and endpoints agree over six tables and two programs (`LampRecognised`); each named string is answered with a string (`NamesAreAnswered`); no answer reaches past its table (`NoOverread`); the inductive invariant `EnumerationInv` |

Five runs expect a violation; each finding in `PROJECT.json` quotes the comment that the code contradicts:

- `reply_dropped`: `usbcfg.c:266-272` and `usbcfg.h:38-39` tell of an output queue. There is none; the echo of
  a second report is given up while the first waits.
- `stale_busy`: `usbcfg.c:341` enables the endpoints on SET_CONFIGURATION. One that comes while an echo waits
  leaves the IN endpoint busy with nothing to send until a bus reset.
- `null_endpoint`: inotify checks the driver's state under the lock and uses the endpoint outside of it
  (`usbcfg.c:461-463`); a bus reset in between has set it to NULL.
- `hid_descriptor`: `usb_get_descriptor_cb` "returns the proper descriptor" (`usbcfg.c:365`), but the one of type
  HID is cut, at its old offset, from a table it was removed from: an endpoint descriptor is sent.
- `string_length`: the interface's string declares 12 bytes (`usbcfg.c:215`) and has 16.

Some comments are out of date where no step of the program goes wrong; the modules follow the code, and the
properties named hold for what it does:

- `libusbled.c:4-5` and `test_dev.c:4-5` (in `firmware/MoooDFw/`) say that EP1 "should be IN" and EP2 "should be
  OUT". The constants of both programs
  and the device's tables have endpoint 1 in both directions (`LampRecognised`).
- `usbcfg.c:68` explains `wTotalLength` as 9+9+9+7+7, which is 41, with the HID descriptor that is commented
  out. The code has 32, the length of the descriptors that are sent (`LampRecognised`).
- `main.c:39` counts channels 1 and 4 of the PWM as enabled; the table below it enables 1, 3 and 4, one for each
  colour (`ShowsRequest`).

### Bounds

Two units are the least that can be torn apart, and three (`replug`) give a middle one; the queue is always two
reports, as in the code. Four reports (five in `replug`) fill the queue while one is read and another waits in
the FIFO. Two resets let the second meet what the first left behind. Two processes are the least that compete
for the interface; two faults let answers lag by more than one. In `mood` the constructor's refresh is
followed by two that may overlap and one that may be alone after them; the captures hit the last hue bucket, a
fixed one, a border hue and a tie. In `mean` eight pixels can follow an overlap
of two; the pixel is above, below and at odd distance of the levels it is averaged with, and one of the other
starts is the furthest colour. In `enumeration` the types are those of the code and one it lacks, the
indices reach past the strings, and the lengths are nothing, less than a descriptor and more than any; the
kernel's own requests come from the answers, whatever the bounds are. Where TLAPS has proved a property, the
bounds no longer matter.

### Fairness

`FairSpec` has weak fairness for the main thread and for the pump. ChibiOS runs the highest ready thread, so
the main thread runs whenever it is not blocked, and the pump whenever the main thread is; both become
disabled only by their own steps or by a bus reset. `LampSpec` adds weak fairness for `Write(p)` and `Read(p)`: the
host controller retries a pending transfer until the endpoint takes part. `Enumeration` has weak fairness for
answers on endpoint 0 (interrupts) and for a kernel that has begun to enumerate. Nothing is owed by the host's
commands, timeouts, kills, exits, configurations or resets. After a use of a NULL endpoint (`mpc = "lost"`)
nothing is claimed.

Deadlock is not checked where the host may simply stop sending, processes may be over or no refresh is left
within the bound.

## Proofs

`UsbFirmware_proofs` proves `Spec => []IInv` for every `ReportSize` and all bounds, and from it `TypeCorrect`,
`NoOverrun` (`RoomReserved`), `BusyBitIsTrue` (`BusyIsTrue`), `NoTornReport` (`WholeReports`) and `NoLostRearm`
(`NeverDeaf`). The only assumption on the constants is `FirmwareAssumption` (they are numbers, a report has at
least one unit). None of these properties is inductive by itself:

- `RoomReserved` needs to know that the FIFO holds at most one report, its data before its completion, and a
  SETUP packet only behind it (`FifoShape`); that an endpoint that accepts is busy and has nothing to complete
  (`AcceptingIsBusy`); and that the room the reader saw is still there when it starts the reception
  (`NotifyWindow`), which holds because only the pump adds to the queue and it does not run then.
- `WholeReports` needs `WholeStream`: what is read, then what is queued, is one stream of whole reports. A
  reset of the queue keeps it because the reader is between two reports whenever the pump runs.
- `NeverDeaf` needs `ReaderState`: a reader that found the queue empty has left the endpoint busy.

`BusyReplyIsReal` proves `TransmitIsTrue` for a host that configures only after a bus reset (`~Reconfigures`;
the run `stale_busy` shows that it is false without). It needs `ReplyState`: a lamp without a configuration has
no busy IN endpoint, and a SETUP packet in the FIFO finds the lamp without one.

`OnlyResetsRace` proves `RaceNeedsReset`: the two windows in which a thread goes on with an endpoint that it has
looked at (the run `null_endpoint` falls into one) are open to bus resets only. The pump, which serves
SET_CONFIGURATION, runs in neither, and a report in the FIFO is one of a configured lamp (`FifoShape`).

`UsbFirmware_refinement` proves `OrderInv`, inductive relative to `IInv`, in three parts: `StreamOrder` (shown,
read, queued and arriving reports have growing ids), `ReplyOrder` (an echo offered is newer than those
collected, one still to be sent newer than both, and none is newer than the report shown) and `WholeCount` (the
queue and what is read of a report together are whole reports). From it come `RepliesAreInOrder`
(`RepliesInOrder`) and `Implements` (`Spec => ImplementsDevice`). The refinement mapping collects, in `Pending`,
the reports whose last unit is read but which are not evaluated, those in the queue and the one in the FIFO.
`HostOut` is `Accept`, `Eval` is `Evaluate`; taking a byte and copying a report move units within `Pending` and
are stutters; `BusReset` drops the arriving report and a configuration what is queued, both `Lose`.

`Lamp_proofs` first shows `LampIsFirmware` (`LampSpec => Spec`: every step of the composition is one of the
firmware or leaves it alone), so that all of the above holds of the lamp. `LampInv` is then inductive on top of
`IInv` and `OrderInv`, for any number of processes, faults and unplugs:

- `OneOwner` (`OwnedTransfers`) needs `ClaimedHandles`: from its claim on, a good handle belongs to the owner of
  the interface, also while the process is between two calls.
- `AnswersAreShown` (`AnswerIsShown`) uses `ReplyOrder`: an echo is never newer than what is shown.
- `EchoesAreFresh` (`NoEchoAcrossReset`) needs `EchoFresh`, which follows everything that can still become an
  echo: the buffers of the IN endpoint, `ans_pkt`, the report being read, the queue and the FIFO.
- `AnswersLagByFaults` (`AnswerLag`) needs `ReaderIsNewest` and `Backlog`, which counts the reports that have no
  echo yet against the faults, restarting at each reset.
- `NoDeadlock` (`NoStandstill`) needs `LiveIsConfigured` (a good handle is one to a configured lamp) and
  `EchoOwed`: as long as a process reads, its report is in the FIFO, queued, being read, evaluated or in the
  driver's hands. When the firmware rests only the last is left, and `ReplyState` says that the busy bit is not
  set for nothing; a write meets an endpoint that accepts by `NeverDeaf`.
- `FaultlessDropsNothing` (`NoEchoDropped`) is inductive on top of `LampInv`. Without faults the report that is
  answered is the newest (`AnsweredIsNewest`, from `Backlog`), so nothing is behind it (`NothingBehind`, from
  `StreamOrder`), and no process writes before its echo is collected (`NoWriteBeforeEcho`).
- `LampTransmitIsTrue` (`TransmitIsTrue`) needs no assumption about the host, unlike `BusyReplyIsReal`: the
  composition contains the kernel, which configures the lamp only after a bus reset.

`LampImplementsDevice` carries the refinement of `LedDevice` to the lamp. `LampIsService`
(`LampSpec => ImplementsService`) is the refinement of `LampService`, in which neither bus nor queues, handles or
threads appear. A step maps to one of the service or to none: `Write(p)` to `Request(p)` (`WriteRequests`, since
`OnlyOne` says that nobody else waits), `Read(p)` to `Answer(p)` (`ReadAnswers`, from `ReadCollects`, which gathers
the order, the freshness and the backlog of what is collected), `Eval` to `Show` (`FirmwareServes`, by `EvalOrder`),
claim, release, timeout and kill to `Hold`, `Leave` and `Fault` (`ClientServes`), and an unplug to `Unplug`.

`LedProto_proofs` proves, for any duty cycles and any uninitialised packets, `RequestIsShown`
(`TypeOK /\ ShowsRequest`), from the lemma that for percentages neither the 16-bit product nor the division
loses anything.

`MoodColors_proofs` proves, for any set of threads, captures and number of refreshes, `IndexIsSafe`
(`BucketExists`: hue below 360 degrees, so index at most 20), `OverlapsLeaveNothing` (`NoResidue`) and
`LoneRefreshIsRight` (`ShowsPredominant`). `NoResidue` is inductive on its own because each bucket that is not
empty has a thread that will empty it: the one that wrote it. That lets a lone refresh start from zero
(`LoneCounts`), and `CompareBest` carries its candidate over the scan (`LoneBest`).

`MeanColors_proofs` proves, for any threads, pixels and starts, `ColoursForget` (`Forgets`). The inductive
invariant `MeanInv` says how far two starts may still differ after n pixels (`Left`), and that the pixels counted
alone are in the colour and, with one more, in every colour that a thread is computing (`Fading`); a slow thread
can bring back an old colour only by an overlap, which sets `alone` to zero (`OverlapIsZero`).

`Enumeration_proofs` proves, for any requests of other programs and any number of resets, `TypesKept`
(`TypeOK`), `AnswersStayInside` (`NoOverread`), `ConfiguredIsRecognised` (`LampRecognised`) and
`NamedStringsExist` (`NamesAreAnswered`). They follow from `KnowledgeIsReplies` (`EnumerationInv`): what the kernel
knows are the replies to its own requests, cut to the lengths it asked for, and its requests are among few
(`KernelRequests`), as they come from those replies. That the parsed tree is the one of the tables needs the
recursive function in `StartsAt`, whose value the provers cannot compute: `StartsUnique` shows by a least
counterexample that one set only satisfies its equation, and `TreeStarts` that {1, 10, 19, 26, 33} does.

Only model-checked: liveness (`AcceptedIsShown`, `AcceptsAgain`, `ReplyIsOffered`, `CallReturns`,
`EnumerationEnds`), which is out of the prover's reach; `NoDeadlock` is the part of `CallReturns` that is a safety
property. The five violations are TLC's counterexamples.

## Not modelled

- The transfer loop of `test_dev.c` fills a txBuffer that nothing reads; its options are parsed by `getopt`. That
  the options share one packet is the arbitrary `Junk` of `LedProto`, and their effect on the LEDs is there too.
- `usb_send_packet` (`proto.c:115-135`), which nothing calls; suspend and wakeup events, which `usb_event_cb`
  ignores.
- The window, its icons and closing; Swing's own state. Printing. LED pins, build files, vendored code.
- The characters of the strings and the items of the HID report descriptor, which no program here reads.
- What the RX FIFO returns to a copy that a bus reset flushes under it (see above).
- `halconf.h`, `chconf.h` and most of `mcuconf.h` are the configuration of the vendored kernel, with no behaviour
  of their own beyond the switches and the pump's priority that the modules use.

## Plan

Done: the firmware with its refinement, the composition with the host and the service it implements, the LEDs,
the colours, enumeration, and proofs of all the safety and action properties of the runs. Left:

1. Ranking arguments for liveness: `AcceptedIsShown` and `CallReturns` stay with TLC, but that each step of the
   two threads brings a report nearer to its echo is an action property that can be stated and proved.
2. An abstract specification of a refresh of `MoodColors` that overlaps no other, as one step, and the
   refinement of it.
