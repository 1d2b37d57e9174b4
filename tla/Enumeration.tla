----------------------------- MODULE Enumeration -----------------------------
(***************************************************************************)
(* How a host gets to know the lamp: the descriptor tables of app/usbcfg.c *)
(* and the callbacks that answer requests on endpoint 0 from them, met by  *)
(* a kernel that reads them after every bus reset, by other programs that  *)
(* ask for any descriptor, and by the host library, which looks for the    *)
(* lamp in what the kernel has read.                                       *)
(*                                                                         *)
(* The tables are the bytes of the code where a host reads them; the       *)
(* characters of a string and the items of the HID report are zeroes.      *)
(* Every table fits in one packet of endpoint 0, so a data stage is a step.*)
(***************************************************************************)
EXTENDS Naturals, Sequences, FiniteSets

CONSTANTS Types,     \* bound: descriptor types other programs ask for
          Indices,   \* bound: their indices
          Lengths,   \* bound: the lengths they ask for
          MaxResets  \* bound: bus resets

Byte == 0 .. 2^8 - 1
Short == 0 .. 2^16 - 1

ASSUME EnumerationAssumption ==
  Types \subseteq Byte /\ Indices \subseteq Byte /\ Lengths \subseteq Short /\ MaxResets \in Nat

VARIABLES ep0,     \* endpoint 0: "idle", "setup" received, data to go "in", "stall"
          setup,   \* the SETUP packet received last
          answer,  \* the descriptor given to usbSetupTransfer for it
          conf,    \* USBD1.configuration
          known,   \* what the kernel has read since the reset, by request
          resets   \* bus resets so far

vars == <<ep0, setup, answer, conf, known, resets>>

-----------------------------------------------------------------------------
(* The tables. *)

Blank(n) == [i \in 1 .. n |-> 0]
Text(bLength, chars) == <<bLength, 3>> \o Blank(2 * chars)

usb_device_descriptor_data ==
  <<18, 1, 16, 1, 0, 0, 0, 64, 131, 4, 64, 87, 0, 0, 1, 2, 3, 1>>

(* Mutant of hid_configuration_descriptor_data: its length still counts the   *)
(* HID descriptor that has been taken out.                                    *)
hid_configuration_with_old_length ==
  << 9, 2, 41, 0, 1, 1, 0, 192, 50,  9, 4, 0, 0, 2, 255, 0, 0, 4,
     7, 5, 129, 2, 64, 0, 10,  7, 5, 1, 2, 64, 0, 10 >>

(* Configuration and interface; endpoint 1 IN, endpoint 1 OUT.  The comment at*)
(* its length (usbcfg.c:68) still adds up "9+9+9+7+7", which is 41 and counts *)
(* the HID descriptor that has been taken out: the length is 32.              *)
hid_configuration_descriptor_data ==
  << 9, 2, 32, 0, 1, 1, 0, 192, 50,  9, 4, 0, 0, 2, 255, 0, 0, 4,
     7, 5, 129, 2, 64, 0, 10,  7, 5, 1, 2, 64, 0, 10 >>

hid_report_descriptor_data == Blank(34)

(* Language, vendor, device, serial number, interface. *)
usb_strings == <<Text(4, 1), Text(22, 10), Text(12, 5), Text(8, 3), Text(12, 7)>>

(* A USBDescriptor: its size, and the memory from its pointer to the end of   *)
(* the table the pointer is into.                                             *)
Wrapper(data) == [size |-> Len(data), data |-> data]
NULL == [size |-> 0, data |-> <<>>]

(* Mutant of hid_configuration_descriptor: the size is that of a pointer. *)
hid_configuration_descriptor_pointer ==
  [size |-> 4, data |-> hid_configuration_descriptor_data]

hid_configuration_descriptor == Wrapper(hid_configuration_descriptor_data)

(* HID_DESCRIPTOR_SIZE bytes from HID_DESCRIPTOR_OFFSET on. *)
hid_descriptor ==
  [size |-> 9,
   data |-> SubSeq(hid_configuration_descriptor_data, 19,
                   Len(hid_configuration_descriptor_data))]

(* Past the array of wrapped strings is memory that is no descriptor. *)
StringDescriptor(i) == IF i < Len(usb_strings) THEN Wrapper(usb_strings[i + 1])
                                               ELSE [size |-> 1, data |-> <<>>]

-----------------------------------------------------------------------------
(* The callbacks. *)

(* Mutants of StringBound: the string that is commented out is counted too;   *)
(* the language is not counted.                                               *)
StringBoundAll == 6
StringBoundNames == 4

StringBound == 5

usb_get_descriptor_cb(dtype, dindex) ==
  CASE dtype = 1 -> Wrapper(usb_device_descriptor_data)
    [] dtype = 2 -> hid_configuration_descriptor
    [] dtype = 3 /\ dindex < StringBound -> StringDescriptor(dindex)
    [] dtype = 33 -> hid_descriptor
    [] dtype = 34 -> Wrapper(hid_report_descriptor_data)
    [] OTHER -> NULL

(* USBD1.setup: bmRequestType, bRequest, the two bytes of wValue, wLength. *)
Request == [rtype : Byte, req : Byte, hi : Byte, lo : Byte, len : Short]
Get(rtype, dtype, dindex, length) ==
  [rtype |-> rtype, req |-> 6, hi |-> dtype, lo |-> dindex, len |-> length]
Set(value) == [rtype |-> 0, req |-> 9, hi |-> 0, lo |-> value, len |-> 0]

(* The hook answers GET_DESCRIPTOR to an interface; class requests, GET_REPORT*)
(* and SET_REPORT too, it looks at and leaves.                                *)
usb_request_hook_cb(s) ==
  IF s.rtype = 129 /\ s.req = 6 THEN usb_get_descriptor_cb(s.hi, s.lo) ELSE NULL

(* The driver answers GET_DESCRIPTOR to the device from the same callback. *)
default_handler(s) ==
  IF s.rtype = 128 /\ s.req = 6 THEN usb_get_descriptor_cb(s.hi, s.lo) ELSE NULL

(* _usb_ep0setup: the hook first, then the default handler, then a stall. *)
Respond ==
  /\ ep0 = "setup"
  /\ \/ /\ setup.req = 9 /\ setup.rtype = 0
        /\ ep0' = "in" /\ answer' = NULL /\ conf' = setup.lo
     \/ /\ ~(setup.req = 9 /\ setup.rtype = 0)
        /\ answer' = IF usb_request_hook_cb(setup) # NULL
                     THEN usb_request_hook_cb(setup) ELSE default_handler(setup)
        /\ ep0' = IF answer' = NULL THEN "stall" ELSE "in"
        /\ UNCHANGED conf
  /\ UNCHANGED <<setup, known, resets>>

-----------------------------------------------------------------------------
(* The host reads a tree of descriptors by their lengths. *)

Word(t, i) == t[i] + 256 * t[i + 1]

(* The places where a descriptor of the tree starts, and where one would      *)
(* start after the last.                                                      *)
StartsAt(t) ==
  LET isStart[p \in 1 .. Len(t) + 1] ==
        p = 1 \/ \E q \in 1 .. p - 1 : q + t[q] = p /\ isStart[q]
  IN {p \in 1 .. Len(t) + 1 : isStart[p]}

(* The descriptors of a type in the tree. *)
OfType(t, dtype) ==
  {SubSeq(t, p, p + t[p] - 1) :
     p \in {q \in StartsAt(t) : q < Len(t) /\ q + t[q] - 1 <= Len(t)
                                /\ t[q + 1] = dtype}}

-----------------------------------------------------------------------------
(* The kernel. *)

DeviceRequest == Get(128, 1, 0, 18)
HeadRequest == Get(128, 2, 0, 9)
TreeRequest == Get(128, 2, 0, Word(known[HeadRequest], 3))
NameRequest(i) == Get(128, 3, i, 255)

Has(q, n) == q \in DOMAIN known /\ Len(known[q]) >= n
HasTree == Has(HeadRequest, 9) /\ Has(TreeRequest, 9)

(* The languages, and the strings the device and its interfaces name. *)
Names == {0} \cup {known[DeviceRequest][i] : i \in 15 .. 17}
             \cup {d[9] : d \in OfType(known[TreeRequest], 4)}

(* The kernel reads the device descriptor, the head of the configuration and  *)
(* then all of it; then the strings, and it sets the configuration.           *)
Wanted ==
  (   {DeviceRequest}
   \cup (IF Has(DeviceRequest, 18) THEN {HeadRequest} ELSE {})
   \cup (IF Has(HeadRequest, 9) THEN {TreeRequest} ELSE {})
   \cup (IF HasTree THEN {NameRequest(i) : i \in Names}
                         \cup {Set(known[TreeRequest][6])} ELSE {}))
  \ DOMAIN known

Receive(s) == /\ ep0 = "idle" /\ s \in Request
              /\ ep0' = "setup" /\ setup' = s
              /\ UNCHANGED <<answer, conf, known, resets>>

Ask == \E s \in Wanted : Receive(s)

(* The host ends the request; the kernel keeps the bytes of one of its own.   *)
Finish(bytes) ==
  /\ ep0' = "idle"
  /\ known' = IF setup \in Wanted
              THEN [q \in DOMAIN known \cup {setup} |-> IF q = setup THEN bytes ELSE known[q]]
              ELSE known
  /\ UNCHANGED <<setup, answer, conf, resets>>

(* Mutant of Collect: all of the descriptor is sent. *)
CollectUncut == ep0 = "in" /\ Finish(SubSeq(answer.data, 1, answer.size))

(* The first bytes of an answer, as many as were asked for. *)
Cut(d, length) == SubSeq(d.data, 1, IF d.size < length THEN d.size ELSE length)

(* The driver has cut the answer to the length that was asked for. *)
Collect == ep0 = "in" /\ Finish(Cut(answer, setup.len))

Stalled == ep0 = "stall" /\ Finish(<<>>)

(* Another program asks, the kernel having released the device: for a         *)
(* descriptor, of the device or of its interface, or for a HID report.        *)
Other ==
  /\ Wanted = {}
  /\ \/ \E rtype \in {128, 129}, dtype \in Types, dindex \in Indices, n \in Lengths :
          Receive(Get(rtype, dtype, dindex, n))
     \/ \E n \in Lengths :
          Receive([rtype |-> 161, req |-> 1, hi |-> 0, lo |-> 1, len |-> n])

(* What the kernel knows of the lamp ends with a bus reset. *)
BusReset ==
  /\ resets < MaxResets /\ resets' = resets + 1
  /\ ep0' = "idle" /\ conf' = 0 /\ known' = <<>>
  /\ UNCHANGED <<setup, answer>>

-----------------------------------------------------------------------------

Init == /\ ep0 = "idle" /\ setup = DeviceRequest /\ answer = NULL
        /\ conf = 0 /\ known = <<>> /\ resets = 0

Next == Respond \/ Ask \/ Collect \/ Stalled \/ Other \/ BusReset

Spec == Init /\ [][Next]_vars

(* Endpoint 0 answers, and a kernel that has begun goes on. *)
FairSpec == Spec /\ WF_vars(Respond \/ Ask \/ Collect \/ Stalled)

-----------------------------------------------------------------------------

TypeOK ==
  /\ ep0 \in {"idle", "setup", "in", "stall"}
  /\ setup \in Request
  /\ answer.size \in Nat /\ answer.data \in Seq(Byte)
  /\ conf \in {0, 1} /\ resets \in 0 .. MaxResets
  /\ \A q \in DOMAIN known : known[q] \in Seq(Byte) /\ Len(known[q]) <= q.len

(* No answer, whatever was asked for, reaches past the table it is taken from:*)
(* the bound on dindex fits the array with its last string commented out, and *)
(* the slice of the HID descriptor the table without that descriptor.         *)
NoOverread == ep0 = "in" => answer.size <= Len(answer.data)

(* ep1config: mode, and the IN and OUT packet sizes. *)
(* Mutant of ep1config: only the OUT endpoint has been given a smaller packet. *)
ep1config_halved == [mode |-> 2, in_maxsize |-> 64, out_maxsize |-> 32]
ep1config == [mode |-> 2, in_maxsize |-> 64, out_maxsize |-> 64]

(* What libusbled.c looks for and transfers on (lines 48-58).  Its first      *)
(* comment (lines 4-5) expects IN on EP1 and OUT on EP2; the constants, as    *)
(* the lamp's tables, have both on endpoint 1.                                *)
Library == [vendor |-> 1155, product |-> 22336, interface |-> 0,
            in |-> 128 + 1, out |-> 1]

Recognised == Wanted = {} /\ conf # 0

(* The device the kernel has read is the one the library opens. *)
Opens == /\ Word(known[DeviceRequest], 9) = Library.vendor
         /\ Word(known[DeviceRequest], 11) = Library.product

(* The tree of length wTotalLength ends with a whole descriptor, and has the  *)
(* interfaces and the endpoints that its counts say.                          *)
WholeTree ==
  LET t == known[TreeRequest]
      interfaces == OfType(t, 4)
      endpoints == OfType(t, 5)
  IN /\ Len(t) = Word(t, 3) /\ Len(t) + 1 \in StartsAt(t)
     /\ Cardinality(interfaces) = t[5]
     /\ \A i \in interfaces : i[5] = Cardinality(endpoints)
     /\ \E i \in interfaces : i[3] = Library.interface

(* The kernel finds the library's endpoints in it, each of the mode and the   *)
(* packet size that the driver is given for it.                               *)
Transfers ==
  LET endpoints == OfType(known[TreeRequest], 5)
      Agrees(address, size) ==
        \E e \in endpoints : e[3] = address /\ e[4] = ep1config.mode /\ Word(e, 5) = size
  IN Agrees(Library.in, ep1config.in_maxsize) /\ Agrees(Library.out, ep1config.out_maxsize)

(* A host that has configured the lamp finds it whole in what it has read:    *)
(* the ids, the tree that the lengths and counts of three descriptors have to *)
(* agree on, and the endpoints as the firmware opens them (usbcfg.c's tables, *)
(* ep1config, libusbled.c:48-58).  So both the comment of libusbled.c:4-5 (OUT*)
(* on EP2) and that of usbcfg.c:68 (a tree of 41 bytes) are out of date.      *)
LampRecognised == Recognised => Opens /\ WholeTree /\ Transfers

(* Each string that a descriptor names by its index is answered with a string *)
(* (usb_strings, its bound in usb_get_descriptor_cb, the indices iManufacturer*)
(* to iInterface in two other tables).                                        *)
NamesAreAnswered ==
  Recognised => \A i \in Names : LET s == known[NameRequest(i)]
                                 IN Len(s) > 2 /\ s[2] = 3

(* The inductive invariant that LampRecognised and NamesAreAnswered follow    *)
(* from: what the kernel knows depends on the requests alone, not on who asked*)
(* before or where a reset fell.                                              *)

(* The answer that a request gets at any time. *)
Reply(s) ==
  IF s.req = 9 /\ s.rtype = 0 THEN NULL
  ELSE IF usb_request_hook_cb(s) # NULL THEN usb_request_hook_cb(s) ELSE default_handler(s)

(* The requests an enumeration makes: its lengths, strings and configuration  *)
(* are those of the tables.                                                   *)
KernelRequests ==
  {DeviceRequest, HeadRequest, Get(128, 2, 0, Word(hid_configuration_descriptor_data, 3)),
   Set(hid_configuration_descriptor_data[6])}
  \cup {NameRequest(i) : i \in 0 .. Len(usb_strings) - 1}

(* The configuration is read after the device descriptor, and only one value  *)
(* is ever set.                                                               *)
EnumerationInv ==
  /\ ep0 \in {"in", "stall"} => answer = Reply(setup)
  /\ ep0 = "stall" => answer = NULL
  /\ setup.req = 9 /\ setup.rtype = 0 => setup \in KernelRequests
  /\ DOMAIN known \subseteq KernelRequests
  /\ \A q \in DOMAIN known : known[q] = Cut(Reply(q), q.len)
  /\ HeadRequest \in DOMAIN known => DeviceRequest \in DOMAIN known

(* However a bus reset interrupts it, the enumeration ends with the lamp      *)
(* configured unless another reset comes.                                     *)
EnumerationEnds == \A n \in 0 .. MaxResets : (resets = n) ~> (Recognised \/ resets > n)

-----------------------------------------------------------------------------
(* What comments of the code say and the code does not do. *)

(* usbcfg.c:365 of usb_get_descriptor_cb: "Returns the proper descriptor".    *)
(* The second byte of every descriptor but a report's is its type.            *)
ProperDescriptor == ep0 = "in" /\ setup.req = 6 /\ setup.hi # 34 => answer.data[2] = setup.hi

(* usbcfg.c:215: the first byte of a string is its bLength, by which a host   *)
(* cuts it.                                                                   *)
StringsDeclareLength == ep0 = "in" /\ setup.hi = 3 => answer.data[1] = answer.size
=============================================================================
