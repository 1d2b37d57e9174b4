-------------------------- MODULE Enumeration_proofs --------------------------
(***************************************************************************)
(* No request on endpoint 0 makes the firmware read past one of its tables,*)
(* whatever types, indices and lengths hosts ask for, and a host that has  *)
(* configured the lamp has found in the tables the device, the endpoints   *)
(* and the strings that they promise, however often it was reset.          *)
(***************************************************************************)
EXTENDS Enumeration, SequenceTheorems, FiniteSetTheorems, WellFoundedInduction, TLAPS

Tree == hid_configuration_descriptor_data
Device == usb_device_descriptor_data

-----------------------------------------------------------------------------
(* The bytes of the tables. *)

LEMMA TreeBytes ==
  LET t == hid_configuration_descriptor_data
  IN  /\ t \in Seq(Byte) /\ Len(t) = 32
      /\ t[1] = 9 /\ t[2] = 2 /\ t[3] = 32 /\ t[4] = 0 /\ t[5] = 1 /\ t[6] = 1
      /\ t[10] = 9 /\ t[11] = 4 /\ t[12] = 0 /\ t[14] = 2 /\ t[18] = 4
      /\ t[19] = 7 /\ t[20] = 5 /\ t[21] = 129 /\ t[22] = 2 /\ t[23] = 64 /\ t[24] = 0
      /\ t[26] = 7 /\ t[27] = 5 /\ t[28] = 1 /\ t[29] = 2 /\ t[30] = 64 /\ t[31] = 0
BY DEF hid_configuration_descriptor_data, Byte

-----------------------------------------------------------------------------
(* Where the descriptors of a tree start. *)

(* The equation of the recursive function in StartsAt. *)
MarksStarts(t, f) == 
  f = [p \in 1 .. Len(t) + 1 |-> p = 1 \/ \E q \in 1 .. p - 1 : q + t[q] = p /\ f[q]]

(* The sets that are closed the way the starts of a tree are. *)
AreStarts(t, S) ==
  \A p \in 1 .. Len(t) + 1 : p \in S <=> (p = 1 \/ \E q \in 1 .. p - 1 : q + t[q] = p /\ q \in S)

(* A set of numbers that is not empty has a least one. *)
LEMMA Least == ASSUME NEW T, T \subseteq Nat, T # {}
               PROVE  \E m \in T : \A n \in T : m <= n
<1> DEFINE Less == {pq \in Nat \X Nat : pq[1] < pq[2]}
<1>1. IsWellFoundedOn(Less, Nat)
  BY NatLessThanWellFounded DEF OpToRel
<1>2. PICK m \in T : \A n \in T : <<n, m>> \notin Less
  BY <1>1, WFMin, Zenon
<1>3. ASSUME NEW n \in T PROVE m <= n
  <2>1. m \in Nat /\ n \in Nat
    OBVIOUS
  <2>2. <<n, m>> \notin Less
    BY <1>2
  <2>3. <<n, m>> \in Less <=> n < m
    BY <2>1
  <2> QED
    BY <2>1, <2>2, <2>3
<1> QED
  BY <1>3

(* Two such sets are the same: the least place where they differ would have   *)
(* the same places before it.                                                 *)
LEMMA StartsUnique ==
  ASSUME NEW t, Len(t) \in Nat, NEW S, NEW R, AreStarts(t, S), AreStarts(t, R)
  PROVE  \A p \in 1 .. Len(t) + 1 : p \in S <=> p \in R
<1> SUFFICES ASSUME ~\A p \in 1 .. Len(t) + 1 : p \in S <=> p \in R PROVE FALSE
  OBVIOUS
<1> DEFINE Differ == {p \in 1 .. Len(t) + 1 : (p \in S) # (p \in R)}
<1>1. Differ \subseteq Nat /\ Differ # {}
  OBVIOUS
<1>2. PICK p \in Differ : \A n \in Differ : p <= n
  BY <1>1, Least
<1>3. p \in 1 .. Len(t) + 1 /\ ~(p \in S <=> p \in R)
  OBVIOUS
<1>4. \A q \in 1 .. p - 1 : q \in S <=> q \in R
  BY <1>2
<1> QED
  BY <1>3, <1>4 DEF AreStarts

(* So a set with that closure holds exactly the starts. *)
LEMMA StartsAre ==
  ASSUME NEW t, Len(t) \in Nat, NEW S, S \subseteq 1 .. Len(t) + 1, AreStarts(t, S)
  PROVE  StartsAt(t) = S
<1> DEFINE P == 1 .. Len(t) + 1
           g == [p \in P |-> p \in S]
<1>1. MarksStarts(t, g)
  <2>1. ASSUME NEW p \in P
        PROVE  (p \in S) = (p = 1 \/ \E q \in 1 .. p - 1 : q + t[q] = p /\ g[q])
    <3>1. \A q \in 1 .. p - 1 : q \in P /\ g[q] = (q \in S)
      OBVIOUS
    <3> HIDE DEF g
    <3>2. (\E q \in 1 .. p - 1 : q + t[q] = p /\ g[q])
            <=> (\E q \in 1 .. p - 1 : q + t[q] = p /\ q \in S)
      BY <3>1
    <3>3. p \in S <=> (p = 1 \/ \E q \in 1 .. p - 1 : q + t[q] = p /\ q \in S)
      BY DEF AreStarts
    <3> QED
      BY <3>2, <3>3
  <2> HIDE DEF g
  <2>2. g = [p \in P |-> p = 1 \/ \E q \in 1 .. p - 1 : q + t[q] = p /\ g[q]]
    BY <2>1, Zenon DEF g
  <2> QED
    BY <2>2, Zenon DEF MarksStarts
<1>2. PICK f : f = CHOOSE h : MarksStarts(t, h)
  OBVIOUS
<1>3. MarksStarts(t, f)
  BY <1>1, <1>2, Zenon
<1>4. StartsAt(t) = {p \in P : f[p]}
  BY <1>2, Zenon DEF StartsAt, MarksStarts
<1>5. AreStarts(t, {p \in P : f[p]})
  <2>1. ASSUME NEW p \in P
        PROVE  f[p] = (p = 1 \/ \E q \in 1 .. p - 1 : q + t[q] = p /\ f[q])
    BY <1>3, Zenon DEF MarksStarts
  <2>2. ASSUME NEW p \in P, NEW q \in 1 .. p - 1
        PROVE  q \in P
    OBVIOUS
  <2> QED
    BY <2>1, <2>2, Zenon DEF AreStarts
<1> QED
  BY <1>4, <1>5, StartsUnique

LEMMA TreeStarts == StartsAt(Tree) = {1, 10, 19, 26, 33}
<1> DEFINE t == hid_configuration_descriptor_data
<1> HIDE DEF t
<1>1. /\ Len(t) = 32 /\ t[1] = 9 /\ t[10] = 9 /\ t[19] = 7 /\ t[26] = 7
  BY TreeBytes DEF t
<1>2. AreStarts(t, {1, 10, 19, 26, 33})
  BY <1>1 DEF AreStarts
<1> QED
  <2>1. Len(t) \in Nat /\ {1, 10, 19, 26, 33} \subseteq 1 .. Len(t) + 1
    BY <1>1
  <2> QED
    BY <1>2, <2>1, StartsAre, Zenon DEF t, Tree

(* The interface and the endpoints of the tree. *)
LEMMA TreeParts ==
  /\ OfType(Tree, 4) = {SubSeq(Tree, 10, 18)}
  /\ OfType(Tree, 5) = {SubSeq(Tree, 19, 25), SubSeq(Tree, 26, 32)}
<1> USE DEF Tree
<1>1. /\ Len(Tree) = 32 /\ Tree[1] = 9 /\ Tree[10] = 9 /\ Tree[19] = 7 /\ Tree[26] = 7
      /\ Tree[2] = 2 /\ Tree[11] = 4 /\ Tree[20] = 5 /\ Tree[27] = 5
  BY TreeBytes
<1>2. StartsAt(Tree) = {1, 10, 19, 26, 33}
  BY TreeStarts
<1> HIDE DEF Tree
<1> DEFINE places(d) == {q \in StartsAt(Tree) : q < Len(Tree) /\ q + Tree[q] - 1 <= Len(Tree)
                                                /\ Tree[q + 1] = d}
<1>3. places(4) = {10} /\ places(5) = {19, 26}
  BY <1>1, <1>2
<1>4. \A d : OfType(Tree, d) = {SubSeq(Tree, p, p + Tree[p] - 1) : p \in places(d)}
  BY DEF OfType
<1> HIDE DEF places
<1>5. /\ OfType(Tree, 4) = {SubSeq(Tree, 10, 10 + Tree[10] - 1)}
      /\ OfType(Tree, 5) = {SubSeq(Tree, 19, 19 + Tree[19] - 1), SubSeq(Tree, 26, 26 + Tree[26] - 1)}
  BY <1>3, <1>4
<1>6. 10 + Tree[10] - 1 = 18 /\ 19 + Tree[19] - 1 = 25 /\ 26 + Tree[26] - 1 = 32
  BY <1>1
<1> QED
  BY <1>5, <1>6

(* The bytes of the interface and the endpoints. *)
LEMMA PartBytes ==
  LET i == SubSeq(Tree, 10, 18)
      d == SubSeq(Tree, 19, 25)
      e == SubSeq(Tree, 26, 32)
  IN  /\ i[3] = 0 /\ i[5] = 2 /\ i[9] = 4
      /\ d[3] = 129 /\ d[4] = 2 /\ d[5] = 64 /\ d[6] = 0
      /\ e[3] = 1 /\ e[4] = 2 /\ e[5] = 64 /\ e[6] = 0
<1>1. \A m, n \in 1 .. 32 : \A k \in 1 .. n - m + 1 : SubSeq(Tree, m, n)[k] = Tree[m + k - 1]
  <2> TAKE m, n \in 1 .. 32
  <2>1. Tree \in Seq(Byte) /\ Len(Tree) = 32
    BY TreeBytes DEF Tree
  <2>2. \A k \in m .. n : Tree[k] \in Byte
    <3> TAKE k \in m .. n
    <3>1. k \in 1 .. Len(Tree)
      BY <2>1
    <3> QED
      BY <2>1, <3>1, ElementOfSeq
  <2> QED
    BY <2>2, SubSeqProperties
<1>2. /\ Tree[12] = 0 /\ Tree[14] = 2 /\ Tree[18] = 4
      /\ Tree[21] = 129 /\ Tree[22] = 2 /\ Tree[23] = 64 /\ Tree[24] = 0
      /\ Tree[28] = 1 /\ Tree[29] = 2 /\ Tree[30] = 64 /\ Tree[31] = 0
  BY TreeBytes DEF Tree
<1> QED
  BY <1>1, <1>2

LEMMA DeviceBytes ==
  /\ Device \in Seq(Byte) /\ Len(Device) = 18
  /\ Device[9] = 131 /\ Device[10] = 4 /\ Device[11] = 64 /\ Device[12] = 87
  /\ Device[15] = 1 /\ Device[16] = 2 /\ Device[17] = 3
BY DEF Byte, Device, usb_device_descriptor_data

(* Texts: two bytes, the second of them the type, before the characters. *)
LEMMA TextBytes ==
  ASSUME NEW b \in Byte, NEW n \in Nat
  PROVE  /\ Text(b, n) \in Seq(Byte) /\ Len(Text(b, n)) = 2 + 2 * n
         /\ Text(b, n)[2] = 3
<1>1. <<b, 3>> \in Seq(Byte) /\ Len(<<b, 3>>) = 2 /\ <<b, 3>>[2] = 3
  BY DEF Byte
<1>2. Blank(2 * n) \in Seq(Byte) /\ Len(Blank(2 * n)) = 2 * n
  BY DEF Blank, Byte
<1> QED
  BY <1>1, <1>2, ConcatProperties DEF Text

(* What a host takes for a text: not empty, and of the type of strings. *)
Strings == {x \in Seq(Byte) : 2 < Len(x) /\ Len(x) <= 255 /\ x[2] = 3}

LEMMA StringBytes ==
  Len(usb_strings) = 5 /\ \A i \in 1 .. 5 : usb_strings[i] \in Strings
<1>1. /\ Len(usb_strings) = 5
      /\ usb_strings[1] = Text(4, 1) /\ usb_strings[2] = Text(22, 10)
      /\ usb_strings[3] = Text(12, 5) /\ usb_strings[4] = Text(8, 3)
      /\ usb_strings[5] = Text(12, 7)
  BY DEF usb_strings
<1>2. \A b \in Byte, n \in 1 .. 10 : Text(b, n) \in Strings
  <2> TAKE b \in Byte, n \in 1 .. 10
  <2>1. n \in Nat /\ 2 < 2 + 2 * n /\ 2 + 2 * n <= 255
    OBVIOUS
  <2> QED
    BY <2>1, TextBytes DEF Strings
<1>3. /\ Text(4, 1) \in Strings /\ Text(22, 10) \in Strings /\ Text(12, 5) \in Strings
      /\ Text(8, 3) \in Strings /\ Text(12, 7) \in Strings
  BY <1>2 DEF Byte
<1>4. \A i \in 1 .. 5 : i = 1 \/ i = 2 \/ i = 3 \/ i = 4 \/ i = 5
  OBVIOUS
<1> QED
  BY <1>1, <1>3, <1>4

-----------------------------------------------------------------------------
(* The replies to the kernel's requests. *)

(* A descriptor request to the device is answered by the callback. *)
LEMMA GetReply ==
  \A d, i, n : Reply(Get(128, d, i, n)) = usb_get_descriptor_cb(d, i)
BY DEF Reply, Get, usb_request_hook_cb, default_handler

(* Cutting a whole table. *)
LEMMA CutBytes ==
  \A d \in Seq(Byte), n \in Nat :
    /\ Cut(Wrapper(d), n) \in Seq(Byte)
    /\ Len(Cut(Wrapper(d), n)) = IF Len(d) < n THEN Len(d) ELSE n
    /\ \A k \in 1 .. Len(Cut(Wrapper(d), n)) : Cut(Wrapper(d), n)[k] = d[k]
<1> TAKE d \in Seq(Byte), n \in Nat
<1> DEFINE m == IF Len(d) < n THEN Len(d) ELSE n
<1>1. Len(d) \in Nat /\ m \in Nat /\ 1 .. m \subseteq 1 .. Len(d)
  OBVIOUS
<1>2. \A k \in 1 .. m : d[k] \in Byte
  BY <1>1, ElementOfSeq
<1>3. Cut(Wrapper(d), n) = SubSeq(d, 1, m)
  BY DEF Cut, Wrapper
<1> HIDE DEF m
<1>4. /\ SubSeq(d, 1, m) \in Seq(Byte)
      /\ Len(SubSeq(d, 1, m)) = m
      /\ \A k \in 1 .. m : SubSeq(d, 1, m)[k] = d[k]
  BY <1>1, <1>2, SubSeqProperties
<1> QED
  BY <1>3, <1>4 DEF m

(* The whole of a table is the table. *)
LEMMA CutWhole ==
  \A d \in Seq(Byte), n \in Nat : Len(d) <= n => Cut(Wrapper(d), n) = d
<1> TAKE d \in Seq(Byte), n \in Nat
<1> HAVE Len(d) <= n
<1>1. Cut(Wrapper(d), n) = SubSeq(d, 1, Len(d))
  BY DEF Cut, Wrapper
<1> QED
  BY <1>1, SubSeqFull

TreeReq == Get(128, 2, 0, 32)

LEMMA DeviceReply == Cut(Reply(DeviceRequest), DeviceRequest.len) = Device
<1>1. DeviceRequest.len = 18 /\ DeviceRequest = Get(128, 1, 0, 18)
  BY DEF DeviceRequest, Get
<1>2. usb_get_descriptor_cb(1, 0) = Wrapper(Device)
  BY DEF usb_get_descriptor_cb, Device
<1>3. Reply(DeviceRequest) = Wrapper(Device)
  BY <1>1, <1>2, GetReply
<1>4. Cut(Wrapper(Device), 18) = Device
  <2>1. Device \in Seq(Byte) /\ Len(Device) <= 18 /\ 18 \in Nat
    BY DeviceBytes
  <2> QED
    BY <2>1, CutWhole, Zenon
<1> QED
  BY <1>1, <1>3, <1>4

(* The head of the configuration, and the whole tree. *)
LEMMA ConfigurationReplies ==
  /\ \A n : Reply(Get(128, 2, 0, n)) = Wrapper(Tree)
  /\ Cut(Reply(TreeReq), TreeReq.len) = Tree
  /\ LET head == Cut(Reply(HeadRequest), HeadRequest.len)
     IN  Len(head) = 9 /\ Word(head, 3) = 32
<1>1. usb_get_descriptor_cb(2, 0) = Wrapper(Tree)
  BY DEF usb_get_descriptor_cb, hid_configuration_descriptor, Tree
<1>2. \A n : Reply(Get(128, 2, 0, n)) = Wrapper(Tree)
  BY <1>1, GetReply
<1>3. TreeReq.len = 32 /\ HeadRequest.len = 9 /\ HeadRequest = Get(128, 2, 0, 9)
  BY DEF TreeReq, HeadRequest, Get
<1>4. /\ Tree \in Seq(Byte) /\ Len(Tree) = 32 /\ Tree[3] = 32 /\ Tree[4] = 0
  BY TreeBytes DEF Tree
<1>5. Cut(Wrapper(Tree), 32) = Tree
  <2>1. Len(Tree) <= 32 /\ 32 \in Nat
    BY <1>4
  <2> QED
    BY <1>4, <2>1, CutWhole, Zenon
<1>6. /\ Len(Cut(Wrapper(Tree), 9)) = 9
      /\ Cut(Wrapper(Tree), 9)[3] = 32 /\ Cut(Wrapper(Tree), 9)[4] = 0
  <2> DEFINE head == Cut(Wrapper(Tree), 9)
  <2>1. 9 \in Nat
    OBVIOUS
  <2>2. /\ Len(head) = IF Len(Tree) < 9 THEN Len(Tree) ELSE 9
        /\ \A k \in 1 .. Len(head) : head[k] = Tree[k]
    BY <1>4, <2>1, CutBytes, Zenon
  <2> HIDE DEF head
  <2>3. Len(head) = 9 /\ head[3] = 32 /\ head[4] = 0
    BY <1>4, <2>2
  <2> QED
    BY <2>3 DEF head
<1>7. Reply(TreeReq) = Wrapper(Tree) /\ Reply(HeadRequest) = Wrapper(Tree)
  BY <1>2, <1>3 DEF TreeReq
<1> QED
  BY <1>2, <1>3, <1>5, <1>6, <1>7 DEF Word

(* Every string that a descriptor may name. *)
LEMMA NameReplies ==
  \A i \in 0 .. 4 : Cut(Reply(NameRequest(i)), NameRequest(i).len) \in Strings
<1>1. ASSUME NEW s \in Strings PROVE Cut(Wrapper(s), 255) = s
  <2>1. s \in Seq(Byte) /\ Len(s) <= 255
    BY Zenon DEF Strings
  <2>2. 255 \in Nat
    OBVIOUS
  <2> QED
    BY <2>1, <2>2, CutWhole, Zenon
<1> TAKE i \in 0 .. 4
<1>2. i < StringBound /\ i < Len(usb_strings) /\ i + 1 \in 1 .. 5
  BY StringBytes DEF StringBound
<1>3. usb_get_descriptor_cb(3, i) = Wrapper(usb_strings[i + 1])
  BY <1>2 DEF usb_get_descriptor_cb, StringDescriptor
<1>4. NameRequest(i).len = 255 /\ NameRequest(i) = Get(128, 3, i, 255)
  BY DEF NameRequest, Get
<1>5. Reply(NameRequest(i)) = Wrapper(usb_strings[i + 1])
  BY <1>3, <1>4, GetReply
<1>6. usb_strings[i + 1] \in Strings
  BY <1>2, StringBytes
<1> QED
  BY <1>1, <1>4, <1>5, <1>6, Zenon

-----------------------------------------------------------------------------
(* The answers are descriptors. *)

(* A descriptor of bytes, whose size is not larger than the table it is from. *)
IsDescriptor(d) == d.size \in Nat /\ d.data \in Seq(Byte) /\ d.size <= Len(d.data)

LEMMA WrapperIsDescriptor == \A t \in Seq(Byte) : IsDescriptor(Wrapper(t))
BY DEF Wrapper, IsDescriptor

(* The slice of the HID descriptor ends in the table, though the descriptor   *)
(* it was made for is no longer there.                                        *)
LEMMA SliceIsDescriptor == IsDescriptor(hid_descriptor)
<1> DEFINE slice == SubSeq(Tree, 19, 32)
<1>1. Tree \in Seq(Byte) /\ Len(Tree) = 32
  BY TreeBytes DEF Tree
<1>2. \A k \in 19 .. 32 : Tree[k] \in Byte
  <2> TAKE k \in 19 .. 32
  <2>1. k \in 1 .. Len(Tree)
    BY <1>1
  <2> QED
    BY <1>1, <2>1, ElementOfSeq
<1>3. slice \in Seq(Byte) /\ Len(slice) = 14 /\ 9 \in Nat
  BY <1>2, SubSeqProperties
<1>4. hid_descriptor.size = 9 /\ hid_descriptor.data = slice
  BY <1>1 DEF hid_descriptor, Tree
<1> HIDE DEF slice
<1>5. 9 <= Len(slice)
  BY <1>3
<1> QED
  BY <1>3, <1>4, <1>5, Zenon DEF IsDescriptor

(* usb_get_descriptor_cb answers from its tables, for every type and index. *)
LEMMA CallbackAnswers ==
  \A dtype, dindex \in Nat : IsDescriptor(usb_get_descriptor_cb(dtype, dindex))
<1> TAKE dtype, dindex \in Nat
<1>1. IsDescriptor(NULL)
  BY DEF IsDescriptor, NULL
<1>2. IsDescriptor(Wrapper(usb_device_descriptor_data))
  BY DeviceBytes, WrapperIsDescriptor, Zenon DEF Device
<1>3. IsDescriptor(hid_configuration_descriptor)
  BY TreeBytes, WrapperIsDescriptor, Zenon DEF hid_configuration_descriptor
<1>4. IsDescriptor(Wrapper(hid_report_descriptor_data))
  <2>1. hid_report_descriptor_data \in Seq(Byte)
    BY DEF hid_report_descriptor_data, Blank, Byte
  <2> QED
    BY <2>1, WrapperIsDescriptor, Zenon
<1> DEFINE always == {NULL, Wrapper(usb_device_descriptor_data),
                      hid_configuration_descriptor, hid_descriptor,
                      Wrapper(hid_report_descriptor_data)}
<1>5. \A d \in always : IsDescriptor(d)
  BY <1>1, <1>2, <1>3, <1>4, SliceIsDescriptor
<1>6. CASE dindex < StringBound
  <2>1. dindex < Len(usb_strings) /\ dindex + 1 \in 1 .. 5
    BY <1>6, StringBytes DEF StringBound
  <2>2. usb_strings[dindex + 1] \in Seq(Byte)
    BY <2>1, StringBytes DEF Strings
  <2>3. IsDescriptor(StringDescriptor(dindex))
    BY <2>1, <2>2, WrapperIsDescriptor, Zenon DEF StringDescriptor
  <2>4. usb_get_descriptor_cb(dtype, dindex) \in always \cup {StringDescriptor(dindex)}
    BY <1>6, Zenon DEF usb_get_descriptor_cb
  <2> QED
    BY <1>5, <2>3, <2>4
<1>7. CASE ~(dindex < StringBound)
  <2>1. usb_get_descriptor_cb(dtype, dindex) \in always
    BY <1>7, Zenon DEF usb_get_descriptor_cb
  <2> QED
    BY <1>5, <2>1
<1> QED
  BY <1>6, <1>7

(* So is the reply to any request. *)
LEMMA ReplyIsDescriptor == \A s \in Request : IsDescriptor(Reply(s))
<1> TAKE s \in Request
<1>1. s.hi \in Nat /\ s.lo \in Nat
  BY DEF Request, Byte
<1>2. IsDescriptor(NULL)
  BY DEF IsDescriptor, NULL
<1>3. IsDescriptor(usb_get_descriptor_cb(s.hi, s.lo))
  BY <1>1, CallbackAnswers
<1>4. Reply(s) \in {NULL, usb_get_descriptor_cb(s.hi, s.lo)}
  BY DEF Reply, usb_request_hook_cb, default_handler
<1> QED
  BY <1>2, <1>3, <1>4

(* Cutting a descriptor leaves bytes, and no more than were asked for. *)
LEMMA CutIsBytes ==
  ASSUME NEW d, IsDescriptor(d), NEW n \in Nat
  PROVE  Cut(d, n) \in Seq(Byte) /\ Len(Cut(d, n)) <= n
<1> DEFINE m == IF d.size < n THEN d.size ELSE n
<1>1. m \in Nat /\ m <= n /\ m <= Len(d.data) /\ d.data \in Seq(Byte)
  BY DEF IsDescriptor
<1>2. Cut(d, n) = SubSeq(d.data, 1, m)
  BY DEF Cut
<1> HIDE DEF m
<1>3. \A k \in 1 .. m : d.data[k] \in Byte
  <2> TAKE k \in 1 .. m
  <2>1. k \in 1 .. Len(d.data)
    BY <1>1
  <2> QED
    BY <1>1, <2>1, ElementOfSeq
<1>4. SubSeq(d.data, 1, m) \in Seq(Byte) /\ Len(SubSeq(d.data, 1, m)) = m
  BY <1>1, <1>3, SubSeqProperties
<1> QED
  BY <1>1, <1>2, <1>4

-----------------------------------------------------------------------------
(* What the kernel knows. *)

(* The requests of an enumeration, told by the tables. *)
LEMMA KernelRequestsAre ==
  KernelRequests = {DeviceRequest, HeadRequest, TreeReq, Set(1)}
                     \cup {NameRequest(i) : i \in 0 .. 4}
<1>1. /\ Word(hid_configuration_descriptor_data, 3) = 32
      /\ hid_configuration_descriptor_data[6] = 1
  BY TreeBytes DEF Word
<1>2. 0 .. Len(usb_strings) - 1 = 0 .. 4
  BY StringBytes
<1> QED
  BY <1>1, <1>2, Zenon DEF KernelRequests, TreeReq

(* What the kernel has read of the kernel's own requests. *)
LEMMA KnownIs ==
  ASSUME EnumerationInv
  PROVE  /\ DeviceRequest \in DOMAIN known => known[DeviceRequest] = Device
         /\ HeadRequest \in DOMAIN known =>
              Len(known[HeadRequest]) = 9 /\ TreeRequest = TreeReq
         /\ TreeReq \in DOMAIN known => known[TreeReq] = Tree
         /\ \A i \in 0 .. 4 : NameRequest(i) \in DOMAIN known =>
                                known[NameRequest(i)] \in Strings
<1>1. \A q \in DOMAIN known : known[q] = Cut(Reply(q), q.len)
  BY DEF EnumerationInv
<1>2. HeadRequest \in DOMAIN known =>
        Len(known[HeadRequest]) = 9 /\ Word(known[HeadRequest], 3) = 32
  BY <1>1, ConfigurationReplies
<1> QED
  BY <1>1, <1>2, DeviceReply, ConfigurationReplies, NameReplies, Zenon DEF TreeRequest, TreeReq

(* A kernel that has the tree has it all, and what it names. *)
LEMMA TreeIs ==
  ASSUME EnumerationInv, HasTree
  PROVE  /\ TreeRequest = TreeReq /\ known[TreeRequest] = Tree
         /\ known[DeviceRequest] = Device /\ DeviceRequest \in DOMAIN known
         /\ Names = 0 .. 4 /\ Set(known[TreeRequest][6]) = Set(1)
<1>1. /\ HeadRequest \in DOMAIN known /\ TreeRequest \in DOMAIN known
      /\ DeviceRequest \in DOMAIN known
  BY Zenon DEF HasTree, Has, EnumerationInv
<1>2. TreeRequest = TreeReq
  BY <1>1, KnownIs
<1>3. known[TreeRequest] = Tree /\ known[DeviceRequest] = Device
  BY <1>1, <1>2, KnownIs, Zenon
<1>4. {Device[i] : i \in 15 .. 17} = {1, 2, 3}
  BY DeviceBytes
<1>5. {d[9] : d \in OfType(Tree, 4)} = {4}
  <2>1. SubSeq(Tree, 10, 18)[9] = 4
    BY PartBytes
  <2> QED
    BY <2>1, TreeParts, Zenon
<1>6. Names = {0} \cup {1, 2, 3} \cup {4}
  BY <1>3, <1>4, <1>5, Zenon DEF Names
<1>7. Tree[6] = 1
  BY TreeBytes DEF Tree
<1> QED
  BY <1>1, <1>2, <1>3, <1>6, <1>7

(* The kernel wants only requests of an enumeration, and the configuration    *)
(* after the device.                                                          *)
LEMMA WantedIs ==
  ASSUME EnumerationInv
  PROVE  /\ Wanted \subseteq KernelRequests
         /\ HeadRequest \in Wanted => DeviceRequest \in DOMAIN known
<1>1. HeadRequest # DeviceRequest
  BY DEF HeadRequest, DeviceRequest, Get
<1>2. Has(HeadRequest, 9) => TreeRequest = TreeReq
  BY KnownIs, Zenon DEF Has
<1>3. HasTree => /\ {NameRequest(i) : i \in Names} \subseteq KernelRequests
                 /\ Set(known[TreeRequest][6]) \in KernelRequests
  BY TreeIs, KernelRequestsAre
<1>4. Wanted \subseteq KernelRequests
  BY <1>2, <1>3, KernelRequestsAre DEF Wanted
<1>5. CASE Has(DeviceRequest, 18)
  BY <1>4, <1>5 DEF Has
<1>6. CASE ~Has(DeviceRequest, 18) /\ HeadRequest \in Wanted
  <2>1. ~Has(HeadRequest, 9)
    BY <1>6 DEF Wanted, Has
  <2> QED
    BY <1>1, <1>6, <2>1 DEF Wanted, HasTree
<1> QED
  BY <1>4, <1>5, <1>6

-----------------------------------------------------------------------------
(* The inductive invariant. *)

EnumInv == TypeOK /\ EnumerationInv /\ IsDescriptor(answer)

(* SETs come from the kernel only. *)
LEMMA SetsAreKernels ==
  ASSUME EnumerationInv, Ask \/ Other
  PROVE  /\ setup' \in Request /\ ep0' = "setup"
         /\ UNCHANGED <<answer, conf, known, resets>>
         /\ setup'.req = 9 /\ setup'.rtype = 0 => setup' \in KernelRequests
<1>1. CASE Ask
  BY <1>1, WantedIs DEF Ask, Receive
<1>2. CASE Other
  <2>1. ASSUME NEW s, Receive(s), s.req # 9
        PROVE  /\ setup' \in Request /\ ep0' = "setup" /\ setup'.req # 9
               /\ UNCHANGED <<answer, conf, known, resets>>
    BY <2>1 DEF Receive
  <2>2. \A a, d, i, n : Get(a, d, i, n).req # 9
    BY DEF Get
  <2>3. \A n : [rtype |-> 161, req |-> 1, hi |-> 0, lo |-> 1, len |-> n].req # 9
    OBVIOUS
  <2>4. \/ \E a, d, i, n : Receive(Get(a, d, i, n))
        \/ \E n : Receive([rtype |-> 161, req |-> 1, hi |-> 0, lo |-> 1, len |-> n])
    BY <1>2, Zenon DEF Other
  <2>5. \E s : Receive(s) /\ s.req # 9
    BY <2>2, <2>3, <2>4, Zenon
  <2> QED
    BY <2>1, <2>5, Zenon
<1> QED
  BY <1>1, <1>2

(* The value set is 1. *)
LEMMA SetsOne ==
  ASSUME NEW s \in KernelRequests, s.req = 9
  PROVE  s.lo = 1
BY KernelRequestsAre DEF DeviceRequest, HeadRequest, TreeReq, NameRequest, Get, Set

LEMMA EnumInvInit == Init => EnumInv
<1> SUFFICES ASSUME Init PROVE EnumInv
  OBVIOUS
<1>1. DeviceRequest \in Request /\ DeviceRequest.req = 6
  BY DEF DeviceRequest, Get, Request, Byte, Short
<1>2. DOMAIN known = {} /\ IsDescriptor(NULL)
  BY DEF Init, IsDescriptor, NULL
<1> QED
  BY <1>1, <1>2, EnumerationAssumption
     DEF Init, EnumInv, TypeOK, EnumerationInv, IsDescriptor

(* Ending a request with what the reply to it cut to its length. *)
LEMMA FinishKeeps ==
  ASSUME EnumInv, Finish(Cut(Reply(setup), setup.len))
  PROVE  EnumInv'
<1> DEFINE bytes == Cut(Reply(setup), setup.len)
<1>0. setup \in Request /\ setup.len \in Nat /\ setup' = setup /\ ep0' = "idle"
      /\ UNCHANGED <<answer, conf, resets>>
  <2>1. setup \in Request
    BY DEF EnumInv, TypeOK
  <2>2. \A s \in Request : s.len \in Short
    BY DEF Request
  <2>3. Short \subseteq Nat
    BY DEF Short
  <2> QED
    BY <2>1, <2>2, <2>3, Zenon DEF Finish
<1>1. bytes \in Seq(Byte) /\ Len(bytes) <= setup.len
  BY <1>0, ReplyIsDescriptor, CutIsBytes
<1>2. CASE setup \notin Wanted
  <2>1. UNCHANGED known
    BY <1>2 DEF Finish
  <2> QED
    BY <1>0, <2>1 DEF EnumInv, TypeOK, EnumerationInv, IsDescriptor, HeadRequest, DeviceRequest, KernelRequests
<1>3. CASE setup \in Wanted
  <2>1. known' = [q \in DOMAIN known \cup {setup} |-> IF q = setup THEN bytes ELSE known[q]]
    BY <1>3 DEF Finish
  <2> HIDE DEF bytes
  <2>2. /\ DOMAIN known' = DOMAIN known \cup {setup}
        /\ \A q \in DOMAIN known' : known'[q] = IF q = setup THEN bytes ELSE known[q]
    BY <2>1
  <2>3. TypeOK'
    BY <1>0, <1>1, <2>2 DEF EnumInv, TypeOK
  <2>4. setup \in KernelRequests /\ (HeadRequest = setup => DeviceRequest \in DOMAIN known)
    BY <1>3, WantedIs DEF EnumInv
  <2>5. \A q \in DOMAIN known' : known'[q] = Cut(Reply(q), q.len)
    BY <2>2 DEF EnumInv, EnumerationInv, bytes
  <2>6. EnumerationInv'
    BY <1>0, <2>2, <2>4, <2>5
       DEF EnumInv, EnumerationInv, HeadRequest, DeviceRequest, KernelRequests
  <2> QED
    BY <1>0, <2>3, <2>6 DEF EnumInv, IsDescriptor
<1> QED
  BY <1>2, <1>3

LEMMA EnumInvNext == EnumInv /\ [Next]_vars => EnumInv'
<1> SUFFICES ASSUME EnumInv, [Next]_vars PROVE EnumInv'
  OBVIOUS
<1>1. CASE Respond
  <2>1. setup' = setup /\ setup \in Request /\ UNCHANGED <<known, resets>>
    BY <1>1 DEF Respond, EnumInv, TypeOK
  <2>2. /\ answer' = Reply(setup) /\ conf' \in {0, 1} /\ ep0' \in {"in", "stall"}
        /\ ep0' = "stall" => answer' = NULL
    <3>1. CASE setup.req = 9 /\ setup.rtype = 0
      <4>1. ep0' = "in" /\ answer' = NULL /\ conf' = setup.lo
        BY <1>1, <3>1 DEF Respond
      <4>2. setup.lo = 1
        BY <3>1, SetsOne DEF EnumInv, EnumerationInv
      <4> QED
        BY <3>1, <4>1, <4>2 DEF Reply
    <3>2. CASE ~(setup.req = 9 /\ setup.rtype = 0)
      BY <1>1, <3>2 DEF Respond, Reply, EnumInv, TypeOK
    <3> QED
      BY <3>1, <3>2
  <2>3. IsDescriptor(answer')
    BY <2>1, <2>2, ReplyIsDescriptor
  <2>4. TypeOK'
    BY <2>1, <2>2, <2>3 DEF EnumInv, TypeOK, IsDescriptor
  <2>5. EnumerationInv'
    BY <2>1, <2>2 DEF EnumInv, EnumerationInv, HeadRequest, DeviceRequest, KernelRequests
  <2> QED
    BY <2>3, <2>4, <2>5 DEF EnumInv, IsDescriptor
<1>2. CASE Ask \/ Other
  <2>1. /\ setup' \in Request /\ ep0' = "setup"
        /\ UNCHANGED <<answer, conf, known, resets>>
        /\ setup'.req = 9 /\ setup'.rtype = 0 => setup' \in KernelRequests
    BY <1>2, SetsAreKernels DEF EnumInv
  <2> QED
    BY <2>1 DEF EnumInv, TypeOK, EnumerationInv, IsDescriptor, HeadRequest, DeviceRequest,
                KernelRequests
<1>3. CASE Collect
  <2>1. answer = Reply(setup)
    BY <1>3 DEF Collect, EnumInv, EnumerationInv
  <2> QED
    BY <1>3, <2>1, FinishKeeps DEF Collect
<1>4. CASE Stalled
  <2>1. Reply(setup) = NULL
    BY <1>4 DEF Stalled, EnumInv, EnumerationInv
  <2>2. Cut(NULL, setup.len) = <<>>
    BY SubSeqEmpty DEF Cut, NULL, EnumInv, TypeOK, Request, Short
  <2> QED
    BY <1>4, <2>1, <2>2, FinishKeeps DEF Stalled
<1>5. CASE BusReset
  <2>1. /\ ep0' = "idle" /\ conf' = 0 /\ DOMAIN known' = {} /\ UNCHANGED <<setup, answer>>
        /\ resets' \in 0 .. MaxResets
    BY <1>5, EnumerationAssumption DEF BusReset, EnumInv, TypeOK
  <2> QED
    BY <2>1 DEF EnumInv, TypeOK, EnumerationInv, IsDescriptor, KernelRequests, HeadRequest, DeviceRequest
<1>6. CASE UNCHANGED vars
  BY <1>6 DEF vars, EnumInv, TypeOK, EnumerationInv, IsDescriptor, KernelRequests, HeadRequest,
              DeviceRequest
<1> QED
  BY <1>1, <1>2, <1>3, <1>4, <1>5, <1>6 DEF Next

(* In every state the host's knowledge is the firmware's replies. *)
LEMMA EnumInvHolds == Spec => []EnumInv
BY EnumInvInit, EnumInvNext, PTL DEF Spec

-----------------------------------------------------------------------------
(* The theorems. *)

(* Every variable stays of its type: in particular only one configuration is  *)
(* ever set, and no answer is longer than was asked for (usb_lld, USBD1).     *)
THEOREM TypesKept == Spec => []TypeOK
BY EnumInvHolds, PTL DEF EnumInv

(* Whoever asks, and wherever resets fall, a descriptor is answered by the    *)
(* same bytes (usb_get_descriptor_cb, usb_request_hook_cb).                   *)
THEOREM KnowledgeIsReplies == Spec => []EnumerationInv
BY EnumInvHolds, PTL DEF EnumInv

(* No answer reaches past the table it is taken from (usb_get_descriptor_cb,  *)
(* hid_descriptor, usb_strings).                                              *)
THEOREM AnswersStayInside == Spec => []NoOverread
<1>1. EnumInv => NoOverread
  BY DEF EnumInv, NoOverread, IsDescriptor
<1> QED
  BY <1>1, EnumInvHolds, PTL

(* A kernel that wants nothing more has the tree and all its strings. *)
LEMMA AllIsKnown ==
  ASSUME EnumerationInv, Wanted = {}
  PROVE  HasTree /\ \A i \in 0 .. 4 : NameRequest(i) \in DOMAIN known
<1>1. DeviceRequest \in DOMAIN known
  BY DEF Wanted
<1>2. Has(DeviceRequest, 18)
  <2>1. known[DeviceRequest] = Device /\ Len(Device) = 18
    BY <1>1, KnownIs, DeviceBytes
  <2> QED
    BY <1>1, <2>1 DEF Has
<1>3. HeadRequest \in DOMAIN known
  BY <1>2 DEF Wanted
<1>4. Has(HeadRequest, 9) /\ TreeRequest = TreeReq
  <2>1. Len(known[HeadRequest]) = 9 /\ TreeRequest = TreeReq
    BY <1>3, KnownIs, Zenon
  <2> QED
    BY <1>3, <2>1 DEF Has
<1>5. TreeReq \in DOMAIN known
  BY <1>4 DEF Wanted
<1>6. Has(TreeRequest, 9)
  <2>1. known[TreeReq] = Tree /\ Len(Tree) = 32
    BY <1>5, KnownIs, TreeBytes DEF Tree
  <2> QED
    BY <1>4, <1>5, <2>1 DEF Has
<1>7. HasTree
  BY <1>4, <1>6 DEF HasTree
<1>8. \A i \in Names : NameRequest(i) \in DOMAIN known
  BY <1>7 DEF Wanted
<1> QED
  BY <1>7, <1>8, TreeIs

(* The lamp in the tables is the one that the library looks for. *)
LEMMA TablesAgree ==
  ASSUME known[DeviceRequest] = Device, known[TreeRequest] = Tree
  PROVE  Opens /\ WholeTree /\ Transfers
<1> DEFINE i == SubSeq(Tree, 10, 18)
           d == SubSeq(Tree, 19, 25)
           e == SubSeq(Tree, 26, 32)
<1>1. Opens
  BY DeviceBytes DEF Opens, Word, Library
<1>2. OfType(Tree, 4) = {i} /\ OfType(Tree, 5) = {d, e}
  BY TreeParts
<1>3. /\ i[3] = 0 /\ i[5] = 2
      /\ d[3] = 129 /\ d[4] = 2 /\ d[5] = 64 /\ d[6] = 0
      /\ e[3] = 1 /\ e[4] = 2 /\ e[5] = 64 /\ e[6] = 0
  BY PartBytes
<1>4. /\ Len(Tree) = 32 /\ Tree[3] = 32 /\ Tree[4] = 0 /\ Tree[5] = 1
      /\ StartsAt(Tree) = {1, 10, 19, 26, 33}
  BY TreeBytes, TreeStarts DEF Tree
<1> HIDE DEF i, d, e
<1>5. Cardinality({i}) = 1 /\ Cardinality({d, e}) = 2
  <2>1. {d, e} = {d} \cup {e} /\ e \notin {d}
    BY <1>3
  <2>2. Cardinality({d} \cup {e}) = Cardinality({d}) + 1
    BY <2>1, FS_Singleton, FS_AddElement, Zenon
  <2>3. Cardinality({d}) = 1 /\ Cardinality({i}) = 1
    BY FS_Singleton, Zenon
  <2> QED
    BY <2>1, <2>2, <2>3
<1>6. WholeTree
  BY <1>2, <1>3, <1>4, <1>5 DEF WholeTree, Word, Library
<1>7. Transfers
  BY <1>2, <1>3 DEF Transfers, Word, Library, ep1config
<1> QED
  BY <1>1, <1>6, <1>7

(* A host that has configured the lamp has found in its tables the ids, the   *)
(* whole tree and the endpoints, as the library and the firmware use them     *)
(* (usbcfg.c's tables, ep1config, libusbled.c).                               *)
THEOREM ConfiguredIsRecognised == Spec => []LampRecognised
<1>1. EnumInv => LampRecognised
  BY AllIsKnown, TreeIs, TablesAgree DEF EnumInv, LampRecognised, Recognised
<1> QED
  BY <1>1, EnumInvHolds, PTL

(* It has been given a string for every index that a descriptor names         *)
(* (usb_strings and the bound in usb_get_descriptor_cb).                      *)
THEOREM NamedStringsExist == Spec => []NamesAreAnswered
<1>1. EnumInv => NamesAreAnswered
  BY AllIsKnown, TreeIs, KnownIs DEF EnumInv, NamesAreAnswered, Recognised, Strings
<1> QED
  BY <1>1, EnumInvHolds, PTL
=============================================================================
