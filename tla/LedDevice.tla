----------------------------- MODULE LedDevice -----------------------------
(***************************************************************************)
(* What the lamp promises to a host on its two bulk endpoints, with none   *)
(* of the queues, flags and interrupts that implement it: a report that    *)
(* the device has acknowledged on the bus is shown once, in the order of   *)
(* arrival, and whole.  A bus reset or a new configuration may lose the    *)
(* newest acknowledged reports, never one in the middle.                   *)
(***************************************************************************)
EXTENDS Naturals, Sequences

CONSTANTS Report,     \* the reports the host may send, positive numbers in the order it sends them
          MaxPending  \* how many acknowledged reports the device may hold

VARIABLES pending,  \* acknowledged reports not shown yet, oldest first
          shown     \* the report the LEDs show, 0 before the first

vars == <<pending, shown>>

Newer(id) == /\ id > shown
             /\ \A i \in DOMAIN pending : id > pending[i]

-----------------------------------------------------------------------------

Init == pending = <<>> /\ shown = 0

(* The device acknowledges a report of the host. *)
Accept(id) == /\ Len(pending) < MaxPending
              /\ Newer(id)
              /\ pending' = Append(pending, id)
              /\ UNCHANGED shown

(* The device evaluates the oldest report it holds. *)
Evaluate == /\ pending # <<>>
            /\ shown' = Head(pending)
            /\ pending' = Tail(pending)

(* A bus reset or a SET_CONFIGURATION loses the newest ones. *)
Lose == /\ \E n \in 0 .. Len(pending) : pending' = SubSeq(pending, 1, n)
        /\ UNCHANGED shown

Next == (\E id \in Report : Accept(id)) \/ Evaluate \/ Lose

Spec == Init /\ [][Next]_vars
=============================================================================
