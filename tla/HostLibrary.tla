---------------------------- MODULE HostLibrary ----------------------------
(***************************************************************************)
(* The host library (MoooDLib/src/libusbled.c) and the two programs that   *)
(* use one lamp through it: the MoodLed application, by way of ledmanager.c,*)
(* and the command line test test_dev.c, which has its own copy of the     *)
(* library.  Every running program is a process of its own, and the kernel *)
(* gives interface 0 to one of them at a time.                             *)
(*                                                                         *)
(* What a transfer meets on the bus is a parameter of the actions here: the*)
(* module Lamp gives it the firmware.                                      *)
(***************************************************************************)
EXTENDS Naturals

CONSTANTS Apps,      \* processes of MoodLed: they ignore the result of init
          Tests,     \* processes of test_dev: they exit when init fails
          None,      \* no process
          MaxFaults  \* bound: timeouts and kills

Clients == Apps \cup Tests

ASSUME LibraryAssumption ==
  /\ Apps \cap Tests = {} /\ None \notin Clients
  /\ MaxFaults \in Nat

VARIABLES pc,      \* where each process is; "off" when it does not run
          handle,  \* each process's libusb handle
          owner,   \* the process that has claimed interface 0, or None
          asked,   \* the report of each process's newest request
          answer,  \* the report its newest answer echoes
          faults   \* timeouts and kills so far

libVars == <<pc, handle, owner, asked, answer, faults>>

LibInit == /\ pc = [p \in Clients |-> "off"]
           /\ handle = [p \in Clients |-> "null"]
           /\ owner = None
           /\ asked = [p \in Clients |-> 0]
           /\ answer = [p \in Clients |-> 0]
           /\ faults = 0

Goto(p, l) == pc' = [pc EXCEPT ![p] = l]

(* What a process does with a failed init. *)
AfterFailure(p) == IF p \in Tests THEN "off" ELSE "ready"

Disown(p) == owner' = IF owner = p THEN None ELSE owner

-----------------------------------------------------------------------------
(* init. *)

(* libusb_open_device_with_vid_pid, which finds the lamp or returns NULL. *)
Open(p, found) ==
  /\ pc[p] = "off"
  /\ handle' = [handle EXCEPT ![p] = IF found THEN "live" ELSE "null"]
  /\ Goto(p, IF found THEN "opened" ELSE AfterFailure(p))
  /\ UNCHANGED <<owner, asked, answer, faults>>

(* Mutant of Claim: an interface that is busy is not looked at. *)
ClaimUnchecked(p) ==
  /\ pc[p] = "opened" /\ handle[p] = "live"
  /\ owner' = IF owner = None THEN p ELSE owner
  /\ Goto(p, "ready")
  /\ UNCHANGED <<handle, asked, answer, faults>>

(* libusb_claim_interface succeeds: init returns 0. *)
Claim(p) ==
  /\ pc[p] = "opened" /\ handle[p] = "live" /\ owner = None
  /\ owner' = p
  /\ Goto(p, "ready")
  /\ UNCHANGED <<handle, asked, answer, faults>>

(* A step of init after the open fails: the handle is closed, and the static  *)
(* variable goes on pointing to it.                                           *)
InitFails(p) ==
  /\ pc[p] = "opened" /\ (owner # None \/ handle[p] = "gone")
  /\ handle' = [handle EXCEPT ![p] = "closed"]
  /\ Goto(p, AfterFailure(p))
  /\ UNCHANGED <<owner, asked, answer, faults>>

-----------------------------------------------------------------------------
(* send_recv_pkt: a bulk write, then a bulk read. *)

(* The next command of the process: MoodLed's only one is switchOn. *)
Call(p) ==
  /\ pc[p] = "ready" /\ handle[p] \in {"live", "gone"}
  /\ Goto(p, "write")
  /\ UNCHANGED <<handle, owner, asked, answer, faults>>

(* libusb is given a NULL or a closed handle (hs_err_pid4712.log). *)
Crash(p) ==
  /\ pc[p] = "ready" /\ handle[p] \in {"null", "closed"}
  /\ Goto(p, "off")
  /\ handle' = [handle EXCEPT ![p] = "null"]
  /\ UNCHANGED <<owner, asked, answer, faults>>

(* Where a process is once its call has returned. *)
AfterCall(p) == IF p \in Tests THEN "ready" ELSE "window"

Written(p, id) ==
  /\ pc[p] = "write" /\ handle[p] = "live"
  /\ asked' = [asked EXCEPT ![p] = id]
  /\ Goto(p, "read")
  /\ UNCHANGED <<handle, owner, answer, faults>>

Answered(p, id) ==
  /\ pc[p] = "read" /\ handle[p] = "live"
  /\ answer' = [answer EXCEPT ![p] = id]
  /\ Goto(p, AfterCall(p))
  /\ UNCHANGED <<handle, owner, asked, faults>>

(* The transfer takes longer than USB_TIMEOUT, and send_recv_pkt returns. *)
TimesOut(p) ==
  /\ pc[p] \in {"write", "read"} /\ handle[p] = "live" /\ faults < MaxFaults
  /\ faults' = faults + 1
  /\ Goto(p, AfterCall(p))
  /\ UNCHANGED <<handle, owner, asked, answer>>

(* A transfer to a device that is gone fails at once. *)
NoDevice(p) ==
  /\ pc[p] \in {"write", "read"} /\ handle[p] = "gone"
  /\ Goto(p, AfterCall(p))
  /\ UNCHANGED <<handle, owner, asked, answer, faults>>

-----------------------------------------------------------------------------
(* The end of a process. *)

(* release, and the exit that follows it. *)
Release(p) ==
  /\ pc[p] = AfterCall(p) /\ handle[p] \in {"live", "gone"}
  /\ Disown(p)
  /\ handle' = [handle EXCEPT ![p] = "closed"]
  /\ Goto(p, "off")
  /\ UNCHANGED <<asked, answer, faults>>

(* The process is killed: the kernel cancels its transfers and its claim. *)
Kill(p) ==
  /\ pc[p] # "off" /\ faults < MaxFaults
  /\ faults' = faults + 1
  /\ Disown(p)
  /\ handle' = [handle EXCEPT ![p] = "null"]
  /\ Goto(p, "off")
  /\ UNCHANGED <<asked, answer>>

(* The lamp leaves the bus: every open handle is one to a device that is gone.*)
Unplugged ==
  /\ handle' = [p \in Clients |-> IF handle[p] = "live" THEN "gone" ELSE handle[p]]
  /\ owner' = None
  /\ UNCHANGED <<pc, asked, answer, faults>>
=============================================================================
