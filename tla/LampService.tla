---------------------------- MODULE LampService ----------------------------
(***************************************************************************)
(* What the lamp and the library promise to the programs that use them,    *)
(* with nothing of the bus, the firmware or the handles that implement it. *)
(* One program holds the lamp at a time.  A request of its holder is shown *)
(* some time later, or never; an answer comes to a holder that waits for   *)
(* one, certifies a report that has been shown, comes in the order of the  *)
(* reports, none twice, and is of the newest request but for one report for*)
(* each fault.  When the lamp is unplugged nobody holds it, and what came  *)
(* before is not answered any more.                                        *)
(***************************************************************************)
EXTENDS Naturals

CONSTANTS Clients,  \* the programs
          None      \* no program

VARIABLES holder,     \* the program that holds the lamp, or None
          waits,      \* the programs that wait for an answer
          asked,      \* the report of each program's newest request
          answer,     \* the report that its newest answer certifies
          sent,       \* the newest report that the lamp has been given
          shown,      \* the report that the LEDs show, 0 before the first
          collected,  \* the newest report that was answered
          floor,      \* the newest report when the lamp was unplugged last
          faults      \* timeouts and kills so far

vars == <<holder, waits, asked, answer, sent, shown, collected, floor, faults>>

-----------------------------------------------------------------------------

Init == /\ holder = None /\ waits = {}
        /\ asked = [p \in Clients |-> 0] /\ answer = [p \in Clients |-> 0]
        /\ sent = 0 /\ shown = 0 /\ collected = 0 /\ floor = 0 /\ faults = 0

Hold(p) == /\ holder = None /\ holder' = p
           /\ UNCHANGED <<waits, asked, answer, sent, shown, collected, floor, faults>>

Leave(p) == /\ holder = p /\ p \notin waits
            /\ holder' = None
            /\ UNCHANGED <<waits, asked, answer, sent, shown, collected, floor, faults>>

Request(p) == /\ holder = p /\ waits = {}
              /\ sent' = sent + 1
              /\ asked' = [asked EXCEPT ![p] = sent + 1]
              /\ waits' = {p}
              /\ UNCHANGED <<holder, answer, shown, collected, floor, faults>>

(* A later report of those the lamp has been given is shown. *)
Show == /\ shown' \in shown + 1 .. sent
        /\ UNCHANGED <<holder, waits, asked, answer, sent, collected, floor, faults>>

Answer(p) == /\ holder = p /\ waits = {p}
             /\ \E id \in collected + 1 .. shown :
                  /\ id > floor
                  /\ id <= asked[p] /\ asked[p] - id <= faults
                  /\ answer' = [answer EXCEPT ![p] = id]
                  /\ collected' = id
             /\ waits' = {}
             /\ UNCHANGED <<holder, asked, sent, shown, floor, faults>>

(* A fault: a program's call times out, or the program is killed. *)
Fault(p) == /\ faults' = faults + 1
            /\ waits' = waits \ {p}
            /\ \/ UNCHANGED holder
               \/ holder = p /\ holder' = None
            /\ UNCHANGED <<asked, answer, sent, shown, collected, floor>>

Unplug == /\ holder' = None /\ waits' = {}
          /\ floor' = sent
          /\ UNCHANGED <<asked, answer, sent, shown, collected, faults>>

Next == \/ Show \/ Unplug
        \/ \E p \in Clients : Hold(p) \/ Leave(p) \/ Request(p) \/ Answer(p) \/ Fault(p)

Spec == Init /\ [][Next]_vars
=============================================================================
