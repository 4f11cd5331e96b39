----------------------------- MODULE AlarmDuty -----------------------------
(***************************************************************************)
(* What the alarm scheduler promises, without table, threads or runs: each *)
(* time a user arms an alarm it may fire once, firing takes two steps (the *)
(* alarm is claimed, then it fires), at most one claim is open, and an     *)
(* armed alarm or an open claim may be dropped but never fires twice.      *)
(***************************************************************************)
EXTENDS Integers

CONSTANT Alarms

VARIABLES
  armed,    \* alarms waiting for their time
  claimed,  \* the alarm being fired: a set of at most one
  armings,  \* Alarms -> how often it was armed
  firings   \* Alarms -> how often it fired

dutyVars == <<armed, claimed, armings, firings>>

Init ==
  /\ armed = {}
  /\ claimed = {}
  /\ armings = [a \in Alarms |-> 0]
  /\ firings = [a \in Alarms |-> 0]

Arm(a) ==
  /\ armed' = armed \cup {a}
  /\ armings' = [armings EXCEPT ![a] = @ + 1]
  /\ UNCHANGED <<claimed, firings>>

Disarm(a) ==
  /\ armed' = armed \ {a}
  /\ UNCHANGED <<claimed, armings, firings>>

Claim(a) ==
  /\ a \in armed /\ claimed = {}
  /\ armed' = armed \ {a}
  /\ claimed' = {a}
  /\ UNCHANGED <<armings, firings>>

Fire(a) ==
  /\ a \in claimed
  /\ claimed' = {}
  /\ firings' = [firings EXCEPT ![a] = @ + 1]
  /\ UNCHANGED <<armed, armings>>

DropClaim ==
  /\ claimed' = {}
  /\ UNCHANGED <<armed, armings, firings>>

Next ==
  \/ \E a \in Alarms : Arm(a) \/ Disarm(a) \/ Claim(a) \/ Fire(a)
  \/ DropClaim

Spec == Init /\ [][Next]_dutyVars

=============================================================================
