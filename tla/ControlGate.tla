----------------------------- MODULE ControlGate ------------------------------
(***************************************************************************)
(* What the control store promises the TypeScript runtime about one        *)
(* profile: every release is admitted until one of them is blamed by a     *)
(* control; from then on none is, until a release that was never blamed is *)
(* recovered, and then that one alone.                                     *)
(***************************************************************************)
CONSTANT Releases

VARIABLES admitted,   \* releases that may answer without a simulation
          blamed      \* releases a control has convicted

vars == <<admitted, blamed>>

Init == admitted = Releases /\ blamed = {}

\* A control convicts a release, admitted or not: the whole profile stops.
Blame(r) == blamed' = blamed \cup {r} /\ admitted' = {}

\* An operator recovers the profile with a release nobody has blamed.
Recover(r) == /\ blamed # {}
              /\ r \notin blamed
              /\ admitted' = {r}
              /\ UNCHANGED blamed

Next == \E r \in Releases : Blame(r) \/ Recover(r)

Spec == Init /\ [][Next]_vars
==============================================================================
