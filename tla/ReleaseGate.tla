----------------------------- MODULE ReleaseGate -----------------------------
(***************************************************************************)
(* What the profile registry promises, whatever tables it keeps: at any    *)
(* time at most one artifact is released, and an artifact that has been    *)
(* rejected (suspended for a resource excess, a changed deployment, stale  *)
(* evidence, or by an operator) is never released again, not even under    *)
(* another revision number.                                                *)
(***************************************************************************)
CONSTANTS Digests,     \* identities of resource artifacts
          NoDigest     \* "nothing is released"

VARIABLES released,    \* the artifact that may skip a simulation, or NoDigest
          rejected     \* artifacts withdrawn for good

vars == <<released, rejected>>

Init == released = NoDigest /\ rejected = {}

\* An operator releases an artifact nobody has rejected.
Release(d) == /\ d \notin rejected
              /\ released' = d
              /\ UNCHANGED rejected

\* Evidence or an operator rejects an artifact, released or not.
Reject(d) == /\ rejected' = rejected \cup {d}
             /\ released' = IF released = d THEN NoDigest ELSE released

\* The released revision is retired; its artifact is not blamed.
Retire == released' = NoDigest /\ UNCHANGED rejected

Next == \/ \E d \in Digests : Release(d) \/ Reject(d)
        \/ Retire

Spec == Init /\ [][Next]_vars
==============================================================================
