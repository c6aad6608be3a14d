-------------------------- MODULE MCDecisionRuntime --------------------------
(***************************************************************************)
(* Concurrent estimates while the application moves from an old release    *)
(* to a new one, or to a copy of the old one that is no longer trusted.    *)
(***************************************************************************)
EXTENDS DecisionRuntime

Old == [revision |-> 1, digest |-> "old"]
New == [revision |-> 2, digest |-> "new"]
MCReleases == {Old, New}
MCCalibration == [d \in {"old", "new"} |-> IF d = "old" THEN 1 ELSE 2]
Snap(release, trusted, exported, slot) ==
    [release |-> release, limit |-> 2, trusted |-> trusted, exported |-> exported, slot |-> slot]
MCSnapshots == {Snap(Old, TRUE, 0, 1), Snap(Old, FALSE, 0, 1), Snap(New, TRUE, 1, 2)}

Ask(forced, shadow, drawn, slot) ==
    [forced |-> forced, shadow |-> shadow, drawn |-> drawn, slot |-> slot]
MCRequests == {Ask(FALSE, FALSE, FALSE, 2), Ask(FALSE, FALSE, TRUE, 1)}
==============================================================================
